----------------------- MODULE SimulatedExecutionProofs -----------------------
(***************************************************************************)
(* The evidence of simulated transactions for any plans, coins and number  *)
(* of commands, crashes and upgrades: it is complete, written once and     *)
(* ahead of the states it covers, and a workspace implements               *)
(* EvidencedLedger.  SettleInv shows that a command that comes back to a   *)
(* pending record can always settle it: NeverStuck.                        *)
(***************************************************************************)
EXTENDS SimulatedExecution, WorkspaceLock, TLAPS

\* What a process holds before the commit of its command.
Early == {"recover", "publishRecovered", "body", "snapshot", "write", "commit"}

\* A clock value of an earlier command, or of this one once it has committed.
Past(n) == n \in Nat /\ n <= clock /\ (pc \in Early => n < clock)

\* A state in which every executed transaction has a spent input.
Spent(s) ==
    /\ s.daa \in Nat
    /\ \A tx \in Txs : tx \in DOMAIN s.utxos =>
         \E i \in Inputs[tx] : i \in DOMAIN s.utxos /\ s.utxos[i] # 0

\* State t keeps the outputs of s, and what s has spent.
Extends(s, t) ==
    \A i \in DOMAIN s.utxos :
        i \in DOMAIN t.utxos /\ (s.utxos[i] # 0 => t.utxos[i] = s.utxos[i])

\* Recovery comes first, and the publisher's target is the pending record.
RecordInv ==
    /\ pc \in {"body", "snapshot", "write", "commit"} => pending = NoRecord
    /\ pc \in {"publish", "publishRecovered"} =>
         pending # NoRecord /\ target = Execution(pending) /\ ~Conflicts(target)
    /\ pending # NoRecord => ledger = pending.post /\ Past(pending.clock)

\* What the current command is about to write.
TargetInv ==
    /\ pc \in {"snapshot", "write"} =>
         \/ ledger # NoState /\ target = Fund(ledger)
         \/ /\ target \in {Genesis, LegacyState}
            /\ ledger = NoState \/ cmd.kind \in {"reset", "migrate"}
    /\ pc = "write" => <<"stateSnapshot", target>> \in DOMAIN store
    /\ pc = "commit" =>
         /\ target = [tx |-> cmd.tx, pre |-> ledger, post |-> Apply(ledger, cmd.tx), clock |-> clock]
         /\ cmd.tx \in Txs /\ ledger # NoState /\ Valid(ledger, cmd.tx)

\* No execution or published trace is of the current command before it commits.
ClockInv ==
    /\ clock \in Nat
    /\ \A e \in committed : Past(e.clock)
    /\ \A tx \in Txs : <<"trace", tx>> \in DOMAIN store => Past(store[<<"trace", tx>>][2])

StateInv == ledger # NoState => Spent(ledger)

CommandInv == cmd \in Commands /\ store = [p \in DOMAIN store |-> store[p]]

IInv ==
    CommandInv /\ RecordInv /\ TargetInv /\ ClockInv /\ StateInv /\ SnapshotFirst /\ EvidenceComplete

Grows == \A p \in DOMAIN store : p \in DOMAIN store' /\ store'[p] = store[p]

-----------------------------------------------------------------------------
\* The three files of an execution.
LEMMA PathFacts ==
    ASSUME NEW e
    PROVE  /\ Paths(e)[1] = <<"stateSnapshot", e.post>> /\ Bytes(e)[1] = <<e.clock>>
           /\ Paths(e)[2] = <<"receipt", e.tx, e.pre>> /\ Bytes(e)[2] = <<e.clock>>
           /\ Paths(e)[3] = <<"trace", e.tx>> /\ Bytes(e)[3] = <<e.pre, e.clock>>
  BY Zenon DEF Paths, Bytes

\* The three evidence files of an execution have different names.
LEMMA PathsDiffer ==
    ASSUME NEW e, NEW j \in 1..3, NEW k \in 1..3, j # k
    PROVE  Paths(e)[j] # Paths(e)[k]
<1>1. /\ Paths(e)[1][1] = "stateSnapshot"
      /\ Paths(e)[2][1] = "receipt"
      /\ Paths(e)[3][1] = "trace"
  BY Zenon DEF Paths
<1>2. Paths(e)[j][1] # Paths(e)[k][1]
  BY <1>1
<1> QED
  BY <1>2, Zenon

\* The initial, the migrated and a funded state satisfy Spent.
LEMMA StartsSpent == Spent(Genesis) /\ Spent(LegacyState)
  BY SimulationConstants DEF Spent, Genesis, LegacyState

\* A funding spends nothing and keeps every output.
LEMMA FundSpent ==
    ASSUME NEW s, Spent(s)
    PROVE  Spent(Fund(s)) /\ Extends(s, Fund(s))
<1>1. /\ Fund(s).daa = s.daa + 1
      /\ DOMAIN Fund(s).utxos = DOMAIN s.utxos \cup {<<"faucet", s.daa + 1>>}
      /\ \A i \in DOMAIN s.utxos : Fund(s).utxos[i] = s.utxos[i]
  BY Zenon DEF Fund
<1>2. s.daa + 1 \in Nat /\ s.daa \in Nat
  BY DEF Spent
<1>3. ASSUME NEW tx \in Txs, tx \in DOMAIN Fund(s).utxos
      PROVE  \E i \in Inputs[tx] : i \in DOMAIN Fund(s).utxos /\ Fund(s).utxos[i] # 0
  <2>1. tx # <<"faucet", s.daa + 1>>
    BY <1>2, SimulationConstants
  <2>2. PICK i \in Inputs[tx] : i \in DOMAIN s.utxos /\ s.utxos[i] # 0
    BY <1>1, <1>3, <2>1, Zenon DEF Spent
  <2> QED
    BY <2>2, <1>1, Zenon
<1>4. Spent(Fund(s))
  BY <1>1, <1>2, <1>3, Zenon DEF Spent
<1>5. Extends(s, Fund(s))
  BY <1>1, Zenon DEF Extends
<1> QED
  BY <1>4, <1>5, Zenon

\* A valid plan is new to the state, and its transition keeps what was spent.
LEMMA ApplySpent ==
    ASSUME NEW s, Spent(s), NEW tx \in Txs, Valid(s, tx)
    PROVE  Spent(Apply(s, tx)) /\ Extends(s, Apply(s, tx))
<1> DEFINE t == Apply(s, tx)
<1>1. tx \notin DOMAIN s.utxos
  BY Zenon DEF Spent, Valid
<1>2. /\ t.daa = s.daa + 1
      /\ DOMAIN t.utxos = DOMAIN s.utxos \cup {tx}
      /\ \A i \in DOMAIN t.utxos :
           t.utxos[i] = IF i = tx THEN 0 ELSE IF i \in Inputs[tx] THEN s.daa + 1 ELSE s.utxos[i]
  BY Zenon DEF Apply
<1>3. s.daa \in Nat /\ s.daa + 1 \in Nat /\ s.daa + 1 # 0
  BY DEF Spent
<1>4. \A i \in Inputs[tx] : i \in DOMAIN s.utxos /\ s.utxos[i] = 0
  BY Zenon DEF Valid
<1> HIDE DEF t
<1>5. Extends(s, t)
  BY <1>1, <1>2, <1>4, Zenon DEF Extends
<1>6. ASSUME NEW u \in Txs, u \in DOMAIN t.utxos
      PROVE  \E i \in Inputs[u] : i \in DOMAIN t.utxos /\ t.utxos[i] # 0
  <2>1. CASE u = tx
    <3>1. PICK i \in Inputs[tx] : TRUE
      BY SimulationConstants, ZenonT(60)
    <3>2. i # tx /\ i \in DOMAIN t.utxos /\ t.utxos[i] = s.daa + 1
      BY <1>1, <1>2, <1>4, Zenon
    <3> QED
      BY <2>1, <3>2, <1>3, Zenon
  <2>2. CASE u # tx
    <3>1. PICK i \in Inputs[u] : i \in DOMAIN s.utxos /\ s.utxos[i] # 0
      BY <1>2, <1>6, <2>2, Zenon DEF Spent
    <3> QED
      BY <3>1, <1>5 DEF Extends
  <2> QED
    BY <2>1, <2>2, Zenon
<1>7. Spent(t)
  BY <1>2, <1>3, <1>6, Zenon DEF Spent
<1> QED
  BY <1>5, <1>7, Zenon DEF t

-----------------------------------------------------------------------------
\* Evidence is only added: a new file, or none.
LEMMA Added ==
    ASSUME NEW path, NEW b, path \notin DOMAIN store, store' = Stored(path, b)
    PROVE  /\ Grows /\ DOMAIN store' = DOMAIN store \cup {path} /\ store'[path] = b
           /\ store' = [p \in DOMAIN store' |-> store'[p]]
  BY Zenon DEF Stored, Grows

\* Every step only adds files to the store.
LEMMA StoreGrows == ASSUME [Next]_vars PROVE Grows
<1>1. CASE Publish
  <2>1. PICK k \in 1..3 : Missing(target, k) /\ store' = Stored(Paths(target)[k], Bytes(target)[k])
    BY <1>1, Zenon DEF Publish
  <2> QED
    BY <2>1, Added, Zenon DEF Missing
<1>2. CASE SaveSnapshot
  <2>1. CASE <<"stateSnapshot", target>> \in DOMAIN store
    BY <1>2, <2>1, Zenon DEF SaveSnapshot, Grows
  <2>2. CASE <<"stateSnapshot", target>> \notin DOMAIN store
    BY <1>2, <2>2, Added, Zenon DEF SaveSnapshot
  <2> QED
    BY <2>1, <2>2, Zenon
<1>3. ASSUME ~Publish, ~SaveSnapshot PROVE store' = store
  BY <1>3, Zenon DEF Next, Step, NothingPending, RefuseRecovery, StartRecovery, Clear, StartSave,
     SaveLedger, AnswerOrReject, Prepare, RefuseCommit, Commit, Crash, Upgrade, LoadLegacy,
     Begin, vars
<1> QED
  BY <1>1, <1>2, <1>3, Zenon DEF Grows

\* Published evidence stays published.
LEMMA PublishedStays ==
    ASSUME Grows, NEW e, Published(e)
    PROVE  Published(e)'
  BY Zenon DEF Grows, Published, Exact, Missing

\* What was not contradicted stays so when files are only added as they should be.
LEMMA ExactAdded ==
    ASSUME NEW e, ~Conflicts(e), NEW k \in 1..3, Missing(e, k),
           store' = Stored(Paths(e)[k], Bytes(e)[k])
    PROVE  \A j \in 1..3 : Missing(e, j)' \/ Exact(e, j)'
<1>1. Paths(e)[k] \notin DOMAIN store
  BY Zenon DEF Missing
<1>2. /\ Grows /\ DOMAIN store' = DOMAIN store \cup {Paths(e)[k]}
      /\ store'[Paths(e)[k]] = Bytes(e)[k]
  BY <1>1, Added, Zenon
<1> SUFFICES ASSUME NEW j \in 1..3 PROVE Missing(e, j)' \/ Exact(e, j)'
  BY Zenon
<1>3. CASE j = k
  BY <1>2, <1>3, Zenon DEF Exact, Missing
<1>4. CASE j # k
  <2>1. Paths(e)[j] # Paths(e)[k]
    BY <1>4, PathsDiffer, Zenon
  <2>2. Missing(e, j) \/ Exact(e, j)
    BY Zenon DEF Conflicts
  <2> QED
    BY <1>2, <2>1, <2>2, Zenon DEF Missing, Exact, Grows
<1> QED
  BY <1>3, <1>4, Zenon

\* A step that touches neither files nor history, and enters the part before the
\* commit only by staying in it.
LEMMA Calm ==
    ASSUME IInv, UNCHANGED <<store, ledger, pending, committed, clock>>,
           pc' \in Early => pc \in Early
    PROVE  /\ ClockInv' /\ StateInv' /\ SnapshotFirst' /\ EvidenceComplete'
           /\ pending # NoRecord => ledger' = pending'.post /\ Past(pending.clock)'
           /\ store' = [p \in DOMAIN store' |-> store'[p]]
<1>1. \A n : Past(n) => (n \in Nat /\ n <= clock' /\ (pc' \in Early => n < clock'))
  BY Zenon DEF Past
<1>2. ClockInv'
  BY <1>1, Zenon DEF IInv, ClockInv, Past
<1>3. StateInv' /\ SnapshotFirst'
  BY Zenon DEF IInv, StateInv, SnapshotFirst, Spent
<1>4. EvidenceComplete'
  BY Zenon DEF IInv, EvidenceComplete, Published, Exact, Missing
<1>5. pending # NoRecord => ledger' = pending'.post /\ Past(pending.clock)'
  BY <1>1, Zenon DEF IInv, RecordInv, Past
<1> QED
  BY <1>2, <1>3, <1>4, <1>5, Zenon DEF IInv, CommandInv

\* The invariant holds at the start.
LEMMA InitHolds == Init => IInv
<1> SUFFICES ASSUME Init PROVE IInv
  BY Zenon
<1>1. store = <<>> /\ DOMAIN store = {}
  BY DEF Init
<1>2. CommandInv
  BY <1>1 DEF Init, CommandInv, Commands
<1>3. RecordInv /\ TargetInv
  BY Zenon DEF Init, RecordInv, TargetInv
<1>4. ClockInv
  BY <1>1, Zenon DEF Init, ClockInv
<1>5. StateInv /\ SnapshotFirst /\ EvidenceComplete
  BY Zenon DEF Init, StateInv, SnapshotFirst, EvidenceComplete
<1> QED
  BY <1>2, <1>3, <1>4, <1>5, Zenon DEF IInv

\* The steps that write no file.
LEMMA CalmSteps ==
    ASSUME IInv,
           \/ NothingPending \/ RefuseRecovery \/ StartRecovery \/ StartSave \/ AnswerOrReject
           \/ Prepare \/ RefuseCommit \/ Crash \/ Upgrade \/ LoadLegacy \/ UNCHANGED vars
    PROVE  IInv'
<1> DEFINE Rest == CommandInv' /\ ClockInv' /\ StateInv' /\ SnapshotFirst' /\ EvidenceComplete'
                   /\ (pending # NoRecord => ledger' = pending'.post /\ Past(pending.clock)')
<1>1. Rest
  <2>1. UNCHANGED <<store, ledger, pending, committed, clock, cmd>>
    BY Zenon DEF NothingPending, RefuseRecovery, StartRecovery, StartSave, AnswerOrReject, Prepare,
       RefuseCommit, Crash, Upgrade, LoadLegacy, vars
  <2>2. pc' \in Early => pc \in Early
    BY Zenon DEF NothingPending, RefuseRecovery, StartRecovery, StartSave, AnswerOrReject, Prepare,
       RefuseCommit, Crash, Upgrade, LoadLegacy, vars, Goto, Early
  <2> QED
    BY <2>1, <2>2, Calm, Zenon DEF IInv, CommandInv
<1> HIDE DEF Rest
<1>2. ASSUME RecordInv', TargetInv' PROVE IInv'
  BY <1>1, <1>2, Zenon DEF IInv, Rest
<1>3. CASE NothingPending
  <2>1. RecordInv' /\ TargetInv'
    BY <1>1, <1>3, Zenon DEF NothingPending, Goto, RecordInv, TargetInv
  <2> QED
    BY <2>1, <1>2, Zenon
<1>4. CASE RefuseRecovery \/ AnswerOrReject \/ RefuseCommit \/ Crash
  <2>1. pc' = "idle" /\ pending' = pending
    BY <1>4, Zenon DEF RefuseRecovery, AnswerOrReject, RefuseCommit, Crash, Goto
  <2>2. RecordInv' /\ TargetInv'
    BY <1>1, <2>1, Zenon DEF RecordInv, TargetInv, Rest
  <2> QED
    BY <2>2, <1>2
<1>5. CASE StartRecovery
  <2>1. pc' = "publishRecovered" /\ pending' = pending /\ pending # NoRecord
        /\ target' = Execution(pending) /\ ~Conflicts(Execution(pending)) /\ store' = store
    BY <1>5, Zenon DEF StartRecovery, Goto
  <2>2. ~Conflicts(target)'
    BY <2>1, Zenon DEF Conflicts, Missing, Exact
  <2>3. target' = Execution(pending')
    BY <2>1, Zenon
  <2>4. RecordInv'
    BY <1>1, <2>1, <2>2, <2>3, Zenon DEF RecordInv, Rest
  <2>5. TargetInv'
    BY <2>1, Zenon DEF TargetInv
  <2> QED
    BY <2>4, <2>5, <1>2, Zenon
<1>6. CASE StartSave
  <2>1. pc' = "snapshot" /\ pc = "body" /\ target' \in Due
        /\ UNCHANGED <<pending, ledger, cmd>>
    BY <1>6, Zenon DEF StartSave, Goto
  <2>2. RecordInv'
    BY <1>1, <2>1, Zenon DEF IInv, RecordInv, Rest
  <2>3. \/ ledger # NoState /\ target' = Fund(ledger)
        \/ /\ target' \in {Genesis, LegacyState}
           /\ ledger = NoState \/ cmd.kind \in {"reset", "migrate"}
    BY <2>1, Zenon DEF Due
  <2>4. TargetInv'
    BY <2>1, <2>3, Zenon DEF TargetInv, Fund
  <2> QED
    BY <2>2, <2>4, <1>2
<1>7. CASE Prepare
  <2>1. /\ pc' = "commit" /\ pc = "body" /\ ledger # NoState /\ Valid(ledger, cmd.tx)
        /\ cmd.kind \in {"execute", "executePath"} /\ UNCHANGED <<pending, ledger, cmd, clock>>
        /\ target' = [tx |-> cmd.tx, pre |-> ledger, post |-> Apply(ledger, cmd.tx), clock |-> clock]
    BY <1>7, Zenon DEF Prepare, Goto
  <2>2. cmd.tx \in Txs
    BY <2>1, Zenon DEF IInv, CommandInv, Commands
  <2>3. RecordInv'
    BY <1>1, <2>1, Zenon DEF IInv, RecordInv, Rest
  <2>4. TargetInv'
    BY <2>1, <2>2, Zenon DEF TargetInv, Apply, Valid
  <2> QED
    BY <2>3, <2>4, <1>2
<1>8. CASE Upgrade \/ LoadLegacy \/ UNCHANGED vars
  <2>1. UNCHANGED <<ledger, pending, store, pc, cmd, target, clock>>
    BY <1>8, Zenon DEF Upgrade, LoadLegacy, vars
  <2>2. RecordInv'
    BY <1>1, <2>1, Zenon DEF IInv, RecordInv, Rest, Conflicts, Missing, Exact
  <2>3. TargetInv'
    BY <2>1, Zenon DEF IInv, TargetInv, Valid, Apply, Fund
  <2> QED
    BY <2>2, <2>3, <1>2
<1> QED
  BY <1>3, <1>4, <1>5, <1>6, <1>7, <1>8, Zenon

\* A command takes the next clock value, so everything so far is in the past.
LEMMA BeginStep ==
    ASSUME IInv, NEW c \in Commands, Begin(c)
    PROVE  IInv'
<1>1. /\ pc = "idle" /\ pc' = "recover" /\ clock' = clock + 1 /\ cmd' = c
      /\ UNCHANGED <<ledger, pending, store, committed>>
  BY Zenon DEF Begin, Goto
<1>2. \A n : Past(n) => (n \in Nat /\ n <= clock' /\ n < clock')
  BY <1>1 DEF Past, IInv, ClockInv
<1>3. ClockInv'
  BY <1>1, <1>2 DEF IInv, ClockInv, Past
<1>4. StateInv' /\ SnapshotFirst' /\ CommandInv'
  BY <1>1, Zenon DEF IInv, StateInv, SnapshotFirst, Spent, CommandInv
<1>5. EvidenceComplete'
  BY <1>1, Zenon DEF IInv, EvidenceComplete, Published, Exact, Missing
<1>6. RecordInv' /\ TargetInv'
  BY <1>1, <1>2, Zenon DEF IInv, RecordInv, TargetInv, Past
<1> QED
  BY <1>3, <1>4, <1>5, <1>6, Zenon DEF IInv

\* A file of the pending execution is published.
LEMMA PublishStep ==
    ASSUME IInv, Publish
    PROVE  IInv'
<1>1. /\ pc \in {"publish", "publishRecovered"}
      /\ UNCHANGED <<ledger, pending, pc, cmd, target, clock, committed>>
  BY Zenon DEF Publish
<1>2. PICK k \in 1..3 : Missing(target, k) /\ store' = Stored(Paths(target)[k], Bytes(target)[k])
  BY Zenon DEF Publish
<1>3. pending # NoRecord /\ target = Execution(pending) /\ ~Conflicts(target)
      /\ ledger = pending.post /\ Past(pending.clock)
  BY <1>1, Zenon DEF IInv, RecordInv
<1> DEFINE path == Paths(target)[k]
<1>4. /\ Grows /\ DOMAIN store' = DOMAIN store \cup {path} /\ store'[path] = Bytes(target)[k]
      /\ store' = [p \in DOMAIN store' |-> store'[p]]
  BY <1>2, Added, Zenon DEF Missing
<1>5. \A j \in 1..3 : Missing(target, j)' \/ Exact(target, j)'
  <2> DEFINE e == target
  <2>1. ~Conflicts(e) /\ Missing(e, k) /\ store' = Stored(Paths(e)[k], Bytes(e)[k])
    BY <1>2, <1>3, Zenon
  <2> HIDE DEF e
  <2>2. \A j \in 1..3 : (Paths(e)[j] \notin DOMAIN store')
                         \/ (Paths(e)[j] \in DOMAIN store' /\ store'[Paths(e)[j]] = Bytes(e)[j])
    BY <2>1, ExactAdded, Zenon DEF Missing, Exact
  <2>3. target' = e
    BY <1>1, Zenon DEF e
  <2> QED
    BY <2>2, <2>3, Zenon DEF Missing, Exact
<1>6. ~Conflicts(target)'
  BY <1>5, Zenon DEF Conflicts
<1>7. RecordInv' /\ TargetInv' /\ CommandInv'
  BY <1>1, <1>3, <1>4, <1>6, Zenon DEF IInv, RecordInv, TargetInv, CommandInv, Past
<1>8. ClockInv'
  <2>1. ASSUME NEW tx \in Txs, <<"trace", tx>> \in DOMAIN store'
        PROVE  Past(store'[<<"trace", tx>>][2])
    <3>1. CASE <<"trace", tx>> \in DOMAIN store
      BY <3>1, <1>4, Zenon DEF IInv, ClockInv, Grows
    <3>2. CASE <<"trace", tx>> = path
      <4>1. path[1] = "trace"
        BY <3>2
      <4>2. k = 3
        <5>1. Paths(target)[1][1] = "stateSnapshot" /\ Paths(target)[2][1] = "receipt"
          BY Zenon DEF Paths
        <5> QED
          BY <4>1, <5>1
      <4>3. store'[path] = <<target.pre, target.clock>>
        BY <1>4, <4>2, PathFacts, Zenon
      <4>4. target.clock = pending.clock
        BY <1>3, Zenon DEF Execution
      <4> QED
        BY <3>2, <4>3, <4>4, <1>3
    <3> QED
      BY <3>1, <3>2, <2>1, <1>4, Zenon
  <2>2. \A n : Past(n) => (n \in Nat /\ n <= clock' /\ (pc' \in Early => n < clock'))
    BY <1>1, Zenon DEF Past
  <2>3. \A e \in committed' : Past(e.clock)
    BY <1>1, Zenon DEF IInv, ClockInv
  <2> QED
    BY <1>1, <2>1, <2>2, <2>3, Zenon DEF IInv, ClockInv, Past
<1>9. StateInv' /\ SnapshotFirst'
  BY <1>1, <1>3, <1>4, Zenon DEF IInv, StateInv, Spent, SnapshotFirst
<1>10. EvidenceComplete'
  <2> SUFFICES ASSUME NEW e \in committed'
               PROVE  Published(e)' \/ (pending' # NoRecord /\ Execution(pending') = e)
    BY Zenon DEF EvidenceComplete
  <2>1. Published(e) => Published(e)'
    BY <1>4, PublishedStays, Zenon
  <2> QED
    BY <1>1, <2>1, Zenon DEF IInv, EvidenceComplete
<1> QED
  BY <1>7, <1>8, <1>9, <1>10, Zenon DEF IInv

\* The snapshot of the state that is about to be saved.
LEMMA SnapshotStep ==
    ASSUME IInv, SaveSnapshot
    PROVE  IInv'
<1> DEFINE path == <<"stateSnapshot", target>>
<1>1. /\ pc = "snapshot" /\ pc' = "write"
      /\ store' = IF path \in DOMAIN store THEN store ELSE Stored(path, <<clock>>)
      /\ UNCHANGED <<ledger, pending, cmd, target, clock, committed>>
  BY Zenon DEF SaveSnapshot, Goto
<1>2. /\ Grows /\ DOMAIN store' = DOMAIN store \cup {path}
      /\ store' = [p \in DOMAIN store' |-> store'[p]]
  <2>1. CASE path \in DOMAIN store
    BY <1>1, <2>1, Zenon DEF Grows, IInv, CommandInv
  <2>2. CASE path \notin DOMAIN store
    BY <1>1, <2>2, Added, Zenon
  <2> QED
    BY <2>1, <2>2, Zenon
<1>3. pending = NoRecord
  BY <1>1, Zenon DEF IInv, RecordInv
<1>4. RecordInv' /\ TargetInv' /\ CommandInv'
  BY <1>1, <1>2, <1>3, Zenon DEF IInv, RecordInv, TargetInv, CommandInv, Fund
<1>5. ClockInv'
  <2>1. \A n : Past(n) => (n \in Nat /\ n <= clock' /\ (pc' \in Early => n < clock'))
    BY <1>1, Zenon DEF Past, Early
  <2>2. ASSUME NEW tx \in Txs, <<"trace", tx>> \in DOMAIN store'
        PROVE  Past(store'[<<"trace", tx>>][2])
    <3>1. <<"trace", tx>> # path
      <4>1. <<"trace", tx>>[1] = "trace" /\ path[1] = "stateSnapshot"
        BY Zenon
      <4> QED
        BY <4>1, Zenon
    <3> QED
      BY <3>1, <2>2, <1>2, Zenon DEF IInv, ClockInv, Grows
  <2>3. \A e \in committed' : Past(e.clock)
    BY <1>1, Zenon DEF IInv, ClockInv
  <2> QED
    BY <1>1, <2>1, <2>2, <2>3, Zenon DEF IInv, ClockInv, Past
<1>6. StateInv' /\ SnapshotFirst'
  BY <1>1, <1>2, Zenon DEF IInv, StateInv, Spent, SnapshotFirst
<1>7. EvidenceComplete'
  <2> SUFFICES ASSUME NEW e \in committed' PROVE Published(e)'
    BY Zenon DEF EvidenceComplete
  <2> QED
    BY <1>1, <1>2, <1>3, PublishedStays, Zenon DEF IInv, EvidenceComplete
<1> QED
  BY <1>4, <1>5, <1>6, <1>7, Zenon DEF IInv

\* The saved state has its snapshot, and no execution is pending under it.
LEMMA SaveStep ==
    ASSUME IInv, SaveLedger
    PROVE  IInv' /\ (cmd.kind \in {"reset", "migrate"} \/ ledger = NoState \/ Extends(ledger, ledger'))
<1>1. /\ pc = "write" /\ pc' \in {"body", "idle"} /\ ledger' = target /\ pending' = NoRecord
      /\ UNCHANGED <<store, cmd, target, clock, committed>>
  BY Zenon DEF SaveLedger, Goto
<1>2. pending = NoRecord /\ <<"stateSnapshot", target>> \in DOMAIN store
  BY <1>1, Zenon DEF IInv, RecordInv, TargetInv
<1>3. \/ ledger # NoState /\ target = Fund(ledger)
      \/ target \in {Genesis, LegacyState} /\ (ledger = NoState \/ cmd.kind \in {"reset", "migrate"})
  BY <1>1, Zenon DEF IInv, TargetInv
<1>4. /\ Spent(target)
      /\ cmd.kind \in {"reset", "migrate"} \/ ledger = NoState \/ Extends(ledger, target)
  BY <1>3, StartsSpent, FundSpent, Zenon DEF IInv, StateInv
<1>5. StateInv' /\ SnapshotFirst' /\ CommandInv'
  BY <1>1, <1>2, <1>4, Zenon DEF IInv, StateInv, Spent, SnapshotFirst, CommandInv
<1>6. RecordInv' /\ TargetInv'
  BY <1>1, Zenon DEF RecordInv, TargetInv
<1>7. ClockInv'
  <2>1. \A n : Past(n) => (n \in Nat /\ n <= clock' /\ (pc' \in Early => n < clock'))
    BY <1>1, Zenon DEF Past, Early
  <2> QED
    BY <1>1, <2>1, Zenon DEF IInv, ClockInv, Past
<1>8. EvidenceComplete'
  BY <1>1, <1>2, Zenon DEF IInv, EvidenceComplete, Published, Exact, Missing
<1> QED
  BY <1>1, <1>4, <1>5, <1>6, <1>7, <1>8, Zenon DEF IInv

\* The record is cleared when its three files are there, and exact.
LEMMA ClearStep ==
    ASSUME IInv, Clear
    PROVE  IInv'
<1>1. /\ pc \in {"publish", "publishRecovered"} /\ \A k \in 1..3 : ~Missing(target, k)
      /\ pc' \in {"idle", "body"} /\ (pc' = "body" => pc = "publishRecovered")
      /\ pending' = NoRecord
      /\ UNCHANGED <<ledger, store, cmd, target, clock, committed>>
  BY Zenon DEF Clear, Goto
<1>2. pending # NoRecord /\ target = Execution(pending) /\ ~Conflicts(target) /\ ledger = pending.post
  BY <1>1, Zenon DEF IInv, RecordInv
<1>3. Published(target)
  BY <1>1, <1>2, Zenon DEF Published, Conflicts
<1>4. <<"stateSnapshot", ledger>> \in DOMAIN store
  <2>1. Paths(target)[1] \in DOMAIN store
    BY <1>1 DEF Missing
  <2>2. target.post = ledger
    BY <1>2, Zenon DEF Execution
  <2> QED
    BY <2>1, <2>2, PathFacts, Zenon
<1>5. EvidenceComplete'
  <2>1. \A e \in committed : Published(e)
    BY <1>2, <1>3, Zenon DEF IInv, EvidenceComplete
  <2> QED
    BY <1>1, <2>1, Zenon DEF EvidenceComplete, Published, Exact, Missing
<1>6. StateInv' /\ SnapshotFirst' /\ CommandInv'
  BY <1>1, <1>4, Zenon DEF IInv, StateInv, Spent, SnapshotFirst, CommandInv
<1>7. RecordInv' /\ TargetInv'
  BY <1>1, Zenon DEF RecordInv, TargetInv
<1>8. ClockInv'
  <2>1. \A n : Past(n) => (n \in Nat /\ n <= clock' /\ (pc' \in Early => n < clock'))
    BY <1>1, Zenon DEF Past, Early
  <2> QED
    BY <1>1, <2>1, Zenon DEF IInv, ClockInv, Past
<1> QED
  BY <1>5, <1>6, <1>7, <1>8, Zenon DEF IInv

\* An execution moves the ledger once, when all earlier evidence is published,
\* and its own is not.
LEMMA CommitStep ==
    ASSUME IInv, Commit
    PROVE  /\ IInv' /\ Extends(ledger, ledger')
           /\ \A e \in committed : Published(e)
           /\ target \notin committed /\ ~Published(target)
           /\ target.pre = ledger /\ target.post = ledger'
<1>1. /\ pc = "commit" /\ ~Conflicts(target) /\ ledger' = target.post
      /\ pending' = [tx |-> target.tx, pre |-> target.pre, post |-> target.post,
                     clock |-> target.clock, format |-> version]
      /\ committed' = committed \cup {target} /\ pc' = "publish"
      /\ UNCHANGED <<store, cmd, target, clock>>
  BY Zenon DEF Commit, Goto
<1>2. /\ target = [tx |-> cmd.tx, pre |-> ledger, post |-> Apply(ledger, cmd.tx), clock |-> clock]
      /\ cmd.tx \in Txs /\ ledger # NoState /\ Valid(ledger, cmd.tx)
      /\ pending = NoRecord
  BY <1>1, Zenon DEF IInv, RecordInv, TargetInv
<1>3. /\ target.tx = cmd.tx /\ target.pre = ledger /\ target.post = Apply(ledger, cmd.tx)
      /\ target.clock = clock
  BY <1>2, Zenon
<1>4. Spent(ledger') /\ Extends(ledger, ledger')
  BY <1>1, <1>2, <1>3, ApplySpent, Zenon DEF IInv, StateInv
<1>5. \A e \in committed : Published(e)
  BY <1>2, Zenon DEF IInv, EvidenceComplete
<1>6. target \notin committed
  <2>1. \A e \in committed : e.clock < clock
    BY <1>1, Zenon DEF IInv, ClockInv, Past, Early
  <2> QED
    BY <2>1, <1>3 DEF IInv, ClockInv
<1>7. ~Published(target)
  <2> SUFFICES ASSUME Published(target) PROVE FALSE
    BY Zenon
  <2>1. Paths(target)[3] \in DOMAIN store /\ store[Paths(target)[3]] = Bytes(target)[3]
    BY DEF Published, Exact, Missing
  <2>2. <<"trace", cmd.tx>> \in DOMAIN store /\ store[<<"trace", cmd.tx>>] = <<ledger, clock>>
    BY <2>1, <1>3, PathFacts, Zenon
  <2>3. <<ledger, clock>>[2] = clock
    BY Zenon
  <2>4. clock < clock
    BY <1>1, <1>2, <2>2, <2>3, Zenon DEF IInv, ClockInv, Past, Early
  <2> QED
    BY <2>4 DEF IInv, ClockInv
<1>8. pending' # NoRecord /\ Execution(pending') = target
  <2>1. pending'.tx # "none"
    BY <1>1, <1>2, <1>3, SimulationConstants, Zenon
  <2>2. Execution(pending') = target
    BY <1>1, <1>2, <1>3, Zenon DEF Execution
  <2> QED
    BY <2>1, <2>2 DEF NoRecord
<1>9. ~Conflicts(target)'
  BY <1>1, Zenon DEF Conflicts, Missing, Exact
<1>10. Past(clock)' /\ (\A n : Past(n) => n \in Nat /\ n <= clock' /\ pc' \notin Early)
  BY <1>1 DEF Past, Early, IInv, ClockInv
<1>11. RecordInv'
  BY <1>1, <1>3, <1>8, <1>9, <1>10, Zenon DEF RecordInv
<1>12. TargetInv' /\ StateInv' /\ SnapshotFirst' /\ CommandInv'
  BY <1>1, <1>4, <1>8, Zenon DEF IInv, TargetInv, StateInv, Spent, SnapshotFirst, CommandInv
<1>13. ClockInv'
  <2>1. \A e \in committed' : e.clock \in Nat /\ e.clock <= clock'
    BY <1>1, <1>3, <1>10, Zenon DEF IInv, ClockInv, Past
  <2>2. \A tx \in Txs : <<"trace", tx>> \in DOMAIN store' =>
          store'[<<"trace", tx>>][2] \in Nat /\ store'[<<"trace", tx>>][2] <= clock'
    BY <1>1, <1>10, Zenon DEF IInv, ClockInv
  <2> QED
    BY <1>1, <1>10, <2>1, <2>2, Zenon DEF IInv, ClockInv, Past
<1>14. EvidenceComplete'
  BY <1>1, <1>5, <1>8, Zenon DEF EvidenceComplete, Published, Exact, Missing
<1> QED
  BY <1>1, <1>3, <1>4, <1>5, <1>6, <1>7, <1>11, <1>12, <1>13, <1>14, Zenon DEF IInv

\* The invariant is inductive.
LEMMA Inductive ==
    ASSUME IInv, [Next]_vars
    PROVE  IInv'
  BY CalmSteps, BeginStep, PublishStep, SnapshotStep, SaveStep, ClearStep, CommitStep, Zenon DEF
     Next, Step

\* The invariant holds in every reachable state.
LEMMA Invariant == Spec => []IInv
<1>1. IInv /\ [Next]_vars => IInv'
  BY Inductive, Zenon
<1> QED
  BY InitHolds, <1>1, PTL DEF Spec

-----------------------------------------------------------------------------
\* The evidence of every committed execution is in the store, byte for byte,
\* or its record is pending, for any number of crashes (recoverPendingExecution).
THEOREM EvidenceCompleteHolds == Spec => []EvidenceComplete
<1>1. IInv => EvidenceComplete
  BY Zenon DEF IInv
<1> QED
  BY Invariant, <1>1, PTL

\* No settled state is durable before its snapshot (writeLocalnetState).
THEOREM SnapshotFirstHolds == Spec => []SnapshotFirst
<1>1. IInv => SnapshotFirst
  BY Zenon DEF IInv
<1> QED
  BY Invariant, <1>1, PTL

\* No step changes or removes a published file (publishEvidence, publishStateSnapshot).
THEOREM WriteOnceHolds == Spec => WriteOnce
<1>1. [Next]_vars => [\A p \in DOMAIN store : p \in DOMAIN store' /\ store'[p] = store[p]]_vars
  BY StoreGrows, Zenon DEF Grows
<1> QED
  BY <1>1, PTL DEF Spec, WriteOnce

\* The steps besides a save and a commit leave the ledger and its history.
LEMMA LedgerSteps ==
    ASSUME [Next]_vars, ~SaveLedger, ~Commit
    PROVE  UNCHANGED <<ledger, committed>>
  BY Zenon DEF Next, Step, NothingPending, RefuseRecovery, StartRecovery, Publish, Clear, StartSave,
     SaveSnapshot, AnswerOrReject, Prepare, RefuseCommit, Crash, Upgrade, LoadLegacy, Begin, vars

\* Each write of the ledger keeps the outputs of the state it replaces and what
\* that had spent, but for a reset and a migration (saveLocalnetState,
\* commitSimulatedExecution).
THEOREM BuildsOnHolds == Spec => BuildsOn
<1> DEFINE Kept == \/ ledger = NoState \/ cmd.kind \in {"reset", "migrate"}
                   \/ \A i \in DOMAIN ledger.utxos :
                        /\ i \in DOMAIN ledger'.utxos
                        /\ ledger.utxos[i] # 0 => ledger'.utxos[i] = ledger.utxos[i]
<1>1. ASSUME IInv, [Next]_vars PROVE [Kept]_ledger
  <2>1. CASE SaveLedger
    BY <1>1, <2>1, SaveStep, Zenon DEF Extends
  <2>2. CASE Commit
    BY <1>1, <2>2, CommitStep, Zenon DEF Extends
  <2> QED
    BY <1>1, <2>1, <2>2, LedgerSteps, Zenon
<1>2. IInv /\ [Next]_vars => [Kept]_ledger
  BY <1>1, Zenon
<1> QED
  BY Invariant, <1>2, PTL DEF Spec, BuildsOn

-----------------------------------------------------------------------------
\* Every step is a step of EvidencedLedger: a commit performs an execution, a
\* save replaces the state, and a new file may show an execution.
LEMMA StepRefines ==
    ASSUME IInv, [Next]_vars
    PROVE  [Abstract!AbstractNext]_(Abstract!abstractVars)
<1> DEFINE shown == {e \in committed : Published(e)}
<1>1. Grows
  BY StoreGrows, Zenon
<1>2. CASE Commit
  <2>1. /\ \A e \in committed : Published(e)
        /\ target \notin committed /\ ~Published(target)
        /\ target.pre = ledger /\ target.post = ledger'
    BY <1>2, CommitStep, Zenon
  <2>2. committed' = committed \cup {target} /\ store' = store
    BY <1>2, Zenon DEF Commit
  <2>3. \A e : Published(e)' <=> Published(e)
    BY <2>2, Zenon DEF Published, Exact, Missing
  <2>4. shown = committed /\ shown' = shown
    BY <2>1, <2>2, <2>3, Zenon
  <2>5. Abstract!Perform
    BY <2>1, <2>2, <2>4, Zenon DEF Abstract!Perform
  <2> QED
    BY <2>5, Zenon DEF Abstract!AbstractNext
<1>3. CASE SaveLedger
  <2>1. pc = "write" /\ ledger' = target /\ UNCHANGED <<store, committed>>
    BY <1>3, Zenon DEF SaveLedger
  <2>2. target \in {Genesis, LegacyState} \cup {Fund(ledger)}
    BY <2>1, Zenon DEF IInv, TargetInv
  <2>3. pending = NoRecord
    BY <2>1, Zenon DEF IInv, RecordInv
  <2>4. \A e : Published(e)' <=> Published(e)
    BY <2>1, Zenon DEF Published, Exact, Missing
  <2>5. shown = committed /\ shown' = shown
    BY <2>1, <2>3, <2>4, Zenon DEF IInv, EvidenceComplete
  <2>6. Abstract!Replace
    BY <2>1, <2>2, <2>5, Zenon DEF Abstract!Replace
  <2> QED
    BY <2>6, Zenon DEF Abstract!AbstractNext
<1>4. ASSUME ~Commit, ~SaveLedger PROVE Abstract!Show
  <2>1. UNCHANGED <<ledger, committed>>
    BY <1>4, LedgerSteps, Zenon
  <2>2. \A e : Published(e) => Published(e)'
    BY <1>1, PublishedStays, Zenon
  <2>3. shown \subseteq shown' /\ shown' \subseteq committed
    BY <2>1, <2>2, Zenon
  <2> QED
    BY <2>1, <2>3, Zenon DEF Abstract!Show
<1> QED
  BY <1>2, <1>3, <1>4, Zenon DEF Abstract!AbstractNext

\* The workspace implements EvidencedLedger, for any plans and any crashes: each
\* execution moves the ledger once and none while evidence is owed.
THEOREM RefinementHolds == Spec => RefinesEvidencedLedger
<1>1. Init => Abstract!AbstractInit
  BY Zenon DEF Init, Abstract!AbstractInit
<1>2. IInv /\ [Next]_vars => [Abstract!AbstractNext]_(Abstract!abstractVars)
  BY StepRefines, Zenon
<1> QED
  BY Invariant, <1>1, <1>2, PTL DEF Spec, RefinesEvidencedLedger, Abstract!AbstractSpec

-----------------------------------------------------------------------------
\* A state as the simulator writes it: no output was spent after its score.
Sane(s) ==
    /\ s = [daa |-> s.daa, utxos |-> s.utxos]
    /\ s.utxos = [i \in DOMAIN s.utxos |-> s.utxos[i]]
    /\ s.daa \in Nat
    /\ \A i \in DOMAIN s.utxos : s.utxos[i] \in 0..s.daa

\* A pending record has its material, undoes and recomputes, and no file
\* contradicts its evidence, whatever the installed version.
Recoverable ==
    pending # NoRecord =>
        /\ pending.tx \in material
        /\ Invert(pending.post, pending.tx) = pending.pre
        /\ Valid(pending.pre, pending.tx)
        /\ Apply(pending.pre, pending.tx) = pending.post
        /\ ~Conflicts(Execution(pending))

SettleInv ==
    /\ ledger # NoState => Sane(ledger)
    /\ pc = "commit" => cmd.tx \in material
    /\ Recoverable

\* Every state a save writes is sane.
LEMMA StartsSane == Sane(Genesis) /\ Sane(LegacyState)
  BY DEF Sane, Genesis, LegacyState

\* A funding keeps a sane state sane (fundAddress).
LEMMA FundSane ==
    ASSUME NEW s, Sane(s)
    PROVE  Sane(Fund(s))
<1> DEFINE t == Fund(s)
<1>1. /\ t = [daa |-> t.daa, utxos |-> t.utxos]
      /\ t.utxos = [i \in DOMAIN t.utxos |-> t.utxos[i]]
      /\ t.daa = s.daa + 1
      /\ \A i \in DOMAIN t.utxos :
           t.utxos[i] = IF i \in DOMAIN s.utxos THEN s.utxos[i] ELSE 0
  BY Zenon DEF Fund
<1> HIDE DEF t
<1>2. t.daa \in Nat /\ \A i \in DOMAIN t.utxos : t.utxos[i] \in 0..t.daa
  BY <1>1 DEF Sane
<1>3. Sane(t)
  BY <1>1, <1>2, Zenon DEF Sane
<1> QED
  BY <1>3, Zenon DEF t

\* invertSimulatedTransition undoes applySimulatedPlan: the output of tx is new,
\* and exactly the inputs of tx were spent at the score it reached.
LEMMA Undone ==
    ASSUME NEW s, Sane(s), Spent(s), NEW tx \in Txs, Valid(s, tx)
    PROVE  Sane(Apply(s, tx)) /\ Invert(Apply(s, tx), tx) = s
<1> DEFINE t == Apply(s, tx)
           u == Invert(t, tx)
<1>1. tx \notin DOMAIN s.utxos
  BY Zenon DEF Spent, Valid
<1>2. /\ t = [daa |-> t.daa, utxos |-> t.utxos]
      /\ t.utxos = [i \in DOMAIN t.utxos |-> t.utxos[i]]
      /\ t.daa = s.daa + 1
      /\ DOMAIN t.utxos = DOMAIN s.utxos \cup {tx}
      /\ \A i \in DOMAIN t.utxos :
           t.utxos[i] = IF i = tx THEN 0 ELSE IF i \in Inputs[tx] THEN s.daa + 1 ELSE s.utxos[i]
  BY Zenon DEF Apply
<1> HIDE DEF t
<1>3. /\ u = [daa |-> u.daa, utxos |-> u.utxos]
      /\ u.utxos = [i \in DOMAIN u.utxos |-> u.utxos[i]]
      /\ u.daa = t.daa - 1
      /\ DOMAIN u.utxos = DOMAIN t.utxos \ {tx}
      /\ \A i \in DOMAIN u.utxos :
           u.utxos[i] = IF t.utxos[i] = t.daa THEN 0 ELSE t.utxos[i]
  BY Zenon DEF Invert
<1> HIDE DEF u
<1>4. s.daa \in Nat /\ \A i \in DOMAIN s.utxos : s.utxos[i] \in 0..s.daa
  BY Zenon DEF Sane
<1>5. \A i \in Inputs[tx] : i \in DOMAIN s.utxos /\ s.utxos[i] = 0
  BY Zenon DEF Valid
<1>6. t.daa \in Nat /\ \A i \in DOMAIN t.utxos : t.utxos[i] \in 0..t.daa
  BY <1>2, <1>4
<1>7. Sane(t)
  BY <1>2, <1>6, Zenon DEF Sane
<1>8. u.daa = s.daa /\ DOMAIN u.utxos = DOMAIN s.utxos
  BY <1>1, <1>2, <1>3, <1>4
<1>9. ASSUME NEW i \in DOMAIN s.utxos PROVE u.utxos[i] = s.utxos[i]
  <2>1. i # tx /\ i \in DOMAIN t.utxos /\ i \in DOMAIN u.utxos
    BY <1>1, <1>2, <1>8, Zenon
  <2>2. CASE i \in Inputs[tx]
    BY <2>1, <2>2, <1>2, <1>3, <1>5, Zenon
  <2>3. CASE i \notin Inputs[tx]
    <3>1. t.utxos[i] = s.utxos[i]
      BY <2>1, <2>3, <1>2, Zenon
    <3>2. t.utxos[i] # t.daa
      BY <3>1, <1>2, <1>4
    <3> QED
      BY <2>1, <3>1, <3>2, <1>3, Zenon
  <2> QED
    BY <2>2, <2>3, Zenon
<1>10. u.utxos = s.utxos
  BY <1>3, <1>8, <1>9, Zenon DEF Sane
<1>11. u = s
  BY <1>3, <1>8, <1>10, Zenon DEF Sane
<1> QED
  BY <1>7, <1>11, Zenon DEF t, u

\* A step that leaves the files of a record, or publishes one of them, leaves
\* the record recoverable.
LEMMA RecoverableStays ==
    ASSUME IInv, [Next]_vars, Recoverable, pending' = pending
    PROVE  Recoverable'
<1> SUFFICES ASSUME pending # NoRecord PROVE Recoverable'
  BY Zenon DEF Recoverable
<1>1. material \subseteq material'
  BY Zenon DEF Next, Step, NothingPending, RefuseRecovery, StartRecovery, Publish, Clear, StartSave,
     SaveSnapshot, SaveLedger, AnswerOrReject, Prepare, RefuseCommit, Commit, Crash, Upgrade,
     LoadLegacy, Begin, vars
<1>2. ~Conflicts(Execution(pending))'
  <2>1. CASE Publish
    <3>1. pc' \in {"publish", "publishRecovered"}
      BY <2>1, Zenon DEF Publish
    <3>2. target' = Execution(pending') /\ ~Conflicts(target)'
      BY <3>1, Inductive, Zenon DEF IInv, RecordInv
    <3> QED
      BY <3>2, Zenon DEF Conflicts, Missing, Exact
  <2>2. CASE SaveSnapshot
    BY <2>2, Zenon DEF SaveSnapshot, IInv, RecordInv
  <2>3. ASSUME ~Publish, ~SaveSnapshot PROVE store' = store
    BY <2>3, Zenon DEF Next, Step, NothingPending, RefuseRecovery, StartRecovery, Clear, StartSave,
       SaveLedger, AnswerOrReject, Prepare, RefuseCommit, Commit, Crash, Upgrade, LoadLegacy,
       Begin, vars
  <2>4. CASE store' = store
    BY <2>4, Zenon DEF Recoverable, Conflicts, Missing, Exact, Execution
  <2> QED
    BY <2>1, <2>2, <2>3, <2>4, Zenon
<1>3. /\ pending'.tx \in material'
      /\ Invert(pending'.post, pending'.tx) = pending'.pre
      /\ Valid(pending'.pre, pending'.tx)
      /\ Apply(pending'.pre, pending'.tx) = pending'.post
  BY <1>1, Zenon DEF Recoverable
<1> QED
  BY <1>2, <1>3, Zenon DEF Recoverable

\* The steps that leave the record: the ledger is only saved, and the material of
\* a plan is stored before its commit.
LEMMA SettleSteps ==
    ASSUME IInv, SettleInv, [Next]_vars, ~Commit
    PROVE  SettleInv'
<1>1. ledger' # NoState => Sane(ledger)'
  <2>1. CASE SaveLedger
    <3>1. pc = "write" /\ ledger' = target
      BY <2>1, Zenon DEF SaveLedger
    <3>2. target \in {Genesis, LegacyState} \/ (ledger # NoState /\ target = Fund(ledger))
      BY <3>1, Zenon DEF IInv, TargetInv
    <3>3. Sane(target)
      BY <3>2, StartsSane, FundSane, Zenon DEF SettleInv
    <3> QED
      BY <3>1, <3>3, Zenon DEF Sane
  <2>2. CASE ~SaveLedger
    BY <2>2, LedgerSteps, ZenonT(60) DEF SettleInv, Sane
  <2> QED
    BY <2>1, <2>2, Zenon
<1>2. pc' = "commit" => cmd'.tx \in material'
  BY SMTT(30) DEF SettleInv, Next, Step, NothingPending, RefuseRecovery, StartRecovery, Publish, Clear,
     StartSave, SaveSnapshot, SaveLedger, AnswerOrReject, Prepare, RefuseCommit, Crash, Upgrade,
     LoadLegacy, Begin, Goto, vars
<1>3. pending' = pending \/ pending' = NoRecord
  BY Zenon DEF Next, Step, NothingPending, RefuseRecovery, StartRecovery, Publish, Clear, StartSave,
     SaveSnapshot, SaveLedger, AnswerOrReject, Prepare, RefuseCommit, Crash, Upgrade, LoadLegacy,
     Begin, vars
<1>4. Recoverable'
  <2>1. CASE pending' = pending
    BY <2>1, RecoverableStays, Zenon DEF SettleInv
  <2>2. CASE pending' = NoRecord
    BY <2>2, Zenon DEF Recoverable
  <2> QED
    BY <1>3, <2>1, <2>2, Zenon
<1> QED
  BY <1>1, <1>2, <1>4, Zenon DEF SettleInv

\* A commit records a transition that recovery can undo (commitSimulatedExecution).
LEMMA SettleCommit ==
    ASSUME IInv, SettleInv, Commit
    PROVE  SettleInv'
<1>1. /\ pc = "commit" /\ ~Conflicts(target) /\ ledger' = target.post
      /\ pending' = [tx |-> target.tx, pre |-> target.pre, post |-> target.post,
                     clock |-> target.clock, format |-> version]
      /\ pc' = "publish" /\ UNCHANGED <<store, material>>
  BY Zenon DEF Commit, Goto
<1>2. /\ target = [tx |-> cmd.tx, pre |-> ledger, post |-> Apply(ledger, cmd.tx), clock |-> clock]
      /\ cmd.tx \in Txs /\ ledger # NoState /\ Valid(ledger, cmd.tx)
  BY <1>1, Zenon DEF IInv, TargetInv
<1>3. /\ pending'.tx = cmd.tx /\ pending'.pre = ledger /\ pending'.post = Apply(ledger, cmd.tx)
      /\ ledger' = Apply(ledger, cmd.tx) /\ Execution(pending') = target
  BY <1>1, <1>2, Zenon DEF Execution
<1>4. /\ Sane(Apply(ledger, cmd.tx)) /\ Invert(Apply(ledger, cmd.tx), cmd.tx) = ledger
  BY <1>2, Undone, Zenon DEF SettleInv, IInv, StateInv
<1>5. ~Conflicts(Execution(pending))'
  BY <1>1, <1>3, Zenon DEF Conflicts, Missing, Exact
<1>6. Recoverable'
  BY <1>1, <1>2, <1>3, <1>4, <1>5, Zenon DEF Recoverable, SettleInv
<1>7. Sane(ledger)'
  BY <1>3, <1>4, Zenon DEF Sane
<1> QED
  BY <1>1, <1>6, <1>7, Zenon DEF SettleInv

\* Without a change of version no crash leaves a record that recovery refuses
\* (recoverPendingExecution).
THEOREM NeverStuckHolds == Spec => []NeverStuck
<1>1. Init => SettleInv
  BY Zenon DEF Init, SettleInv, Recoverable
<1>2. IInv /\ SettleInv /\ [Next]_vars => SettleInv'
  BY SettleSteps, SettleCommit, Zenon
<1>3. IInv /\ SettleInv => NeverStuck
  BY Zenon DEF IInv, RecordInv, SettleInv, Recoverable, NeverStuck, Settleable
<1> QED
  BY Invariant, <1>1, <1>2, <1>3, PTL DEF Spec

-----------------------------------------------------------------------------
(***************************************************************************)
(* The lock every command of SimulatedExecution runs under.  That module   *)
(* takes a command's hold of the `simulator-state' lock as one flow at a   *)
(* time; this part shows it of the lock itself, WorkspaceLock, for any     *)
(* number of processes, flows, operators and crashes.  The file names its  *)
(* owner from the creation to the last share's release.                    *)
(***************************************************************************)

\* The flows of a dead process are dead, and no others.
DeadInv == \A f \in Flows : where[f] = "dead" <=> ProcOf[f] \notin alive

\* A holding has a share.
SharesInv == \A f \in Flows : where[f] = "holding" => shares[f] >= 1

\* The lock file is the owner's own, in every step of its tenure.
OwnerInv ==
    /\ \A f \in Flows : where[f] = "write" => file = Created(f)
    /\ \A f \in Flows : where[f] \in {"holding", "remove"} => file = Record(f)

LockIInv == LockTypeOK /\ DeadInv /\ SharesInv /\ (raced \/ OwnerInv)

-----------------------------------------------------------------------------
\* Types, the deadness of flows and the count of shares are preserved by every
\* step, whether a recovery raced or not.
LEMMA LockBasicStep ==
    ASSUME LockTypeOK, DeadInv, SharesInv, [LockNext]_lockVars
    PROVE  LockTypeOK' /\ DeadInv' /\ SharesInv'
<1> DEFINE Basic == LockTypeOK /\ DeadInv /\ SharesInv
<1> SUFFICES Basic'
  BY Zenon
<1> USE LockConstants DEF Basic, LockTypeOK, DeadInv, SharesInv, MoveTo, FileStates,
       PCs, MidTurn, Runs
<1>1. ASSUME NEW f \in Flows, Acquire(f) PROVE Basic'
  BY <1>1 DEF Acquire
<1>2. ASSUME NEW f \in Flows, Create(f) PROVE Basic'
  BY <1>2, Zenon DEF Create, Created
<1>3. ASSUME NEW f \in Flows, CreateExists(f) PROVE Basic'
  BY <1>3, Zenon DEF CreateExists
<1>4. ASSUME NEW f \in Flows, WriteRecord(f) PROVE Basic'
  BY <1>4 DEF WriteRecord, Record
<1>5. ASSUME NEW f \in Flows, ReadGone(f) PROVE Basic'
  BY <1>5, Zenon DEF ReadGone
<1>6. ASSUME NEW f \in Flows, ReadInFlight(f) PROVE Basic'
  BY <1>6, Zenon DEF ReadInFlight
<1>7. ASSUME NEW f \in Flows, ReadStale(f) PROVE Basic'
  BY <1>7, Zenon DEF ReadStale
<1>8. ASSUME NEW f \in Flows, UnlinkStale(f) PROVE Basic'
  BY <1>8, Zenon DEF UnlinkStale, Absent
<1>9. ASSUME NEW f \in Flows, ReadLive(f) PROVE Basic'
  BY <1>9 DEF ReadLive
<1>10. ASSUME NEW f \in Flows, Poll(f) PROVE Basic'
  BY <1>10, Zenon DEF Poll
<1>11. ASSUME NEW f \in Flows, Join(f) PROVE Basic'
  BY <1>11 DEF Join
<1>12. ASSUME NEW f \in Flows, ReleaseShare(f) PROVE Basic'
  BY <1>12 DEF ReleaseShare
<1>13. ASSUME NEW f \in Flows, RemoveOwn(f) PROVE Basic'
  BY <1>13, Zenon DEF RemoveOwn, Absent
<1>14. ASSUME NEW f \in Flows, ClearDecide(f) PROVE Basic'
  BY <1>14 DEF ClearDecide
<1>15. ASSUME NEW f \in Flows, ClearUnlink(f) PROVE Basic'
  BY <1>15, Zenon DEF ClearUnlink, Absent
<1>16. ASSUME NEW p \in Procs, ProcessDies(p) PROVE Basic'
  BY <1>16 DEF ProcessDies
<1>17. CASE Age
  BY <1>17, Zenon DEF Age
<1>18. CASE UNCHANGED lockVars
  BY <1>18, Zenon DEF lockVars
<1> QED
  BY <1>1, <1>2, <1>3, <1>4, <1>5, <1>6, <1>7, <1>8, <1>9, <1>10, <1>11, <1>12, <1>13, <1>14, <1>15, <1>16, <1>17, <1>18,
     Zenon DEF LockNext, FlowStep, Attempt

-----------------------------------------------------------------------------
Owning(f) == where[f] \in {"write", "holding", "remove"}

\* What the file of an owner looks like to everybody else.
LEMMA FileOfOwner ==
    ASSUME OwnerInv, NEW f \in Flows, Owning(f)
    PROVE  /\ file.by = f /\ file.kind \in {"empty", "record"} /\ ~file.old
           /\ where[f] = "write" <=> file.kind = "empty"
BY DEF OwnerInv, Owning, Created, Record

\* A step that does not race keeps the file its owner's.
LEMMA LockOwnerStep ==
    ASSUME LockTypeOK, DeadInv, OwnerInv, [LockNext]_lockVars, ~raced'
    PROVE  OwnerInv'
<1> USE LockConstants DEF LockTypeOK, FileStates, MoveTo, OwnerInv, Created,
       Record, Absent
<1>1. ASSUME NEW f \in Flows, Acquire(f) PROVE OwnerInv'
  BY <1>1, Zenon DEF Acquire
<1>2. ASSUME NEW f \in Flows, Create(f) PROVE OwnerInv'
  <2>1. \A g \in Flows : ~Owning(g)
    BY <1>2, FileOfOwner, Zenon DEF Create
  <2>2. \A g \in Flows \ {f} : ~Owning(g)'
    BY <1>2, <2>1, Zenon DEF Create, Owning
  <2> QED
    BY <1>2, <2>2, Zenon DEF Create, Owning
<1>3. ASSUME NEW f \in Flows, CreateExists(f) PROVE OwnerInv'
  BY <1>3, Zenon DEF CreateExists
<1>4. ASSUME NEW f \in Flows, WriteRecord(f) PROVE OwnerInv'
  <2>1. file.by = f
    BY <1>4, FileOfOwner, Zenon DEF WriteRecord, Owning
  <2>2. \A g \in Flows \ {f} : ~Owning(g)
    BY <2>1, FileOfOwner, Zenon
  <2>3. \A g \in Flows \ {f} : ~Owning(g)'
    BY <1>4, <2>2, Zenon DEF WriteRecord, Owning
  <2> QED
    BY <1>4, <2>1, <2>3, Zenon DEF WriteRecord, Owning
<1>5. ASSUME NEW f \in Flows, ReadGone(f) PROVE OwnerInv'
  BY <1>5, Zenon DEF ReadGone
<1>6. ASSUME NEW f \in Flows, ReadInFlight(f) PROVE OwnerInv'
  BY <1>6, Zenon DEF ReadInFlight
<1>7. ASSUME NEW f \in Flows, ReadStale(f) PROVE OwnerInv'
  BY <1>7, Zenon DEF ReadStale
<1>8. ASSUME NEW f \in Flows, UnlinkStale(f) PROVE OwnerInv'
  <2>1. file.kind = "absent" \/ Stale(f)
    BY <1>8, Zenon DEF UnlinkStale
  <2>2. \A g \in Flows : ~Owning(g)
    BY <2>1, FileOfOwner, Zenon DEF Stale, SeenDead, DeadInv, Owning
  <2> QED
    BY <1>8, <2>2, Zenon DEF UnlinkStale, Owning
<1>9. ASSUME NEW f \in Flows, ReadLive(f) PROVE OwnerInv'
  BY <1>9, ZenonT(60) DEF ReadLive
<1>10. ASSUME NEW f \in Flows, Poll(f) PROVE OwnerInv'
  BY <1>10, Zenon DEF Poll
<1>11. ASSUME NEW f \in Flows, Join(f) PROVE OwnerInv'
  BY <1>11, Zenon DEF Join
<1>12. ASSUME NEW f \in Flows, ReleaseShare(f) PROVE OwnerInv'
  BY <1>12, Zenon DEF ReleaseShare
<1>13. ASSUME NEW f \in Flows, RemoveOwn(f) PROVE OwnerInv'
  BY <1>13 DEF RemoveOwn
<1>14. ASSUME NEW f \in Flows, ClearDecide(f) PROVE OwnerInv'
  BY <1>14, Zenon DEF ClearDecide
<1>15. ASSUME NEW f \in Flows, ClearUnlink(f) PROVE OwnerInv'
  <2>1. file.by = NoFlow \/ ProcOf[file.by] \notin alive
    BY <1>15, Zenon DEF ClearUnlink
  <2>2. \A g \in Flows : ~Owning(g)
    BY <2>1, FileOfOwner, ZenonT(60) DEF DeadInv, Owning
  <2> QED
    BY <1>15, <2>2, Zenon DEF ClearUnlink, Owning
<1>16. ASSUME NEW p \in Procs, ProcessDies(p) PROVE OwnerInv'
  BY <1>16, Zenon DEF ProcessDies
<1>17. CASE Age
  BY <1>17 DEF Age, DeadInv
<1>18. CASE UNCHANGED lockVars
  BY <1>18, Zenon DEF lockVars
<1> QED
  BY <1>1, <1>2, <1>3, <1>4, <1>5, <1>6, <1>7, <1>8, <1>9, <1>10, <1>11, <1>12, <1>13, <1>14, <1>15, <1>16, <1>17, <1>18,
     ZenonT(60) DEF LockNext, FlowStep, Attempt

\* A race stays recorded.
LEMMA LockRacedStays == ASSUME LockTypeOK, [LockNext]_lockVars, raced PROVE raced'
BY ZenonT(60) DEF LockTypeOK, LockNext, FlowStep, Attempt, lockVars, Acquire,
   Create, CreateExists, WriteRecord, ReadGone, ReadInFlight,
   ReadStale, UnlinkStale, ReadLive, Poll, Join, ReleaseShare,
   RemoveOwn, ClearDecide, ClearUnlink, ProcessDies, Age

\* The inductive invariant holds in every reachable state.
LEMMA LockInductive == LockSpec => []LockIInv
<1>1. LockInit => LockIInv
  <2> SUFFICES ASSUME LockInit PROVE LockIInv
    BY Zenon
  <2>1. LockTypeOK
    <3>1. Absent \in FileStates
      BY Zenon DEF Absent, FileStates
    <3>2. 0 \in 0..MaxPolls /\ 0 \in 0..MaxShares /\ 0 \in 0..MaxAcquires /\ 0 \in 0..MaxCrashes
      BY LockConstants
    <3>3. "idle" \in PCs
      BY Zenon DEF PCs
    <3> QED
      BY <3>1, <3>2, <3>3, Zenon DEF LockInit, LockTypeOK
  <2>2. DeadInv /\ SharesInv /\ OwnerInv
    BY Zenon DEF LockInit, DeadInv, SharesInv, OwnerInv, Procs
  <2> QED
    BY <2>1, <2>2, Zenon DEF LockIInv
<1>2. LockIInv /\ [LockNext]_lockVars => LockIInv'
  <2> SUFFICES ASSUME LockIInv, [LockNext]_lockVars PROVE LockIInv'
    BY Zenon
  <2>1. LockTypeOK' /\ DeadInv' /\ SharesInv'
    BY LockBasicStep, Zenon DEF LockIInv
  <2>2. CASE raced'
    BY <2>1, <2>2, Zenon DEF LockIInv
  <2>3. CASE ~raced'
    BY <2>1, <2>3, LockRacedStays, LockOwnerStep, Zenon DEF LockIInv
  <2> QED
    BY <2>2, <2>3, Zenon
<1> QED
  BY <1>1, <1>2, PTL DEF LockSpec

\* Type correctness of the workspace lock; the count of shares never goes below
\* zero because a release needs a holding, and a holding has a share.
THEOREM LockTypeCorrect == LockSpec => []LockTypeOK
<1>1. LockIInv => LockTypeOK
  BY Zenon DEF LockIInv
<1> QED
  BY <1>1, LockInductive, PTL

\* One flow at a time owns the workspace lock, whatever dies at whatever step,
\* unless an unlink of a recovery or a clear removed a lock taken since it judged.
THEOREM ExclusionUnlessRacedHolds == LockSpec => []ExclusionUnlessRaced
<1>1. LockIInv => ExclusionUnlessRaced
  BY DEF LockIInv, OwnerInv, ExclusionUnlessRaced, Exclusion, Created, Record
<1> QED
  BY <1>1, LockInductive, PTL

\* A holder's file stays its own until its last share is released, unless such
\* an unlink removed it: no nested acquisition fails with LOCK_LOST.
THEOREM NeverLostHolds == LockSpec => []NeverLost
<1>1. LockIInv => NeverLost
  BY Zenon DEF LockIInv, OwnerInv, NeverLost
<1> QED
  BY <1>1, LockInductive, PTL

=============================================================================

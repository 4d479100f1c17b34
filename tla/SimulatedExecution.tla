-------------------------- MODULE SimulatedExecution --------------------------
(***************************************************************************)
(* The simulated ledger of a workspace and the evidence of its             *)
(* transactions (packages/localnet/src/pending-execution.ts, store.ts;     *)
(* the unit of sdk/src/tx.ts that executes a plan).  Every command runs as *)
(* one unit under the `simulator-state' lock, so at most one is in         *)
(* progress; a crash may end it between any two of its file writes.        *)
(*                                                                         *)
(* A transaction's identity is its plan's.  Hashes are the values they are *)
(* taken of.  Clock reads are the number of the command that made them.    *)
(***************************************************************************)
EXTENDS Integers, FiniteSets

CONSTANTS
    Txs,          \* the planned transactions
    Coins,        \* the outputs of the initial state
    Inputs,       \* Inputs[tx]: the outputs tx spends
    MaxCommands,  \* bound on the number of commands
    MaxUpgrades   \* bound on changes of the installed version

NoState == [daa |-> -1, utxos |-> <<>>]
NoRecord == [tx |-> "none"]

ASSUME SimulationConstants ==
    /\ MaxCommands \in Nat
    /\ MaxUpgrades \in Nat
    /\ Inputs \in [Txs -> (SUBSET (Txs \cup Coins)) \ {{}}]
    /\ \A tx \in Txs : tx \notin {"none"} \cup Coins /\ tx \notin {"faucet"} \X Nat

VARIABLES
    ledger,     \* localnet.json without its record
    pending,    \* the pending execution record beside it
    store,      \* evidence files: path -> bytes
    material,   \* executed artifacts in the store
    version,    \* the installed evidence format
    legacy,     \* localnet-state.json: none, a file, or a file a process has read
    pc,         \* where the current command is
    cmd,        \* the current command
    target,     \* what it is about to commit: an execution or a state
    clock,      \* commands so far
    committed   \* history: the executions whose ledger write happened

vars == <<ledger, pending, store, material, version, legacy, pc, cmd, target, clock,
          committed>>

Genesis == [daa |-> 0, utxos |-> [c \in Coins |-> 0]]

\* What the old file holds: a workspace that was funded once.
LegacyState == [daa |-> 1, utxos |-> [c \in Coins \cup {<<"faucet", 1>>} |-> 0]]

\* Commands: execute a plan given as an artifact or by path, fund, reset, and
\* the save that ends a load of the old file.
Commands == [kind : {"execute", "executePath"}, tx : Txs]
               \cup [kind : {"fund", "reset", "migrate"}, tx : {"none"}]

MaxScore == MaxCommands + 1
Ids == Txs \cup Coins \cup ({"faucet"} \X (1..MaxScore))

\* An output is spent at a score the state has reached.
WellFormed(s) ==
    /\ s.daa \in 0..MaxScore
    /\ DOMAIN s.utxos \subseteq Ids
    /\ \A i \in DOMAIN s.utxos : s.utxos[i] \in 0..s.daa

Places == {"idle", "recover", "publishRecovered", "body", "snapshot", "write",
           "commit", "publish"}

\* The types; the ledger and both states of a pending record are well-formed
\* states, and no execution is of a later command than the current one.
TypeOK ==
    /\ ledger = NoState \/ WellFormed(ledger)
    /\ pending # NoRecord =>
         WellFormed(pending.pre) /\ WellFormed(pending.post)
    /\ \A p \in DOMAIN store : p[1] \in {"stateSnapshot", "receipt", "trace"}
    /\ material \subseteq Txs
    /\ version \in 0..MaxUpgrades
    /\ legacy \in {"none", "file", "read"}
    /\ pc \in Places
    /\ cmd \in Commands
    /\ clock \in 0..MaxCommands
    /\ \A e \in committed : e.tx \in Txs /\ e.clock \in 1..clock

Init ==
    /\ ledger = NoState
    /\ pending = NoRecord
    /\ store = <<>>
    /\ material = {}
    /\ version = 0
    /\ legacy \in {"none", "file"}
    /\ pc = "idle"
    /\ cmd = [kind |-> "reset", tx |-> "none"]
    /\ target = NoRecord
    /\ clock = 0
    /\ committed = {}

-----------------------------------------------------------------------------
\* applySimulatedPlan accepts tx when its inputs are there and unspent.
Valid(s, tx) ==
    \A i \in Inputs[tx] : i \in DOMAIN s.utxos /\ s.utxos[i] = 0

\* applySimulatedPlan: an output maps to the DAA score it was spent at, or 0.
Apply(s, tx) ==
    LET next == s.daa + 1 IN
    [daa |-> next,
     utxos |-> [i \in DOMAIN s.utxos \cup {tx} |->
                  IF i = tx THEN 0
                  ELSE IF i \in Inputs[tx] THEN next ELSE s.utxos[i]]]

\* Mutant: the outputs the transition spent stay spent.
Invert_KeepSpent(s, tx) ==
    [daa |-> s.daa - 1,
     utxos |-> [i \in DOMAIN s.utxos \ {tx} |-> s.utxos[i]]]

\* invertSimulatedTransition
Invert(s, tx) ==
    [daa |-> s.daa - 1,
     utxos |-> [i \in DOMAIN s.utxos \ {tx} |->
                  IF s.utxos[i] = s.daa THEN 0 ELSE s.utxos[i]]]

\* fundAddress
Fund(s) ==
    [daa |-> s.daa + 1,
     utxos |-> [i \in DOMAIN s.utxos \cup {<<"faucet", s.daa + 1>>} |->
                  IF i \in DOMAIN s.utxos THEN s.utxos[i] ELSE 0]]

\* buildSimulatedExecutionEvidence: three files, in the order of publication.
\* The snapshot is at its state's path, the receipt at its identity's and the
\* trace at the transaction's; the clock is outside those identities.
Paths(e) == << <<"stateSnapshot", e.post>>, <<"receipt", e.tx, e.pre>>,
               <<"trace", e.tx>> >>
Bytes(e) == << <<e.clock>>, <<e.clock>>, <<e.pre, e.clock>> >>

\* inspect
Missing(e, k) == Paths(e)[k] \notin DOMAIN store
Exact(e, k) == ~Missing(e, k) /\ store[Paths(e)[k]] = Bytes(e)[k]
Conflicts(e) == \E k \in 1..3 : ~Missing(e, k) /\ ~Exact(e, k)
Published(e) == \A k \in 1..3 : Exact(e, k)

Stored(path, bytes) ==
    [p \in DOMAIN store \cup {path} |-> IF p = path THEN bytes ELSE store[p]]

\* The execution a record describes (its post-state is the ledger beside it).
Execution(r) == [tx |-> r.tx, pre |-> r.pre, post |-> r.post, clock |-> r.clock]

Goto(place) == pc' = place

-----------------------------------------------------------------------------
\* loadLocalnetState, outside the lock: localnet.json is missing, and the state
\* of the old file is held to be saved.
LoadLegacy ==
    /\ ledger = NoState /\ legacy = "file"
    /\ legacy' = "read"
    /\ UNCHANGED <<ledger, pending, store, material, version, pc, cmd, target,
                   clock, committed>>

\* A command takes the simulator-state lock; a migration only saves what was
\* loaded.
Begin(c) ==
    /\ pc = "idle" /\ clock < MaxCommands
    /\ c.kind = "migrate" => legacy = "read"
    /\ cmd' = c
    /\ clock' = clock + 1
    /\ target' = NoRecord
    /\ Goto("recover")
    /\ legacy' = IF c.kind = "migrate" THEN "file" ELSE legacy
    /\ UNCHANGED <<ledger, pending, store, material, version, committed>>

\* recoverPendingExecution finds no record.
NothingPending ==
    /\ pc = "recover"
    /\ pending = NoRecord
    /\ Goto("body")
    /\ UNCHANGED <<ledger, pending, store, material, version, legacy, cmd, target,
                   clock, committed>>

\* The record can be settled: same format, untouched state, its material
\* there, the transition undone and recomputed to what was recorded.
Settleable(r) ==
    /\ r.format = version
    /\ ledger = r.post
    /\ r.tx \in material
    /\ Invert(ledger, r.tx) = r.pre
    /\ Valid(r.pre, r.tx) /\ Apply(r.pre, r.tx) = r.post

\* Fail closed: the command never runs and nothing is written.
RefuseRecovery ==
    /\ pc = "recover"
    /\ pending # NoRecord
    /\ ~Settleable(pending) \/ Conflicts(Execution(pending))
    /\ Goto("idle")
    /\ UNCHANGED <<ledger, pending, store, material, version, legacy, cmd, target,
                   clock, committed>>

StartRecovery ==
    /\ pc = "recover"
    /\ pending # NoRecord
    /\ Settleable(pending) /\ ~Conflicts(Execution(pending))
    /\ target' = Execution(pending)
    /\ Goto("publishRecovered")
    /\ UNCHANGED <<ledger, pending, store, material, version, legacy, cmd, clock,
                   committed>>

\* publishEvidence writes the next missing file; an exact one is kept.
Publish ==
    /\ pc \in {"publish", "publishRecovered"}
    /\ \E k \in 1..3 :
         /\ Missing(target, k)
         /\ \A j \in 1..(k-1) : ~Missing(target, j)
         /\ store' = Stored(Paths(target)[k], Bytes(target)[k])
    /\ UNCHANGED <<ledger, pending, material, version, legacy, pc, cmd, target, clock,
                   committed>>

\* All evidence published: the state is written again without the record.
Clear ==
    /\ pc \in {"publish", "publishRecovered"}
    /\ \A k \in 1..3 : ~Missing(target, k)
    /\ pending' = NoRecord
    /\ Goto(IF pc = "publish" THEN "idle" ELSE "body")
    /\ UNCHANGED <<ledger, store, material, version, legacy, cmd, target, clock,
                   committed>>

-----------------------------------------------------------------------------
\* Mutant: a funding is applied twice.
Due_FundTwice ==
    IF cmd.kind = "migrate" THEN {LegacyState}
    ELSE IF cmd.kind = "reset" THEN {Genesis}
    ELSE IF ledger = NoState THEN {IF legacy = "none" THEN Genesis ELSE LegacyState}
    ELSE IF cmd.kind = "fund" THEN {Fund(Fund(ledger))} ELSE {}

\* The state a save is about to write: the initial or the old state of a new
\* workspace (for any command), the funded state, a reset, or the old state
\* as it was loaded.
Due ==
    IF cmd.kind = "migrate" THEN {LegacyState}
    ELSE IF cmd.kind = "reset" THEN {Genesis}
    ELSE IF ledger = NoState THEN {IF legacy = "none" THEN Genesis ELSE LegacyState}
    ELSE IF cmd.kind = "fund" THEN {Fund(ledger)} ELSE {}

\* Mutant: a workspace is created without reading again under the lock.
StartSave_NotReread ==
    /\ pc = "body"
    /\ target' \in Due \cup (IF cmd.kind = "fund" THEN {Genesis} ELSE {})
    /\ Goto("snapshot")
    /\ UNCHANGED <<ledger, pending, store, material, version, legacy, cmd, clock,
                   committed>>

\* saveLocalnetState
StartSave ==
    /\ pc = "body"
    /\ target' \in Due
    /\ Goto("snapshot")
    /\ UNCHANGED <<ledger, pending, store, material, version, legacy, cmd, clock,
                   committed>>

\* publishStateSnapshot: written when absent; a snapshot of this state that is
\* already there is kept, its clock included.
SaveSnapshot ==
    /\ pc = "snapshot"
    /\ LET path == <<"stateSnapshot", target>> IN
       store' = IF path \in DOMAIN store THEN store ELSE Stored(path, <<clock>>)
    /\ Goto("write")
    /\ UNCHANGED <<ledger, pending, material, version, legacy, cmd, target, clock,
                   committed>>

\* writeLocalnetLedger; the creation of a workspace then returns to its command.
SaveLedger ==
    /\ pc = "write"
    /\ ledger' = target
    /\ pending' = NoRecord
    /\ Goto(IF ledger = NoState /\ cmd.kind \notin {"reset", "migrate"} THEN "body" ELSE "idle")
    /\ UNCHANGED <<store, material, version, legacy, cmd, target, clock, committed>>

\* simulateUnit answers with an existing receipt of the same executed artifact
\* (not when the plan is given by path), or the plan does not validate.
AnswerOrReject ==
    /\ pc = "body" /\ ledger # NoState
    /\ \/ /\ cmd.kind = "execute"
          /\ \E p \in DOMAIN store : p[1] = "receipt" /\ p[2] = cmd.tx
       \/ /\ cmd.kind \in {"execute", "executePath"}
          /\ ~Valid(ledger, cmd.tx)
    /\ Goto("idle")
    /\ UNCHANGED <<ledger, pending, store, material, version, legacy, cmd, target,
                   clock, committed>>

\* The transition is computed and persistExecutionMaterial stores the plan.
Prepare ==
    /\ pc = "body" /\ ledger # NoState
    /\ cmd.kind \in {"execute", "executePath"}
    /\ cmd.kind = "execute" =>
         \A p \in DOMAIN store : ~(p[1] = "receipt" /\ p[2] = cmd.tx)
    /\ Valid(ledger, cmd.tx)
    /\ material' = material \cup {cmd.tx}
    /\ target' = [tx |-> cmd.tx, pre |-> ledger, post |-> Apply(ledger, cmd.tx),
                  clock |-> clock]
    /\ Goto("commit")
    /\ UNCHANGED <<ledger, pending, store, version, legacy, cmd, clock, committed>>

\* An evidence path is already taken by other bytes: nothing is executed.
RefuseCommit ==
    /\ pc = "commit"
    /\ Conflicts(target)
    /\ Goto("idle")
    /\ UNCHANGED <<ledger, pending, store, material, version, legacy, cmd, target,
                   clock, committed>>

\* Post-state and record in one atomic write of localnet.json.
Commit ==
    /\ pc = "commit"
    /\ ~Conflicts(target)
    /\ ledger' = target.post
    /\ pending' = [tx |-> target.tx, pre |-> target.pre, post |-> target.post,
                   clock |-> target.clock, format |-> version]
    /\ committed' = committed \cup {target}
    /\ Goto("publish")
    /\ UNCHANGED <<store, material, version, legacy, cmd, target, clock>>

-----------------------------------------------------------------------------
\* The process dies; only the files remain.
Crash ==
    /\ pc # "idle"
    /\ Goto("idle")
    /\ UNCHANGED <<ledger, pending, store, material, version, legacy, cmd, target,
                   clock, committed>>

\* Another version of HardKAS is installed between two commands.
Upgrade ==
    /\ pc = "idle" /\ version < MaxUpgrades
    /\ version' = version + 1
    /\ UNCHANGED <<ledger, pending, store, material, legacy, pc, cmd, target, clock,
                   committed>>

Step ==
    \/ NothingPending \/ RefuseRecovery \/ StartRecovery \/ Publish \/ Clear
    \/ StartSave \/ SaveSnapshot \/ SaveLedger
    \/ AnswerOrReject \/ Prepare \/ RefuseCommit \/ Commit

Next == Step \/ Crash \/ Upgrade \/ LoadLegacy \/ \E c \in Commands : Begin(c)

Spec == Init /\ [][Next]_vars

-----------------------------------------------------------------------------
\* Once no record is pending, every execution that ever moved the ledger has
\* its three evidence files in the store, byte for byte those of its commit,
\* whatever crashed in between (recoverPendingExecution, publishEvidence).
EvidenceComplete ==
    \A e \in committed :
        Published(e) \/ (pending # NoRecord /\ Execution(pending) = e)

\* A simulated state without a pending record is durable only after its state
\* snapshot (writeLocalnetState; executions through their record).
SnapshotFirst ==
    ledger # NoState /\ pending = NoRecord
        => <<"stateSnapshot", ledger>> \in DOMAIN store

\* Evidence is write-once: no step changes or removes a published file.
WriteOnce ==
    [][\A p \in DOMAIN store : p \in DOMAIN store' /\ store'[p] = store[p]]_vars

\* SIMULATOR-EXECUTION-UNIT-1: a write of the ledger builds on the state it
\* replaces, so no output of an execution is dropped and nothing spent becomes
\* spendable.  Besides a reset, only a migration may replace a state it did not
\* see: loadLocalnetState reads the old file before it takes the lock.
BuildsOn ==
    [][\/ ledger = NoState \/ cmd.kind \in {"reset", "migrate"}
       \/ \A i \in DOMAIN ledger.utxos :
            /\ i \in DOMAIN ledger'.utxos
            /\ ledger.utxos[i] # 0 => ledger'.utxos[i] = ledger.utxos[i]]_ledger

\* Without a change of version a pending record is always one that recovery
\* can settle: no crash leaves the workspace refusing every command.
NeverStuck ==
    pending # NoRecord /\ pending.format = version
        => Settleable(pending) /\ ~Conflicts(Execution(pending))

Abstract == INSTANCE EvidencedLedger WITH
    Starts <- {Genesis, LegacyState},
    Funded <- Fund,
    state <- ledger,
    done <- committed,
    shown <- {e \in committed : Published(e)}

\* The workspace implements EvidencedLedger: each execution moves the ledger
\* once, from the state it was computed on, and none on top of an execution
\* whose evidence is still owed.
RefinesEvidencedLedger == Abstract!AbstractSpec

=============================================================================

# HardKAS: a TLA+ verification project

HardKAS is a local-first development framework for Kaspa: a set of TypeScript
packages that share one workspace directory (`.hardkas/`) and are run by many
short-lived processes at once (CLI commands, a dev server, a sync daemon, test
runners). There is no database server between them. What keeps them consistent
is a set of small protocols over the file system: lock files, append-only
logs, write-temp-and-rename, records that announce an operation before it
runs; and, inside one process, handlers that read state, await a node and write
state. This project models those protocols in TLA+, checks them with TLC on
small instances and proves the most important facts with TLAPS.

Contents: 1 parts and modules, 2 conventions, 3 the modules one by one,
4 the runs, 5 what is proved, 6 where the code and its comments disagree,
7 what is not modelled.

## 1. The system's parts

All paths are under `packages/`. Code between two `await`s of one Node process
is one uninterrupted turn; other processes act between any two of its
file-system calls. Locks, logs, journals and the artifact store are the only
things two processes share.

| Part | Source | Modules | Status |
|---|---|---|---|
| Append coordinator: lock and tail repair of every JSONL log | `core/src/append-coordinator.ts` | `AppendLock`, `AppendLedger`, `DurableLog` | modelled |
| Workspace locks: named, reentrant, recovered from the dead | `core/src/lock.ts` | `WorkspaceLock` | modelled |
| Simulated execution: ledger, pending record, evidence, recovery, legacy migration | `localnet/src/pending-execution.ts`, `store.ts`, `faucet.ts` | `SimulatedExecution`, `EvidencedLedger` | partly |
| Simulated DAG: blocks, sink, accepted and displaced transactions | `localnet/src/dag.ts` | `SimulatedDag` | partly |
| GHOSTDAG approximation | `simulator/src` | `Ghostdag` | partly |
| Send guard of the dev server | `dev-server/src/routes/send-guard.ts`, `dapp-tx.ts` | `SendGuard` | partly |
| Escrow routes and their journal | `dev-server/src/routes/escrow.ts`, `store/atomic-journal.ts` | `Escrow` | partly |
| Transaction send: locks, recorded submission, rivals, broadcast | `sdk/src/tx.ts`, `accounts/src/v1-send.ts`, `artifacts/src/tx-status.ts` | `TxSend` | partly |
| Transaction observation and status | `sdk/src/tx-observer.ts`, `sdk/src/tx.ts`, `artifacts/src/tx-status.ts`, `operation-status.ts` | `TxObserver`, `TxStatus` | partly |
| RPC session of all Kaspa clients | `kaspa-rpc/src/upstream/session.ts`, `broadcast-identity.ts`, `errors.ts` | `RpcSession` | partly |
| L2 nonce manager | `l2/src/nonce-manager.ts`, `tx-pipeline.ts` | `NonceManager` | partly |
| Managed native processes | `node-orchestrator/src/managed-process.ts`, `windows-terminate.ts`, `process-identity.ts` | `ManagedProcess` | modelled |
| Job runner | `jobs/src` | `JobRunner` | modelled |
| Sync daemon | `sync-daemon/src/daemon.ts` | `SyncDaemon` (extends `JobRunner`) | modelled |

`XProofs` holds the theorems about `X` (those about `WorkspaceLock` are in
`SimulatedExecutionProofs`, those about `NonceManager` in `SyncDaemonProofs`;
these two modules prefix their specifications, `LockSpec` and `NonceSpec`, so
that one module of proofs can extend both); `MCX` gives the constants of `X`
their values for TLC. "Partly" is explained per part in section 7 and in
`PROJECT.json`, which also lists the parts that are not modelled.

How they interact. Commands take workspace locks in the order of `LOCK_ORDER`
(`core/src/lock.ts`). A simulated execution runs under `simulator-state` and
writes the store under `artifacts`. A send takes the lock of its transaction,
then those of the covenants it spends, then the store's; it submits through an
RPC session. The dev server's send guard has a lock and a log of its own and
calls the same send; the escrow routes have a journal of their own. What became
of a transaction is never stored as a state: it is derived from the recorded
submission and the sealed observations. The sync daemon polls a node and, for
every new score, resumes the jobs of the job runner. Events, telemetry and job
logs go through the append coordinator.

Composition. `AppendLedger` extends `AppendLock` and `SyncDaemon` extends
`JobRunner`: lock and log, daemon and jobs are checked together. `SimulatedDag`
extends `Ghostdag`, `TxObserver` extends `TxStatus`: a state machine over pure
operators. `TxSend` and `SimulatedExecution` take a workspace lock as one atomic
step; `WorkspaceLock` shows when that is right. `TxSend` takes the result of a
submission as one of three outcomes; `RpcSession` shows that the session reports
them truthfully.

## 2. Conventions

- A module is one component: its state, one action per step between two
  file-system calls (or two awaits, where no other process sees the
  difference), `Next`, `Spec`, and `FairSpec` where something is to happen.
- Bytes are abstracted to what the code compares; hashes to what they are
  taken of; clocks to the comparisons made with them.
- A process that dies is never resurrected; a restart is another process, or
  the same with its memory gone (`SyncDaemon`, `Escrow`). PIDs are reused only
  in `ManagedProcess`, which is about that.
- Local variables are reset where they go out of scope, so that states that
  differ only in what nobody will read are one state.
- Every bound is a constant named `Max...`.
- Definitions headed "Mutant:" are the mutated form of the definition that
  follows. Replacing the one by the other makes TLC refute the property
  `PROJECT.json` names: evidence that the property depends on that code.
- Where the code loses a guarantee in a known situation, a history variable
  (marked "ghost") records the situation and the property says that this is the
  only way: `raced` (an unlink or rm hit a lock other than the one judged; in
  `Escrow`, two fundings or two releases at once), `crossed`, `lost`,
  `unflushed`, `overlap` (`Escrow`), `lost` (`AppendLedger`), `usurped`
  (`SendGuard`), `forgot` (`NonceManager`), `unrecorded` (`TxSend`), `orphans`,
  `misread` (`ManagedProcess`), `doubled`, `torn`, `stranded` (`JobRunner`,
  `SyncDaemon`), `recoloured` (`SimulatedDag`). Such a property does not catch
  the situation, it delimits it: the hazard in `PROJECT.json` says that the code
  is exposed. Dropping the ghost from the property makes TLC print the
  behaviour; section 6 lists those that contradict a comment.

## 3. The modules

### 3.1 `AppendLock`, `AppendLedger`, `DurableLog`

`AppendCoordinator.appendAtomic` takes `append-<log>.lock` with `open("wx")`,
writes its record into it, repairs a torn tail, appends, fsyncs and unlinks the
lock. A process that finds the lock judges it (`judgeAppendLock`, here
`Verdict`): gone, live, unverifiable or abandoned. An abandoned lock is removed
under a second lock file, the recovery lock, after its bytes have been compared
with those that were judged.

State: `alive`, the place `pc` of each process in the handler, the two lock
files (`file`), the bytes a process judged (`seen`), the polls `waited`. The
environment crashes processes, lets a file age past its grace, and clears locks
by hand as the error messages prescribe. `CreationCrash` and `CanStall` say
whether a process may die, or sleep past the grace, between creating a lock
file and writing its record.

`AppendLedger` adds the log under the lock: a log is its physical lines, a line
the fragments written since the last newline. A write may be torn by a crash,
cut short by `writeSync` without an error (`ShortWrites`), or whole with an
`fsync` that throws. Readers (`query-store/src/indexer.ts:707`, `query`'s
`backend-fs.ts:82`) parse every line, the last one also without its newline, so
`Readable` is every line that parses. `DurableLog` is what a caller relies on: a
log that grows by one entry at a time, holds every entry whose append returned,
and loses at most a last entry whose append did not. `RefinesDurableLog` shows
`AppendLedger` implements it, the repair of torn tails being invisible. `lost`
are the acknowledged entries it cannot promise: their write was short, or
continued a line that lacked nothing but its newline.

### 3.2 `WorkspaceLock`

`acquireLock`, the shares of a reentrant holding, their release, the recovery of
a lock whose process is dead, and `clearLock`. A flow is one asynchronous call
chain; flows of one process never interleave inside a turn (`Runs`). The lock
file is absent, empty (created, not yet written) or the record of a flow.
`raced` remembers that an unlink removed a lock other than the stale one it was
decided for; the code does not compare again before it unlinks.

### 3.3 `SimulatedExecution`, `EvidencedLedger`

The ledger `localnet.json` with the pending-execution record beside it, the
evidence files (state snapshots, receipts, traces) and the commands that move
them: execute a plan, fund, reset, migrate. A command runs as one unit under
`simulator-state`; a crash ends it between any two writes; the next command
first settles the record (`recoverPendingExecution`): it recomputes the
execution and publishes the missing evidence, or refuses and writes nothing. `EvidencedLedger` is the
promise: an execution moves the state once, and nothing moves it again before
its evidence is complete. `Invert` computes the state before a
transition as the code does, from the DAA score at which outputs were spent. `LoadLegacy` is the part of
`loadLocalnetState` before the lock: it finds no ledger and reads the legacy
file; the command that saves what was read comes later.

### 3.4 `SendGuard`

The guard of `POST /api/tx/send`: a lock file, a hash-chained log and what each
server keeps of it in memory. A hash is the position it stands for, so a log
verifies when each event carries its predecessor's position. Servers crash,
restart, lose and regain the lock; operators archive a stale lock in two steps
(read, rename); writes fail or leave a torn line.

### 3.5 `TxSend`

`send` of `sdk/src/tx.ts` from the transaction's lock on: the look-up of a
recorded submission, the covenant locks one by one (`withLocks`; covenant locks
are not in `LOCK_ORDER`, so the order is the one `send` gives), the examination
of pending rival transitions one observation at a time, the preflight, the
submit call, the record under the store's lock, the release. The node is
external: a submit call may go unanswered and reach it later; it accepts one of
two conflicting transactions. Covenants and outpoints are numbers so that the
sorting in the code can be stated. `unrecorded` counts the broadcasts whose
record was never written.

### 3.6 `NonceManager`

`EvmNonceManager` as `prepareEvmTransaction` uses it. The lock of an account is
a chain of promises, here a queue per state object; `reset` drops the object and
callers already queued keep it. A broadcast is accepted, uncertain, or refused
(`SendRefused`: `sendRawTransactionResilient` throws and gives the nonce back to
nobody); the signed bytes may be sent again. The node is external: its pending
count stops at the first nonce it does not have.

### 3.7 `ManagedProcess`

Start and stop of a native process by several commands: the `mkdir` lock, the
process record, identities compared by creation instant, POSIX signals or the
Windows process handle, and the operating system's table of processes with
reused PIDs. A reading of an identity may fail, and a file operation may throw
(`Throws`: `finally` still removes the lock, but nothing kills a child that was
spawned and not yet recorded). A lock may be left behind by a command of the past
(`LeftBehind`), so that two commands can find it at once.

### 3.8 `TxStatus`, `TxObserver`

`TxStatus` is `deriveTxStatus`: the looks of each observer are put in the order
of their points and folded into one claim (`ObserverHistory`), and the claims of
all observers are combined without any order between observers. The code's loop
over a sorted history appears as sets defined by that order (`Standing`,
`Removals`, `Finals`). The covenant and ZK states of `operation-status.ts` are
functions of the result.

`TxObserver` is `observe` and `observeTxOnce`, every RPC call a step: the point,
the previous accepting block, the mempool, the chain from the cursor in at most
`maxBatches` answers, the header of the accepting block, the seal. A look that
reaches this bound ends undecided (`scanComplete: false`) and the next one goes on
from the last block it read. The node is external: blocks form a
tree, a node moves to a heavier tip at any time and never gives up a block that
is `FinalityDepth` deep. A look records the truth at the moment it asked, so
that properties can compare what is claimed with what was so.

### 3.9 `Escrow`

`fund`, `prepare`, `sign`, `release` and `reconcile` of one escrow. A handler
takes the record object with `get`, awaits, changes the object and stores it
with `set`, which loads the journal, merges and replaces the file under a lock
file. Handlers of one process share the object in the Map, so a change is
visible to the others before it is stored; a newer journal, or a `set` of
another escrow, puts a fresh copy into the Map and they part (`heap`, `mem`).
Submissions may be lost, refused or arrive late; a server may crash anywhere and
a write of the journal may fail, which the code logs and ignores. A lock older
than ten seconds or waited for two hundred times is ignored (`overlap`).

### 3.10 `JobRunner`, `SyncDaemon`

`JobRunner` has the jobs of one process (several runs of one job may be live:
`resumePendingJobs` starts a run for every unfinished record it found before its
await), a handler that works through a batch and saves its cursor, the timer that
stores it, and `jobs.json`, rewritten in place. `SyncDaemon` adds the poll loop,
its checkpoint file, `start`, and `stop` with its single resolver. The process may
die in any step, and in the middle of a write of `jobs.json`; any write may fail,
with the file cut short or untouched.

### 3.11 `Ghostdag`, `SimulatedDag`

`Ghostdag` has the engine's pure functions: selected parent, mergeset by
breadth-first search, colouring with anticone sizes, blue score and work, over a
DAG as a function from blocks to records. Blocks are numbered by the order of
their hashes, so all insertion orders give all hash orders. `SimulatedDag` adds
blocks and moves the sink: the sort of the sink's past, the decision about every
transaction in it, and what that displaces. The properties compare the data with
reference definitions (`DataAsDefined`; `GreedyColouring`, which counts anticones
anew where the engine keeps sizes that no longer match their blocks) and say what
moving the sink accepts.

### 3.12 `RpcSession`

`OfficialRpcSession`, one thread, every await a step: calls share an opening and
a verification; the official client under the session drops and resumes by
itself, possibly on a node of another network; `close()` starts an epoch. A
submission reads the node's identity twice more right before it leaves.

External assumptions about the official client: its "disconnect" event is
delivered with the drop and before it resumes; a resumption needs a network
round trip, so the continuation of an answer already received runs first;
pending questions and requests fail when the connection drops; `disconnect()`
returns. The session has an expected network other than mainnet.

## 4. The runs

Run one with `tlc -config <cfg> <module>`; `PROJECT.json` lists the module, the
configuration and the properties of each. The property comments in the modules
state each property in full. What a theorem of section 5 states is left to the
proof where another property of the run exercises the same code.

| Run | Instance | States | Shows |
|---|---|---|---|
| `append_ledger` | 3 processes on 2 hosts, 1 append each, 2 crashes, torn and short writes | 239 k | recovery unlinks only what was abandoned; the log refines `DurableLog`; every append ends |
| `workspace_lock` | 4 flows in 3 processes on 2 hosts, 2 shares, 2 crashes, 1 operator | 110 k | one owner unless an unlink raced, every acquisition ends |
| `simulated_execution` | 3 transactions (a chain of two and a conflicting one), 5 commands, a legacy file or none, 1 upgrade | 1.2 M | recovery never stuck, writes build on what they replace; refines `EvidencedLedger` |
| `simulated_dag` | every DAG of up to 4 blocks, k of 0 and 1, 2 blocks with conflicting payloads; of up to 5, k of 2 and 3, without | 216 k | GHOSTDAG data against reference definitions, colouring is greedy, nothing acceptable is refused, verdicts stand |
| `send_guard` | 2 server lives, 2 keys, 1 payment, 3 sends (2 with a fault or two operators at work), 1 fault, 2 operators | 669 k | one owner, a key broadcasts once, the hash chain never forks, no blind repeat |
| `escrow` | 2 overlapping requests in one server or two, 2 coins, 2 branches, 1 fault | 1.0 M | what was sent is on record, ready means signed, released is final, other escrows are kept |
| `tx_send` | 2 flows, 2 transitions of 2 covenants sharing an outpoint, 2 sends, 1 crash, 1 fault | 179 k | one broadcast per transaction, no silent rivals, every send ends |
| `tx_observer` | 2 flows with one observer or one each, 3 blocks, 1 or 2 batches a look, 3 looks, 1 failed call | 1.2 M | depths never overstated, no acceptance skipped, quiet looks decide, final operations stay final |
| `rpc_session` | a request, a submission, 2 `close()`, 2 clients, 2 drops each | 283 k | only nodes of the expected network are asked, outcomes are true, `close()` releases all, every call ends |
| `nonce_manager` | 3 callers, 1 reset, 1 external transaction | 116 k | unique nonces, no assignment over a hole but a refused transaction's, every acquisition ends |
| `managed_process` | 2 commands of 2 operations, 1 PID, 2 processes born, both platforms | 414 k | only own processes signalled (Windows), nothing lost from the record but in three named ways, every operation ends |
| `sync_daemon` | 1 job with 2 live runs, 1 item, 1 fault, 2 callers of `stop`, 2 scores | 519 k | records advance, jobs are resumed, `stop` returns |

**Why the bounds are enough to be interesting.** A race over a lock needs a
holder that dies, and two processes that find what it left; three processes are
the least that add a bystander. A second host makes the "cannot tell whether it
lives" verdict reachable, a second flow in one process the reentrant paths. Two
crashes let a recoverer die in its recovery. One PID is the hardest case for
identities: every new process reuses it. Two covenants taken from outpoints in
the opposite order are what a wrong lock order needs to deadlock. The chain of
two simulated transactions makes undoing one that another builds on reachable.
Four blocks are the least for a merge of two branches of different length with a
later block on top, where colours change after the sink moved; five blocks and a
k of at least 2 are the least for a mergeset in which the engine reads a size that
belongs to another block. Three blocks and three looks let an acceptance be seen,
lost and found again, at a finality depth of two, and one or two batches a look
leave it out of a look's reach. One item is enough for a checkpoint to go back;
the theorem covers any number. Two overlapping requests are what the escrow's lost updates need; the
other escrow in the same journal is reduced to a version number. Two drops per
client let a verification be overtaken twice; `rpc_session` was also checked
with three calls (two closes and one drop, 2.2 M states; one close and two
drops, 0.7 M), too long for a regular run. Constraints named in the
configurations (`OneTrouble`, `OneLookEach`, `Requests`) keep the product of two
kinds of trouble out of a run; each kind is explored by itself. Symmetry is used
only in runs without liveness properties. Counters that the program does not
bound (`MaxSends`, `MaxCrashes`, `MaxFaults`, `MaxCommands`, ...) only limit how
often the environment acts.

**Deadlock** checking is off in every configuration, because a bounded number of
operations comes to an end in each. That nothing is left waiting is stated as a
liveness property instead (`AppendTerminates`, `AcquireEnds`, `OperationEnds`,
`SendsEnd`, `StopEnds`, `JobsResumed`, `AllEnd`) where fairness is assumed.

**Fairness.** Always weak, always of the program's own next step, never of a
crash, a fault, an operator or an outcome:

- `AppendLedger`, `ManagedProcess`, `TxSend`: a live process takes its next
  step. The code polls with timers, and nothing in it blocks without a timer or
  a call that returns. In `TxSend` an unanswered submit is a step too: RPC calls
  time out.
- `WorkspaceLock`: the same for each flow, which includes that a holder
  releases (its callback returns), and `WF(Age)`: time passes, so an unfinished
  lock file grows older than its grace.
- `NonceManager`: the event loop runs a caller whose turn it is, and a pending
  RPC call is answered *or* fails; which one is left open. Nothing forces a
  caller to send the transaction it prepared.
- `SyncDaemon`: the poll loop goes on (its calls return or time out) and the
  continuation of `stop` runs. Jobs, `start` and restarts are not fair.
- `RpcSession`: the event loop runs what is ready and time-outs fire; no answer
  of a node is fair.

Weak fairness suffices because waiting is bounded: by a number of polls, or by
the number of operations of the instance. In `TxSend` a wait that times out is a
fault, which need not happen, so `SendsEnd` does not rest on time-outs; with
unboundedly many rivals the code promises no order among waiters.
`SendGuard`, `Escrow`, `TxObserver`, `SimulatedExecution` and `SimulatedDag` have
safety properties only: what happens there next is up to a caller.

## 5. What is proved

Eight modules hold theorems. Each theorem holds for every value of the constants
that satisfies the named assumptions of its module; TLC evaluates those on every
run. No safety property below is inductive as it stands. For each, the module
defines an inductive invariant `IInv` and proves `Init => IInv`,
`IInv /\ [Next]_vars => IInv'` (one step per action) and that `IInv` implies the
property; action properties and the refinement follow from `IInv` and the step.

### 5.1 `AppendLedgerProofs`

The lock: `TypeCorrect`, `MutualExclusionHolds`, `UnlinkIsSafeHolds`,
`NoLeakHolds`, `NeverTakenOverHolds`, for any processes, hosts, crashes and
waits. `TypeCorrect` needs only `ConstantsAssumption`. The others also assume
`Timely`: no process dies or stalls past the grace between creating a lock file
and writing its record. Section 6 shows this cannot be dropped for
`UnlinkIsSafe`.

Mutual exclusion is not inductive: a state where a process is about to unlink
the lock of a live one satisfies it and breaks it in two steps. The inductive
invariant is `IInv == TypeOK /\ Protocol`, five facts about who may be where:

- `OwnerInv`: a process that stamps or holds is named by the append lock;
- `LockInv`: an empty lock is young and its creator is about to stamp it; a
  record names a dead process or one that is holding;
- `SeenInv`: bytes judged abandoned are a dead process's record or a legacy file;
- `RecoveryInv`: the recovery lock names the one process inside the recovery;
- `UnlinkInv`: from the comparison to the unlink the append lock stays what was
  compared.

`UnlinkInv` is the heart: a new holder can only appear after the lock has gone,
only the recoverer or an operator removes an abandoned one, and after it has
gone the comparison fails. Records of dead processes are never written again,
so equal bytes mean an abandoned lock.

The log: `LedgerTypeCorrect`, `AckedDurableHolds` and `RefinesDurableLogHolds`
(`AppendLedger` implements `DurableLog`, for any number of appends, whatever part
of a line a crash, an error or a short `writeSync` leaves), from `Timely`.
`LedgerInv` says, on top of `IInv`: every line but the last is
finished (`TailInv`); what the holder found at the tail is still so
(`HolderInv`, by mutual exclusion); an entry in the log or acknowledged belongs
to an append that is over (`OverInv`), so no entry is written twice; an
acknowledged entry that is not in `lost` has a finished line of its own
(`KeptInv`). A reader sees the lines that parse, which `TailInv` makes a prefix
that ends before or with the last line, so a write extends what is readable by one
entry, leaves it, or takes out the last entry, which by `KeptInv` was not promised;
a truncation removes nothing readable.

### 5.2 `TxSendProofs`

`TypeCorrect`, `OncePerTxHolds`, `NoSilentRivalsHolds` and `NoWaitCycleHolds`,
for any flows, transactions, covenants, sends, crashes and faults, from
`SendAssumption` alone.
`IInv == TypeOK /\ LockInv /\ OrderInv /\ CountInv /\ RivalInv`:

- `LockInv`: a live flow holds the lock of its transaction from the look-up to
  the release, and holds covenant and store locks only where the code does;
- `OrderInv`: the covenants a flow holds come before all it still has to take;
- `CountInv`: a broadcast beyond those whose record was lost is recorded, or its
  flow is about to record it; past the look-up a flow's transaction has no
  record;
- `RivalInv`: from the listing of rivals to its own record a flow holds all of
  its covenants, and every rival that is on record and still open is among those
  it has yet to examine or found pending, then among those it names.

`NoSilentRivals` rests on `RivalInv`: two rivals share a covenant, so while one
flow holds it no rival of its transaction gets a record, and what was on record
when it listed is examined before it sends.

`OncePerTx` follows because the lock of a transaction makes look-up, broadcast
and record one unit for live flows. For `NoWaitCycle` (lemma `NoCircle`) suppose
a set of flows in which each waits for another. None waits for the store, whose
holder only writes. Whoever is waited for holds a lock, so it is itself waiting
for a covenant. Take the flow that waits for the greatest covenant: the holder
of that covenant waits, by `OrderInv`, for a greater one, a contradiction. That
a non-empty set of covenants has a greatest element is `GreatestCovenant`, from
`LeastNat` and the library's well-foundedness theorems.

### 5.3 The workspace lock, in `SimulatedExecutionProofs`

Every simulated command runs under such a lock, so its theorems stand beside
those of the commands: `LockTypeCorrect`, `ExclusionUnlessRacedHolds`,
`NeverLostHolds`, from `LockConstants`. `LockIInv == LockTypeOK /\ DeadInv /\
SharesInv /\ (raced \/ OwnerInv)`: the flows of dead processes, and no others,
are dead, a holding has a share, and as long as no unlink raced, the file is the owner's own in every step of its tenure, from
its creation to its removal. Under `~raced` two owners would both be the one the
file names.

### 5.4 Nonces, in `SyncDaemonProofs`

`UniqueNoncesHolds` and `NoHoleHolds`, about `NonceManager` (the other counter a
process keeps in step with a node), from `NonceAssumption`. For the first,
`NonceInv == NonceTypes /\ ChainInv /\ (forgot \/ (CounterInv /\ Distinct))`.
`ChainInv`: only the head of a state object's lock chain is between asking the
node and assigning. `CounterInv`: while no counter was dropped there
is one state object, a caller that found it unsynced finds it unsynced still,
and the counter is above every reserved nonce. The nonce assigned next is then
new. `NoHole`, an action property, needs `HoleInv`: what the node answered it
still has, and before a reset every nonce below the counter is known to the node,
reserved, or carried by a refused transaction. A release lowers the counter to the nonce it gives up or drops the
counter, so it opens no hole below it.

### 5.5 `ManagedProcessProofs`

`TypeCorrect`, `SerialisedHolds`, `OnlyOwnHolds`, `StoppedIsGoneHolds`,
`TrackedHolds`, from
`ProcessAssumption` (there is a PID). `IInv == Types /\ LockInv /\ ChildInv /\
PlaceInv /\ StopInv /\ OnlyOwn`. `LockInv`: unless raced, the lock is that of the
live command inside it. `ChildInv`: the child a command has spawned is one of
ours. `PlaceInv`: a process that a record names runs under the PID of the record
(creation instants are never reused, PIDs are). `StopInv`: a stop that reports
`stopped` leaves no process with the recorded instant, on Windows or when every
identity could be read.

`Tracked` needs `TrackInv` on top: the live command inside the lock works on the
very record that is in the file, or has found that there is none (so a new
record replaces nothing), and it is about to remove the record only when the
recorded instance has gone or is in `misread`. By `LockInv` no other live command touches the file
meanwhile; by `PlaceInv` a PID that names something else, or nothing, says that
the instance has gone, and instances do not come back.

### 5.6 `SyncDaemonProofs`

`TypeCorrect`, `CheckpointCoveredHolds`, `SavedWasResumedHolds`,
`RecordAdvancesHolds`, `NotRedoneHolds`, from `JobRunnerAssumption` and
`SyncDaemonAssumption`. `IInv` has a part for the jobs (`JobInv`) and one for the
loop (`LoopInv`). `Work`: every cursor and checkpoint names only items that were
done. `Own`: a job that is not doubled has at most one live run, whose cursor
is what the file holds or ahead of it. `Awaiting`: of the jobs found before the
await of `resumePendingJobs`, those without a live run at that moment have none
when it starts theirs, and their records are still unfinished. `Scores`: a score is resumed before it is
processed and processed before it is saved.

### 5.7 `SendGuardProofs`

`TypeCorrect`, `OneOwnerHolds`, `ChainUnbrokenHolds`, `KeyOnceHolds` and
`NoBlindRepeatHolds`, for any servers, keys, payments, sends, faults and
operators, from `GuardConstants`. `OneOwner` is inductive with the types: a
server becomes owner only when the lock names it or when there is none and it
creates it, and only an exit of the named server or a rename takes the lock
away. The others hold as long as no operator renamed the lock of a running
server: `IInv == TypeOK /\ OneOwner /\ (usurped \/ GuardInv)`, where `GuardInv`
says

- `WorkInv`, `IdleInv`: every running send is one of the owner's, and a server
  that is up and does not own the lock knows it;
- `MemInv`: the memory of an owner that is not `unavailable` says what the log
  and the sends say (its head, the next sequence number, the keys that were used,
  the unknown payments); `ChainInv`: without a failed write the log is a chain;
- `RecordInv`: of every send that was not given up the log says that it began,
  that it was not abandoned, and nothing better than `unknown` about its outcome
  unless it is known;
- `ApartInv`, `LoneInv`: two sends differ in sequence number and key; a running
  send is alone with its payment, and an unknown outcome of the same payment is
  one the caller was allowed to repeat.

The heart is that a memory is made from the log: when a server takes the lock it
reloads, and what `RecordInv` says of the log is then what `MemInv` says of the
memory (lemma by lemma for each field of `load`). What is admitted next is
checked against that memory, which gives `ApartInv` and `LoneInv`. The bound on
sequence numbers that `nextSeq` is above is by least counterexample (`Bounded`).

### 5.8 `SimulatedExecutionProofs`

`EvidenceCompleteHolds`, `SnapshotFirstHolds`, `WriteOnceHolds`,
`BuildsOnHolds`, `NeverStuckHolds`, and `RefinementHolds`: `SimulatedExecution` implements
`EvidencedLedger` for any transactions, commands and upgrades, from
`SimulationConstants`. `IInv` has, besides the properties:

- `RecordInv`: recovery comes first (no record while a command does its own
  work); a record stands beside the post-state it describes, and what is
  published is its execution;
- `TargetInv`: what the current command is about to write, and that it was
  computed from the present ledger unless it is a reset or a migration;
- `ClockInv`: no committed execution and no published trace is of the current
  command before it commits;
- `StateInv`: every executed transaction has a spent input in the ledger, so it
  cannot be valid again.

`ClockInv` and `StateInv` are what makes the evidence write-once: a path that is
already taken belongs to an earlier execution, and then the publication refuses.

`NeverStuck` adds `SettleInv`: the ledger is a state in which nothing was spent
after its score (`Sane`), and a pending record has its material, undoes,
recomputes and is contradicted by no file. That undoing is the inverse of
executing is the lemma `Undone`: the output of a valid transaction is new by
`StateInv`, and by `Sane` exactly its inputs carry the score it reached.

### 5.9 `RpcSessionProofs`

`TypeCorrect`, `OnlyExpectedHolds`, `OutcomeIsTrueHolds` and
`CloseReleasesAllHolds`, for any number of requests, submissions, `close()` calls,
clients and drops, from `SessionAssumption`. Every action is first shown to be one
of sixteen kinds of change to the session, the connections, the openings, the
verifications and the closes (lemma `StepKinds`: `Opens`, `Told`, `Drops`,
`Begins`, ...), so that each part of the invariant is argued about kinds and not
about handlers. `IInv` has, besides the types:

- `CallInv`: where a call is, what it has reached and how it ended agree;
- `OpenInv`: how far an opening is says what its client's connection is;
- `SessionInv`: a verdict in force is about a connection that is up and whose
  node serves the expected network; a verification that was told a network and
  saw no drop since was told that of its connection. So a verdict that a drop has
  overtaken is never used;
- `CloseInv`, `EpochInv`: the `close()` calls are ordered by their epochs and wait
  for one another in that order; an opening that is not over is the session's, or
  a `close()` of the next epoch waits for it, and one that is over has left its
  client released, unless it is the session's.

`OnlyExpected` and `OutcomeIsTrue` follow from `CallInv`, whose steps need
`SessionInv`: a call is handed a client only under a verdict in force.
`CloseReleasesAll` is part of `IInv` and rests on the last two.

### 5.10 `TxObserverProofs`

`NeverOverstatedHolds`, `CursorNeverSkipsHolds` and `FinalOperationStaysHolds`,
for any tree of blocks, observers, looks, failed calls and depth of finality,
from `ObserverAssumption`. `Inv == Types /\ OrderInv /\ TreeInv /\ LookInv /\
SealedInv` (`InvHolds`):

- `TreeInv`: every path starts at block 0 and every block on it has the path up
  to it as its own, so a block is on a chain exactly when it stands at its height
  (`OnIndex`); no chain accepts the transaction twice. `TreeStep` shows what
  growth and reorganisation keep: a block that is `FinalityDepth` below a sink
  the node has had stays on its chain, or stays off it;
- `OrderInv`: observations are numbered in the order they were sealed;
- `LookInv`: for a look in progress, the sink it read is not above the node's,
  where it starts and where its cursor stands hide no acceptance (`Clean`: every
  acceptance at or below was reported removed), the block it found is accepting
  and no deeper than it will say, and a final block is still on the chain;
- `SealedInv`: the same of every sealed observation, and the status is derived
  from the sealed observations.

`NeverOverstated` needs the look's part because the depth is measured from the
sink read first and compared with the truth when the header was served.
`CursorNeverSkips` is `Clean` of the verified cursor (`CursorClean`), which holds
because a scan advances by blocks it has read (`NextFacts`) and the acceptance a
look finds is either sealed, or reported removed before the cursor moves on.
`FinalOperationStays`, an action property, rests on one more fact: no observer's
history is incoherent (`NeverIncoherent`), since the final block of an observer
is on its node's chain for good while a block it reported as left at the same
sink or a later one is not. So a finalized observer stays finalized
(`FinalityStays`), and a final state changes only if another observer disagrees.
The greatest elements these arguments take (the latest observation, the last
common block) exist by well-foundedness (`Greatest`, `LatestIn`).

### 5.11 Only model-checked

- All liveness (the prover has no rule for fairness or ENABLED).
- `QuietLookDecides` of `TxObserver`: it speaks of the last step of a look during
  which nothing moved, and an invariant would have to carry what such a look has
  found so far through all of its steps, and what the derivation makes of it.
- `Escrow`: its objects are shared by reference between handlers and copied at
  loads, and an inductive invariant over that heap is not worked out.
- `SimulatedDag`: its properties are about what searches, sorts and folds compute
  over a DAG, which needs induction over data.
- What the recursive operators of `Ghostdag` compute for every input. The
  prover's induction theorems take an operator as parameter and cannot be used;
  the proofs that need induction argue by a least counterexample instead
  (`LeastNat`, `Least`), which works for a fact about one sequence or set.
- The types of `NonceManager` and `SimulatedExecution` with their numeric bounds
  (`MaxNonce`, `MaxScore`), which bound the model and not the code. Their proofs
  use the types without bounds.

## 6. Where the code and its comments disagree

Each behaviour below is excluded by name from a property that holds, so the
property also says that it is the only way. Change the property as described and
TLC prints the behaviour.

- **Append lock, an unfinished creation** (`core/src/append-coordinator.ts:190`:
  "no new holder can appear between its check and its unlink"). A process dies
  between creating the lock and writing its record, leaving an empty file. A
  recoverer judges it abandoned once it is old. If it is replaced by another
  process's lock, empty for the moment, the comparison of bytes finds no
  difference and a live lock is unlinked. Set `CreationCrash = TRUE`:
  `UnlinkIsSafe` fails. The window is short.
- **Append log, a cut newline** (line 510: "Valid JSON! No corruption."). A crash
  cuts an append exactly before its newline. The repair finds that the last line
  parses and leaves it, and the next append continues that line: the entry it
  acknowledges cannot be read. A write that `writeSync` cuts short is acknowledged
  too: its byte count (line 359) is not looked at. Drop `lost` from `AckedDurable`,
  with `ShortWrites` empty for the first.
- **Workspace lock, recovery** (`core/src/lock.ts:253`). Two processes read the
  record of a dead holder. One unlinks it and creates its own lock; the other
  then unlinks that one, without the second comparison `append-coordinator.ts`
  makes. Check `Exclusion` instead of `ExclusionUnlessRaced`.
- **Send guard, two recoverers** (`send-guard.ts:540`). Two operators recover the
  same stale lock and the second renames a fresh one. The server that lost it
  takes it again inside `signed()`, reloads the log and goes on without looking
  at what it loaded, so a payment with an unknown outcome is repeated. Drop
  `usurped` from `NoBlindRepeat`, or from `KeyOnce` (the same key then broadcasts
  twice), and give the run a third server life (with two sends, no fault and no
  constraint).
- **Simulated ledger, legacy migration** (`localnet/src/store.ts:219`: "a state
  another cooperative writer created meanwhile is kept, never replaced").
  `loadLocalnetState` finds no ledger and reads the legacy file before the lock
  is taken (lines 171 to 178); a ledger created and changed meanwhile is replaced
  by the migrated one. Remove `"migrate"` from `BuildsOn`. The evidence stays
  complete.
- **Escrow** (`dev-server/src/routes/escrow.ts:292`: "an escrow is funded once; a
  funding whose outcome is unknown is reconciled, never followed by another").
  The check (line 293) and the recorded intent (lines 380 to 389) are separated
  by awaits, so two overlapping requests both fund; a failing one then resets the
  status the other has just written (lines 408 to 412). A signature that comes
  after the release puts the state back to `READY_TO_RELEASE` (lines 612 and 651).
  Drop `raced` from `SentIsRecorded`, or the last line of `ReleasedIsFinal`.
  `docs/status/send-routes-security.md:18` says "in-memory records only (lost on
  restart)"; the journal keeps them.
- **Observer, a block that comes back** (`sdk/src/tx.ts:342`: "a later
  re-acceptance anywhere on the new chain stays reachable"). If the removed
  accepting block itself returns to the chain, a scan that starts at it does not
  see it again. Related: `operation-status.ts:58` calls a rejected operation
  final, `tx-status.ts:116` says "Only FINALIZED is terminal for a txId."
  (`FinalOperationStays` excepts a rejected transaction that a chain
  accepts after all.)
- **Simulated DAG** (`query/src/adapters/dag-adapter.ts:336`: "Tx in both
  accepted and displaced (invariant violation)"). A transaction carried by two
  blocks of the sink's past is put in both lists: check
  `accepted \cap displaced = {}`. `ghostdag-engine.ts:156` speaks of "the blue set of
  the selected parent's past plus the selected parent itself"; the colouring
  starts from the selected parent alone. A block has one colour, written by
  whoever merges it last, so blocks added later change what moving the sink to
  the same block would accept: drop `recoloured` from `VerdictStands`.

Conditions that properties name, not disagreements with a comment:

- `UniqueNonces` holds as long as no counter was dropped (`forgot`) while a nonce
  was reserved and not yet sent: the node does not count it, and a resync hands
  it out again. `NoHole` is stated for the first counter, and a signed transaction
  whose broadcast was refused leaves a hole that nothing but its own bytes fills.
- `Serialised` and `Tracked` hold unless a lock was broken that had been taken
  since the left-over one was judged (`raced`), the workspace lock's pattern.
  `Tracked` also excepts a process whose starter died or threw between the spawn
  and the record (`orphans`), and one whose record a stop dropped because its
  identity could not be read (`misread`).
- On POSIX a process whose identity cannot be read at the end of the wait counts
  as gone (`StoppedIsGone`), and a PID may change hands between check and signal
  (`OnlyOwn`), as the code says.
- `OncePerTx` allows one more broadcast per record that was never written.
- `RecordAdvances` and `NotRedone` except a job while it has two runs at once
  (`doubled`: a resumption takes a running record for an abandoned one, or starts
  one that completed during its await, `job-runner.ts:48`) and, the former, the
  step that cuts `jobs.json` short (`torn`). `StopEnds` excepts a caller whose
  resolver a second `stop` replaced, that called after the loop had ended, or whose
  loop threw in its last checkpoint (`stranded`, `daemon.ts:86` and 210). A restart that
  resumes jobs before their handler is registered marks them failed.
- In `RpcSession` a caller can join the verification of a client that was
  already given up and gets a connection error it could have been spared; and
  `close()` does not wait for a client's release that is already under way.
  Neither breaks a property.

## 7. What is not modelled

`PROJECT.json` lists every part with the reason. In short: cryptography,
hashing, schemas and encodings (data that small instances say nothing about);
thin adapters, command-line front ends and read-only queries (no shared state);
Docker, downloads, SQLite and other external programs (their consistency is
their own); code without a caller in the running system (`PendingSpendService`,
`resolveConflictsDeterministically`).

Left out of modelled parts:

- `WorkspaceLock`: one lock name; several names and their order are in `TxSend`.
- `AppendLedger`: several logs (each has its own lock).
- `SimulatedExecution`: states outside a workspace, artifacts removed by hand,
  the computation of a transaction's effects.
- `SendGuard`: several networks, simulator sends (they broadcast nothing), sends
  of a transaction that is already signed, the text of reconciliation reports.
- `TxSend`: building and signing, the payment preflight, an artifact store that
  cannot be read, and what follows acceptance (`TxObserver`). The run has no
  plain payment: it is a send without covenants, which the theorems include.
- `TxObserver`: the verification of an artifact before it counts as evidence, a
  `since` given by the caller, the waiting loops around `observe`.
- `Escrow`: creation and its duplicate-address guard, several escrows beyond the
  effect of one on another's journal entry, and `commitIntent`, `delete` and
  `clear` of the journal, which no route calls.
- `SimulatedDag`: the CLI's fork without GHOSTDAG data, adding an id twice,
  parents that are ancestors of each other. `Ghostdag`: the random scenario
  generator and its statistics.
- `RpcSession`: an interceptor in front of the transport that refuses a submission
  already handed over (`session.ts:402` to 404; it reports "not sent" on the
  interceptor's word, and no interceptor is part of the code), the thin clients over it, the JSON-RPC client's circuit breaker
  and retries, fail-over between endpoints and health scores.
- `NonceManager`: several accounts or chains (their states are independent).
- `JobRunner`: progress figures and delays between attempts.
- Power loss: a crash is that of a process; what was written stays written.

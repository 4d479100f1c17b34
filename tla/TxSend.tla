------------------------------- MODULE TxSend -------------------------------
(***************************************************************************)
(* Sending a transaction (packages/sdk/src/tx.ts, from the transaction's   *)
(* lock on): one lock per transaction, inside it one per covenant it       *)
(* spends (withLocks of packages/core/src/lock.ts), inside those the       *)
(* artifact store's; the look-up of a recorded submission, the check of    *)
(* pending transitions, the preflight, the broadcast and its record.       *)
(*                                                                         *)
(* A lock is taken and released in one step each, and one whose holder     *)
(* died is free: WorkspaceLock is about how.  Covenants and outpoints are  *)
(* numbers, ordered as their names are.                                    *)
(***************************************************************************)
EXTENDS Naturals, FiniteSets

CONSTANTS
    Flows,          \* calls of send(), in one process or in several
    NoFlow,
    Txs,            \* signed transactions, by txId
    Outpoints,      \* covenant outpoints
    OutsOf,         \* the covenant outpoints each transaction spends
    CovenantOf,     \* the covenant each outpoint carries
    LastCovenant,   \* the greatest of them
    MaxSends,       \* bound on sends begun
    MaxCrashes,     \* bound on flows whose process dies
    MaxFaults       \* bound on store writes that fail, unreadable nodes, time-outs

Covenants == {CovenantOf[o] : o \in Outpoints}

ASSUME SendAssumption ==
    /\ NoFlow \notin Flows
    /\ Txs # {}
    /\ LastCovenant \in Nat
    /\ Outpoints \subseteq Nat
    /\ OutsOf \in [Txs -> SUBSET Outpoints]
    /\ CovenantOf \in [Outpoints -> 0..LastCovenant]
    /\ {MaxSends, MaxCrashes, MaxFaults} \subseteq Nat

VARIABLES
    pc, tx,         \* where each flow is, and the transaction it sends
    names,          \* the pending transitions its caller names for replacement
    todo, found,    \* records still to examine, and those found pending
    answer,         \* what the submit call established
    txLock, covLock, storeLock,
    records,        \* transactions with a recorded submission
    outcome,        \* their recorded outcome
    replaced,       \* the transitions each recorded submission replaces
    broadcasts,     \* submit calls made of each transaction
    unrecorded,     \* broadcasts whose record was never written
    pool, flight,   \* the node's mempool, requests that may still reach it
    accepted, spent,
    dead, sends, faults

flowVars == <<pc, tx, names, todo, found, answer>>
lockVars == <<txLock, covLock, storeLock>>
storeVars == <<records, outcome, replaced>>
nodeVars == <<pool, flight, accepted, spent>>
history == <<broadcasts, unrecorded>>
vars == <<flowVars, lockVars, storeVars, nodeVars, history, dead, sends, faults>>

CovsOf(t) == {CovenantOf[o] : o \in OutsOf[t]}
Rivals(t) == {u \in Txs \ {t} : CovsOf(u) \cap CovsOf(t) # {}}

Init ==
    /\ pc = [f \in Flows |-> "idle"]
    /\ tx = [f \in Flows |-> CHOOSE t \in Txs : TRUE]
    /\ names = [f \in Flows |-> {}] /\ todo = [f \in Flows |-> {}]
    /\ found = [f \in Flows |-> {}] /\ answer = [f \in Flows |-> "none"]
    /\ txLock = [t \in Txs |-> NoFlow]
    /\ covLock = [c \in Covenants |-> NoFlow]
    /\ storeLock = NoFlow
    /\ records = {} /\ outcome = [t \in Txs |-> "none"] /\ replaced = [t \in Txs |-> {}]
    /\ broadcasts = [t \in Txs |-> 0] /\ unrecorded = [t \in Txs |-> 0]
    /\ pool = {} /\ flight = {} /\ accepted = {} /\ spent = {}
    /\ dead = {} /\ sends = 0 /\ faults = 0

At(f, l) == f \notin dead /\ pc[f] = l
Goto(f, l) == pc' = [pc EXCEPT ![f] = l]
Faulty == faults < MaxFaults /\ faults' = faults + 1

\* Mutant: the lock of a dead process is not recovered.
Free_Unheld(owner) == owner = NoFlow

\* A lock can be taken that is absent, or that a process which died left.
Free(owner) == owner = NoFlow \/ owner \in dead

-----------------------------------------------------------------------------
(* send: the transaction's lock and the recorded submission *)

Begin(f, t, r) ==
    /\ At(f, "idle") /\ sends < MaxSends
    /\ sends' = sends + 1
    /\ tx' = [tx EXCEPT ![f] = t]
    /\ names' = [names EXCEPT ![f] = r]
    /\ Goto(f, "txLock")
    /\ UNCHANGED <<todo, found, answer, lockVars, storeVars, nodeVars, history, dead, faults>>

LockTx(f) ==
    /\ At(f, "txLock") /\ Free(txLock[tx[f]])
    /\ txLock' = [txLock EXCEPT ![tx[f]] = f]
    /\ Goto(f, "lookup")
    /\ UNCHANGED <<tx, names, todo, found, answer, covLock, storeLock, storeVars, nodeVars,
                   history, dead, sends, faults>>

\* Mutant: an uncertain submission may be sent again.
Recorded_Certain(t) == t \in records /\ outcome[t] # "unknown"

\* findSubmissionForTxId
Recorded(t) == t \in records

\* Mutant: only a send that names replacements is checked for pending transitions.
LookUp_Unnamed(f) ==
    /\ At(f, "lookup")
    /\ Goto(f, IF Recorded(tx[f]) THEN "release"
               ELSE IF names[f] = {} THEN "submit" ELSE "covLock")
    /\ UNCHANGED <<tx, names, todo, found, answer, lockVars, storeVars, nodeVars, history,
                   dead, sends, faults>>

\* alreadySubmittedReply: a recorded transaction is answered, not sent; one
\* that spends no covenant takes no more locks.
LookUp(f) ==
    /\ At(f, "lookup")
    /\ Goto(f, IF Recorded(tx[f]) THEN "release"
               ELSE IF CovsOf(tx[f]) = {} THEN "submit" ELSE "covLock")
    /\ UNCHANGED <<tx, names, todo, found, answer, lockVars, storeVars, nodeVars, history,
                   dead, sends, faults>>

-----------------------------------------------------------------------------
(* sendV1Locked *)

Missing(f) == {c \in CovsOf(tx[f]) : covLock[c] # f}

\* The covenant ids are sorted before withLocks gets them.
NextLock(f) == CHOOSE c \in Missing(f) : \A d \in Missing(f) : c <= d

LockCovenant(f) ==
    /\ At(f, "covLock") /\ Missing(f) # {}
    /\ Free(covLock[NextLock(f)])
    /\ covLock' = [covLock EXCEPT ![NextLock(f)] = f]
    /\ UNCHANGED <<flowVars, txLock, storeLock, storeVars, nodeVars, history, dead, sends, faults>>

\* pendingCovenantTransitions: the recorded, not rejected ones of its covenants.
ListRivals(f) ==
    /\ At(f, "covLock") /\ Missing(f) = {}
    /\ todo' = [todo EXCEPT ![f] = {u \in records \cap Rivals(tx[f]) : outcome[u] # "rejected"}]
    /\ found' = [found EXCEPT ![f] = {}]
    /\ Goto(f, "examine")
    /\ UNCHANGED <<tx, names, answer, lockVars, storeVars, nodeVars, history, dead, sends, faults>>

\* What the node says of one: accepted, or in conflict (no trace of it, and
\* one of its outpoints is spent).
Settled(u) == u \in accepted \/ (u \notin pool /\ OutsOf[u] \cap spent # {})

\* One record is examined; one that cannot be observed stays pending.
Examine(f, u) ==
    /\ At(f, "examine") /\ u \in todo[f]
    /\ todo' = [todo EXCEPT ![f] = @ \ {u}]
    /\ \/ found' = [found EXCEPT ![f] = IF Settled(u) THEN @ ELSE @ \cup {u}] /\ UNCHANGED faults
       \/ Faulty /\ found' = [found EXCEPT ![f] = @ \cup {u}]
    /\ UNCHANGED <<pc, tx, names, answer, lockVars, storeVars, nodeVars, history, dead, sends>>

\* Each named transition is pending and spends an outpoint this one spends;
\* each pending one is named; else the send is refused.
Judge(f) ==
    /\ At(f, "examine") /\ todo[f] = {}
    /\ Goto(f, IF /\ found[f] = names[f]
                  /\ \A u \in names[f] : OutsOf[u] \cap OutsOf[tx[f]] # {}
               THEN "preflight" ELSE "release")
    /\ UNCHANGED <<tx, names, todo, found, answer, lockVars, storeVars, nodeVars, history,
                   dead, sends, faults>>

\* The node lists its inputs unspent, and its mempool spends none of them.
Takes(t) == OutsOf[t] \cap (spent \cup UNION {OutsOf[u] : u \in pool}) = {}

\* preflightV1Send: every input unspent and not being spent by the mempool.
Preflight(f) ==
    /\ At(f, "preflight")
    /\ \/ /\ Goto(f, IF Takes(tx[f]) THEN "submit" ELSE "release")
          /\ UNCHANGED faults
       \/ Faulty /\ Goto(f, "release")
    /\ UNCHANGED <<tx, names, todo, found, answer, lockVars, storeVars, nodeVars, history,
                   dead, sends>>

-----------------------------------------------------------------------------
(* broadcastOnce *)

\* The node's identity is wrong or unread: nothing is sent or recorded.
NotSent(f) ==
    /\ At(f, "submit") /\ Faulty
    /\ Goto(f, "release")
    /\ UNCHANGED <<tx, names, todo, found, answer, lockVars, storeVars, nodeVars, history,
                   dead, sends>>

\* The request leaves.
Submit(f) ==
    /\ At(f, "submit")
    /\ broadcasts' = [broadcasts EXCEPT ![tx[f]] = @ + 1]
    /\ flight' = flight \cup {tx[f]}
    /\ answer' = [answer EXCEPT ![f] = "none"]
    /\ Goto(f, "answer")
    /\ UNCHANGED <<tx, names, todo, found, lockVars, storeVars, pool, accepted, spent,
                   unrecorded, dead, sends, faults>>

Holds(t) == t \in pool \cup accepted

\* submitOutcomeOf: the node took it, refused it, or says it holds it already.
Answered(f) ==
    LET t == tx[f] IN
    /\ At(f, "answer") /\ t \in flight
    /\ flight' = flight \ {t}
    /\ \/ ~Holds(t) /\ Takes(t) /\ pool' = pool \cup {t} /\ answer' = [answer EXCEPT ![f] = "accepted"]
       \/ ~Holds(t) /\ UNCHANGED pool /\ answer' = [answer EXCEPT ![f] = "rejected"]
       \/ Holds(t) /\ UNCHANGED pool /\ answer' = [answer EXCEPT ![f] = "unknown"]
    /\ Goto(f, "storeLock")
    /\ UNCHANGED <<tx, names, todo, found, lockVars, storeVars, accepted, spent, history,
                   dead, sends, faults>>

\* A time-out or a lost connection: the request may still reach the node.
NoAnswer(f) ==
    /\ At(f, "answer")
    /\ answer' = [answer EXCEPT ![f] = "unknown"]
    /\ Goto(f, "storeLock")
    /\ UNCHANGED <<tx, names, todo, found, lockVars, storeVars, nodeVars, history, dead, sends, faults>>

LockStore(f) ==
    /\ At(f, "storeLock") /\ Free(storeLock)
    /\ storeLock' = f
    /\ Goto(f, "record")
    /\ UNCHANGED <<tx, names, todo, found, answer, txLock, covLock, storeVars, nodeVars,
                   history, dead, sends, faults>>

\* The submission is written, and the store let go of.
Record(f) ==
    /\ At(f, "record")
    /\ records' = records \cup {tx[f]}
    /\ outcome' = [outcome EXCEPT ![tx[f]] = answer[f]]
    /\ replaced' = [replaced EXCEPT ![tx[f]] = names[f]]
    /\ storeLock' = NoFlow
    /\ Goto(f, "release")
    /\ UNCHANGED <<tx, names, todo, found, answer, txLock, covLock, nodeVars, history, dead,
                   sends, faults>>

\* The store stays locked by another, or the write fails.
RecordFails(f) ==
    /\ At(f, "storeLock") \/ At(f, "record")
    /\ Faulty
    /\ unrecorded' = [unrecorded EXCEPT ![tx[f]] = @ + 1]
    /\ storeLock' = IF storeLock = f THEN NoFlow ELSE storeLock
    /\ Goto(f, "release")
    /\ UNCHANGED <<tx, names, todo, found, answer, txLock, covLock, storeVars, nodeVars,
                   broadcasts, dead, sends>>

\* Waiting for the transaction's or a covenant's lock takes too long.
TimesOut(f) ==
    /\ \/ At(f, "txLock") /\ ~Free(txLock[tx[f]])
       \/ At(f, "covLock") /\ Missing(f) # {} /\ ~Free(covLock[NextLock(f)])
    /\ Faulty
    /\ Goto(f, "release")
    /\ UNCHANGED <<tx, names, todo, found, answer, lockVars, storeVars, nodeVars, history,
                   dead, sends>>

\* The finallys: the covenants' locks, then the transaction's.
Release(f) ==
    /\ At(f, "release")
    /\ covLock' = [c \in Covenants |-> IF covLock[c] = f THEN NoFlow ELSE covLock[c]]
    /\ txLock' = [t \in Txs |-> IF txLock[t] = f THEN NoFlow ELSE txLock[t]]
    /\ names' = [names EXCEPT ![f] = {}]
    /\ found' = [found EXCEPT ![f] = {}]
    /\ answer' = [answer EXCEPT ![f] = "none"]
    /\ Goto(f, "idle")
    /\ UNCHANGED <<tx, todo, storeLock, storeVars, nodeVars, history, dead, sends, faults>>

\* The process of a flow dies; a broadcast it did not record stays unrecorded.
Crash(f) ==
    /\ f \notin dead /\ pc[f] # "idle" /\ Cardinality(dead) < MaxCrashes
    /\ dead' = dead \cup {f}
    /\ unrecorded' = [unrecorded EXCEPT ![tx[f]] =
          @ + (IF pc[f] \in {"answer", "storeLock", "record"} THEN 1 ELSE 0)]
    /\ UNCHANGED <<flowVars, lockVars, storeVars, nodeVars, broadcasts, sends, faults>>

-----------------------------------------------------------------------------
(* The node *)

others == <<flowVars, lockVars, storeVars, history, dead, sends, faults>>

\* A request nobody waits for any more arrives, or is lost.
Arrives(t) ==
    /\ t \in flight
    /\ flight' = flight \ {t}
    /\ pool' = IF Takes(t) /\ ~Holds(t) THEN pool \cup {t} ELSE pool
    /\ UNCHANGED <<others, accepted, spent>>

\* A chain block accepts it; what conflicts with it leaves the mempool.
Accepts(t) ==
    /\ t \in pool
    /\ accepted' = accepted \cup {t}
    /\ spent' = spent \cup OutsOf[t]
    /\ pool' = {u \in pool \ {t} : OutsOf[u] \cap OutsOf[t] = {}}
    /\ UNCHANGED <<others, flight>>

\* It leaves the mempool without being accepted.
Drops(t) ==
    /\ t \in pool
    /\ pool' = pool \ {t}
    /\ UNCHANGED <<others, flight, accepted, spent>>

\* Somebody else's transaction spends an outpoint.
SpentElsewhere(o) ==
    /\ o \notin spent
    /\ spent' = spent \cup {o}
    /\ pool' = {u \in pool : o \notin OutsOf[u]}
    /\ UNCHANGED <<others, flight, accepted>>

Node ==
    \/ \E t \in Txs : Arrives(t) \/ Accepts(t) \/ Drops(t)
    \/ \E o \in Outpoints : SpentElsewhere(o)

Step(f) ==
    \/ LockTx(f) \/ LookUp(f) \/ LockCovenant(f) \/ ListRivals(f)
    \/ (\E u \in Txs : Examine(f, u)) \/ Judge(f) \/ Preflight(f)
    \/ NotSent(f) \/ Submit(f) \/ Answered(f) \/ NoAnswer(f)
    \/ LockStore(f) \/ Record(f) \/ RecordFails(f) \/ TimesOut(f) \/ Release(f)

Next ==
    \/ \E f \in Flows : Step(f) \/ Crash(f)
    \/ \E f \in Flows, t \in Txs : \E r \in SUBSET Rivals(t) : Begin(f, t, r)
    \/ Node

Spec == Init /\ [][Next]_vars

\* A live send takes its next step: locks are polled, RPC calls have time-outs.
FairSpec == Spec /\ \A f \in Flows : WF_vars(Step(f))

-----------------------------------------------------------------------------
Labels == {"idle", "txLock", "lookup", "covLock", "examine", "preflight", "submit",
           "answer", "storeLock", "record", "release"}
Outcomes == {"none", "accepted", "rejected", "unknown"}

\* The variables have their types, and a record always says what the submit
\* call established.
TypeOK ==
    /\ pc \in [Flows -> Labels] /\ tx \in [Flows -> Txs]
    /\ names \in [Flows -> SUBSET Txs]
    /\ todo \in [Flows -> SUBSET Txs] /\ found \in [Flows -> SUBSET Txs]
    /\ answer \in [Flows -> Outcomes]
    /\ txLock \in [Txs -> Flows \cup {NoFlow}]
    /\ covLock \in [Covenants -> Flows \cup {NoFlow}]
    /\ storeLock \in Flows \cup {NoFlow}
    /\ records \subseteq Txs /\ outcome \in [Txs -> Outcomes]
    /\ \A t \in Txs : t \in records <=> outcome[t] # "none"
    /\ \A f \in Flows : pc[f] \in {"storeLock", "record"} => answer[f] # "none"
    /\ replaced \in [Txs -> SUBSET Txs]
    /\ broadcasts \in [Txs -> Nat] /\ unrecorded \in [Txs -> Nat]
    /\ pool \subseteq Txs /\ flight \subseteq Txs /\ accepted \subseteq Txs
    /\ spent \subseteq Outpoints
    /\ dead \subseteq Flows /\ sends \in Nat /\ faults \in Nat

\* A transaction is broadcast once, however many sends of it run and whatever
\* became of the first; it can only be broadcast again for every broadcast
\* whose record was lost (TX-SEND-IDEMPOTENT-1).
OncePerTx == \A t \in Txs : broadcasts[t] <= 1 + unrecorded[t]

\* A transition that may still be accepted.
Open(t) == outcome[t] # "rejected" /\ t \notin accepted /\ OutsOf[t] \cap spent = {}

\* Of two recorded transitions of a covenant that may both still be accepted,
\* one was sent to replace the other (COVENANT_TRANSITION_PENDING), whatever
\* the order in which sends, answers and the node's decisions come.
NoSilentRivals ==
    \A t, u \in records :
        u \in Rivals(t) /\ Open(t) /\ Open(u) => t \in replaced[u] \/ u \in replaced[t]

\* The lock a flow waits for, and whether it waits for one that g holds.
WaitsFor(f, g) ==
    /\ f \notin dead /\ g \notin dead
    /\ \/ pc[f] = "txLock" /\ txLock[tx[f]] = g
       \/ pc[f] = "covLock" /\ Missing(f) # {} /\ covLock[NextLock(f)] = g
       \/ pc[f] = "storeLock" /\ storeLock = g

\* No sends wait for each other in a circle: the locks of the transaction, of
\* its covenants and of the store are taken in one order.
NoWaitCycle ==
    \A S \in SUBSET Flows : S # {} => \E f \in S : \A g \in S : ~WaitsFor(f, g)

\* Every send ends, also when no wait for a lock times out: a time-out is a
\* fault that need not happen, and the lock of a dead process is recovered.
SendsEnd == \A f \in Flows : pc[f] = "txLock" ~> (pc[f] = "idle" \/ f \in dead)

=============================================================================

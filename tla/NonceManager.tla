---------------------------- MODULE NonceManager ----------------------------
(***************************************************************************)
(* EvmNonceManager (packages/l2/src/nonce-manager.ts) as prepareEvm-       *)
(* Transaction uses it: concurrent callers of one process reserve nonces   *)
(* of one account, and give back the nonce of a preparation that failed.   *)
(*                                                                         *)
(* Acquisitions of one state object are serialized by a chain of promises; *)
(* the holder awaits the node's pending count, and a release or a reset    *)
(* may run meanwhile.  A reset drops the state object; the callers that    *)
(* already queued on it keep it.  The node is external: its pending count  *)
(* stops at the first nonce it does not have.                              *)
(***************************************************************************)
EXTENDS Integers, Sequences, FiniteSets

CONSTANTS
    Signers,      \* concurrent prepareEvmTransaction calls
    MaxResets,    \* bound on reset()
    MaxExternal   \* bound on transactions of other signers

ASSUME NonceAssumption == MaxResets \in Nat /\ MaxExternal \in Nat

VARIABLES
    epoch,     \* the current state object
    next,      \* nextNonce of each state object
    queue,     \* the lock chain of each state object; its head runs
    stage,     \* "idle", "queued", "asked", "answered", "holds", "sent",
               \* "uncertain", "refused", "failed"
    obj,       \* the state object a caller queued on
    first,     \* did the caller find the counter unsynced before it asked?
    answer,    \* the pending count the node answered to the caller
    nonce,     \* the nonce of a caller
    node,      \* the nonces the node has
    external,  \* transactions of other signers so far
    forgot     \* was a counter dropped, by a release or a reset, so far?

nonceVars == <<epoch, next, queue, stage, obj, first, answer, nonce, node, external, forgot>>

Epochs == 0..MaxResets
MaxNonce == Cardinality(Signers) + MaxExternal
Nonces == 0..MaxNonce
Unsynced == -1

\* The node's pending count is k.
Pending(k) == k \notin node /\ \A j \in 0..(k - 1) : j \in node

NonceInit ==
    /\ epoch = 0
    /\ next = [e \in Epochs |-> Unsynced]
    /\ queue = [e \in Epochs |-> <<>>]
    /\ stage = [c \in Signers |-> "idle"]
    /\ obj = [c \in Signers |-> 0]
    /\ first = [c \in Signers |-> FALSE]
    /\ answer = [c \in Signers |-> 0]
    /\ nonce = [c \in Signers |-> 0]
    /\ node = {}
    /\ external = 0 /\ forgot = FALSE

-----------------------------------------------------------------------------
\* Mutant: a call does not wait for the previous one.
HasTurn_Unlocked(c) == TRUE

\* The caller's turn on the promise chain.
HasTurn(c) == queue[obj[c]] # <<>> /\ Head(queue[obj[c]]) = c

\* acquireNonce: take or make the state object and chain onto its lock.
Acquire(c) ==
    /\ stage[c] = "idle"
    /\ stage' = [stage EXCEPT ![c] = "queued"]
    /\ obj' = [obj EXCEPT ![c] = epoch]
    /\ queue' = [queue EXCEPT ![epoch] = Append(@, c)]
    /\ UNCHANGED <<epoch, next, first, answer, nonce, node, external, forgot>>

\* The lock is ours: the counter is looked at and the node asked.
Ask(c) ==
    /\ stage[c] = "queued" /\ HasTurn(c)
    /\ stage' = [stage EXCEPT ![c] = "asked"]
    /\ first' = [first EXCEPT ![c] = next[obj[c]] < 0]
    /\ UNCHANGED <<epoch, next, queue, obj, answer, nonce, node, external, forgot>>

\* The node answers with its pending count at that moment.
Answer(c) ==
    /\ stage[c] = "asked"
    /\ stage' = [stage EXCEPT ![c] = "answered"]
    /\ \E k \in Nonces : Pending(k) /\ answer' = [answer EXCEPT ![c] = k]
    /\ UNCHANGED <<epoch, next, queue, obj, first, nonce, node, external, forgot>>

\* releaseLock(): the next caller of the chain runs.
Unlock(c) == queue' = [queue EXCEPT ![obj[c]] = Tail(@)]

\* The counter after the answer: the node's on first use, else the higher.
Synced(c, n) == IF first[c] \/ answer[c] > n THEN answer[c] ELSE n

\* The answer arrives: the nonce is assigned and the lock released.
Assign(c) ==
    /\ stage[c] = "answered"
    /\ LET n == Synced(c, next[obj[c]]) IN
       /\ nonce' = [nonce EXCEPT ![c] = n]
       /\ next' = [next EXCEPT ![obj[c]] = n + 1]
    /\ Unlock(c)
    /\ stage' = [stage EXCEPT ![c] = "holds"]
    /\ UNCHANGED <<epoch, obj, first, answer, node, external, forgot>>

\* Mutant: a failed call leaves the lock taken.
RpcFails_KeepsLock(c) ==
    /\ stage[c] = "asked"
    /\ stage' = [stage EXCEPT ![c] = "failed"]
    /\ UNCHANGED <<epoch, next, queue, obj, first, answer, nonce, node, external, forgot>>

\* The RPC call throws: the lock is released all the same.
RpcFails(c) ==
    /\ stage[c] = "asked"
    /\ Unlock(c)
    /\ stage' = [stage EXCEPT ![c] = "failed"]
    /\ UNCHANGED <<epoch, next, obj, first, answer, nonce, node, external, forgot>>

\* Mutant: releasing another nonce than the latest changes nothing.
Released_LatestOnly(n, k) == IF n - 1 = k THEN k ELSE n

\* releaseUnusedNonce: the latest nonce is reused, any other forces a resync.
Released(n, k) == IF n - 1 = k THEN k ELSE IF k < n THEN Unsynced ELSE n

\* finishPrepare throws: the nonce is returned to the current state object.
PrepareFails(c) ==
    /\ stage[c] = "holds"
    /\ next' = [next EXCEPT ![epoch] = Released(@, nonce[c])]
    /\ forgot' = (forgot \/ next'[epoch] = Unsynced)
    /\ stage' = [stage EXCEPT ![c] = "failed"]
    /\ UNCHANGED <<epoch, queue, obj, first, answer, nonce, node, external>>

\* The signed transaction reaches the node: at its broadcast, late, or when the
\* same bytes are sent again.  The node rejects a used nonce.
Send(c) ==
    /\ stage[c] \in {"holds", "uncertain", "refused"}
    /\ node' = node \cup {nonce[c]}
    /\ stage' = [stage EXCEPT ![c] = IF nonce[c] \in node THEN "failed" ELSE "sent"]
    /\ UNCHANGED <<epoch, next, queue, obj, first, answer, nonce, external, forgot>>

\* The broadcast is lost; the caller keeps the nonce and polls its hash.
SendLost(c) ==
    /\ stage[c] = "holds"
    /\ stage' = [stage EXCEPT ![c] = "uncertain"]
    /\ UNCHANGED <<epoch, next, queue, obj, first, answer, nonce, node, external, forgot>>

\* The write guard, or the node for another reason than the nonce, refuses the
\* transaction: the error is thrown on, and nothing gives the nonce back.
SendRefused(c) ==
    /\ stage[c] \in {"holds", "uncertain"}
    /\ stage' = [stage EXCEPT ![c] = "refused"]
    /\ UNCHANGED <<epoch, next, queue, obj, first, answer, nonce, node, external, forgot>>

\* Another signer of the account uses the pending nonce.
ExternalSend ==
    /\ external < MaxExternal
    /\ external' = external + 1
    /\ \E k \in Nonces : Pending(k) /\ node' = node \cup {k}
    /\ UNCHANGED <<epoch, next, queue, stage, obj, first, answer, nonce, forgot>>

\* reset(): the state object is dropped from the map.
Reset ==
    /\ epoch < MaxResets
    /\ epoch' = epoch + 1 /\ forgot' = TRUE
    /\ UNCHANGED <<next, queue, stage, obj, first, answer, nonce, node, external>>

NonceNext ==
    \/ \E c \in Signers :
         \/ Acquire(c) \/ Ask(c) \/ Answer(c) \/ Assign(c) \/ RpcFails(c)
         \/ PrepareFails(c) \/ Send(c) \/ SendLost(c) \/ SendRefused(c)
    \/ ExternalSend \/ Reset

NonceSpec == NonceInit /\ [][NonceNext]_nonceVars

\* A call is answered or times out, and the event loop runs what is ready.
NonceFairSpec ==
    NonceSpec /\ \A c \in Signers :
        WF_nonceVars(Ask(c)) /\ WF_nonceVars(Answer(c) \/ RpcFails(c)) /\ WF_nonceVars(Assign(c))

-----------------------------------------------------------------------------
Reserved(c) == stage[c] \in {"holds", "sent", "uncertain"}
Refused(c) == stage[c] = "refused"

\* The types; only the head of a state object's promise chain is between asking
\* the node and taking its answer (acquireNonce).
NonceTypeOK ==
    /\ epoch \in Epochs
    /\ next \in [Epochs -> Nonces \cup {Unsynced, MaxNonce + 1}]
    /\ nonce \in [Signers -> Nonces]
    /\ \A c \in Signers : stage[c] \in {"asked", "answered"} => HasTurn(c)
    /\ node \subseteq Nonces

\* Two transactions of the process never carry the same nonce, however their
\* preparations interleave (acquireNonce: "Coordinates concurrent asynchronous
\* transaction preparation"), one that was refused and may be sent again
\* included, as long as no counter was dropped: the node does not count what is
\* reserved and not yet sent, so a resync hands it out again.
UniqueNonces ==
    \A c, d \in Signers :
        /\ ~forgot /\ c # d
        /\ Reserved(c) \/ Refused(c)
        /\ Reserved(d) \/ Refused(d)
        => nonce[c] # nonce[d]

\* A nonce is assigned over a hole, a lower nonce that neither the node nor a
\* transaction on its way has (releaseUnusedNonce: "the gap is filled instead of
\* blocking"), only where a signed transaction was refused when it was broadcast:
\* sendRawTransactionResilient throws and returns no nonce, so what is assigned
\* above waits until the same bytes are sent again.  A preparation that fails
\* leaves no hole.  A call that queued before a reset keeps the old counter, which
\* no release reaches.
NoHole ==
    [][\A c \in Signers : epoch = 0 /\ stage[c] = "answered" /\ stage'[c] = "holds" =>
          \A k \in 0..(nonce'[c] - 1) :
              \/ k \in node
              \/ \E d \in Signers : (Reserved(d) \/ Refused(d)) /\ nonce[d] = k]_nonceVars

\* Every acquireNonce returns or throws: a failed RPC call of one caller never
\* leaves the chain of locks waiting.
AcquireEnds ==
    \A c \in Signers :
        stage[c] = "queued" ~> stage[c] \notin {"queued", "asked", "answered"}

=============================================================================

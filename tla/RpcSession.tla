----------------------------- MODULE RpcSession -----------------------------
(***************************************************************************)
(* OfficialRpcSession (packages/kaspa-rpc/src/upstream/session.ts): the    *)
(* one connection every HardKAS client of a Kaspa node works through, with *)
(* an expected network.  Calls share an opening (`connecting') and a       *)
(* verification (`verifying'); close() starts a new epoch; the official    *)
(* client under the session drops and resumes by itself.                   *)
(*                                                                         *)
(* The session runs in one JavaScript thread: what happens between two     *)
(* awaits is one step, and a promise that settles resumes its waiters in   *)
(* the same step.  A client is the number of its opening.  A connection of *)
(* a client is the number of drops before it.                              *)
(***************************************************************************)
EXTENDS Naturals

CONSTANTS
    Calls,       \* the calls of request()
    Broadcasts,  \* those of them that submit a transaction
    Closes,      \* the calls of close()
    NoClose,     \* no close() is running
    MaxOpens,    \* bound on the clients the session creates
    MaxDrops     \* bound on the drops of one client

ASSUME SessionAssumption ==
    /\ Broadcasts \subseteq Calls
    /\ NoClose \notin Closes
    /\ MaxOpens \in Nat \ {0}
    /\ MaxDrops \in Nat

VARIABLES
    session,  \* the fields of the session object
    conn,     \* the official client of each opening, with its connection
    opening,  \* each open(): where it is, its epoch, the node's answer, its error
    verify,   \* each reverify(): the same, and the drops it started from
    call,     \* each request(): where it is, the client and connection it uses
    close     \* each close(): where it is and what it waits for

vars == <<session, conn, opening, verify, call, close>>

Clients == 1..MaxOpens
None == 0
Links == 0..MaxDrops                     \* the connections of a client
Nets == {"expected", "other"}            \* the network a node serves
Says == Nets \cup {"silent"}             \* what it says it serves
Errors == {"none", "connection", "refused"}
Outcomes == {"none", "error", "answered", "notSent", "refused", "unknown"}

\* What is remembered of the session object, of the clients under it and of the
\* calls in progress.
SomeClient == Clients \cup {None}
SomeClose == Closes \cup {NoClose}
SessionFields == [client : SomeClient, connecting : SomeClient, verified : SomeClient,
                  verifying : SomeClient, epoch : Nat, closing : SomeClose]
Connections == [state : {"none", "opening", "up", "down", "released"}, net : Says, drops : Links]
Openings == [pc : {"unused", "stale", "connect", "ask", "told", "failing", "done"},
             epoch : Nat, said : Says, err : Errors]
Verifications == [pc : {"idle", "ask", "told", "failing"},
                  epoch : Nat, drops : Links, said : Says, err : Errors]
Requests == [pc : {"idle", "opening", "verifying", "server", "dag", "sent", "lost", "done"},
             on : SomeClient, link : Links, server : Says,
             reached : Says \cup {"nobody"}, out : Outcomes]
Closings == [pc : {"idle", "release", "wait", "done"}, epoch : Nat,
             connecting : SomeClient, previous : SomeClose]

\* The types of the session, of its clients and of the calls in progress.
TypeOK ==
    /\ session \in SessionFields
    /\ conn \in [Clients -> Connections]
    /\ opening \in [Clients -> Openings]
    /\ verify \in [Clients -> Verifications]
    /\ call \in [Calls -> Requests]
    /\ close \in [Closes -> Closings]

NotOpened == [pc |-> "unused", epoch |-> 0, said |-> "silent", err |-> "none"]
NotVerifying == [pc |-> "idle", epoch |-> 0, drops |-> 0, said |-> "silent", err |-> "none"]

Init ==
    /\ session = [client |-> None, connecting |-> None, verified |-> None,
                  verifying |-> None, epoch |-> 0, closing |-> NoClose]
    /\ conn = [c \in Clients |-> [state |-> "none", net |-> "silent", drops |-> 0]]
    /\ opening = [c \in Clients |-> NotOpened]
    /\ verify = [c \in Clients |-> NotVerifying]
    /\ call = [r \in Calls |-> [pc |-> "idle", on |-> None, link |-> 0, server |-> "silent",
                                reached |-> "nobody", out |-> "none"]]
    /\ close = [k \in Closes |-> [pc |-> "idle", epoch |-> 0, connecting |-> None,
                                  previous |-> NoClose]]

-----------------------------------------------------------------------------
\* release(client): from the call of disconnect() on, the client is no longer
\* connected and does not resume.
Released(c) == [conn EXCEPT ![c].state = "released", ![c].net = "silent"]
ReleasedIf(c) == IF c = None THEN conn ELSE Released(c)

\* `if (this.client === client) this.client = null'.
Forgotten(field, c) == IF field = c THEN None ELSE field

\* The request is handed to client c, or, for a submission, the node behind it
\* is asked who it is first.
Handed(r, c) ==
    [call[r] EXCEPT !.pc = IF r \in Broadcasts THEN "server" ELSE "sent",
                    !.on = c, !.link = conn[c].drops,
                    !.reached = IF r \in Broadcasts THEN @ ELSE conn[c].net]

Ended(r, out) ==
    [call[r] EXCEPT !.pc = "done", !.on = None, !.link = 0, !.server = "silent", !.out = out]

\* A failure before the transport: an identity refusal stays one, any other
\* failure of a submission is marked as not sent (markRequestNotSent).
Failed(r, err) ==
    Ended(r, IF err = "refused" THEN "refused"
             ELSE IF r \in Broadcasts THEN "notSent" ELSE "error")

\* A failure after the request was handed to the transport (classifySubmitFailure).
AfterSending(r) == Ended(r, IF r \in Broadcasts THEN "unknown" ELSE "error")

\* A promise settles: the calls that wait for it go on.
Settle(pc, c, Then(_)) ==
    call' = [r \in Calls |-> IF call[r].pc = pc /\ call[r].on = c THEN Then(r) ELSE call[r]]

Waits(r, pc, c) == call' = [call EXCEPT ![r].pc = pc, ![r].on = c]

-----------------------------------------------------------------------------
(* request(): connected() *)
Connected(c) == c # None /\ conn[c].state = "up"

\* The client's current connection is verified: it is used at once.
RequestServed(r) ==
    /\ call[r].pc = "idle"
    /\ Connected(session.client) /\ session.verified = session.client
    /\ call' = [call EXCEPT ![r] = Handed(r, session.client)]
    /\ UNCHANGED <<session, conn, opening, verify, close>>

\* The client resumed by itself: the call joins the verification under way, or
\* starts one (reverify up to its question).
RequestVerifies(r) ==
    LET c == session.client IN
    /\ call[r].pc = "idle"
    /\ Connected(c) /\ session.verified # c
    /\ IF session.verifying # None
         THEN /\ Waits(r, "verifying", session.verifying)
              /\ UNCHANGED <<session, verify>>
         ELSE /\ Waits(r, "verifying", c)
              /\ session' = [session EXCEPT !.verifying = c]
              /\ verify' = [verify EXCEPT ![c] = [NotVerifying EXCEPT !.pc = "ask",
                               !.epoch = session.epoch, !.drops = conn[c].drops]]
    /\ UNCHANGED <<conn, opening, close>>

RequestJoins(r) ==
    /\ call[r].pc = "idle"
    /\ ~Connected(session.client) /\ session.connecting # None
    /\ Waits(r, "opening", session.connecting)
    /\ UNCHANGED <<session, conn, opening, verify, close>>

Fresh == {c \in Clients : opening[c].pc = "unused"}

\* open() up to its first await: a client that is gone is released first.
RequestOpens(r) ==
    LET stale == session.client IN
    /\ call[r].pc = "idle"
    /\ ~Connected(stale) /\ session.connecting = None
    /\ \E c \in Fresh :
         /\ \A d \in Fresh : c <= d
         /\ Waits(r, "opening", c)
         /\ session' = [session EXCEPT !.client = None, !.connecting = c]
         /\ opening' = [opening EXCEPT ![c].pc = IF stale = None THEN "connect" ELSE "stale",
                                       ![c].epoch = session.epoch]
         /\ conn' = IF stale = None THEN [conn EXCEPT ![c].state = "opening"] ELSE Released(stale)
    /\ UNCHANGED <<verify, close>>

-----------------------------------------------------------------------------
(* open() *)
StaleReleased(c) ==
    /\ opening[c].pc = "stale"
    /\ opening' = [opening EXCEPT ![c].pc = "connect"]
    /\ conn' = [conn EXCEPT ![c].state = "opening"]
    /\ UNCHANGED <<session, verify, call, close>>

\* connect() resolves; the disconnect listener is registered and the node is
\* asked for its network.
ConnectSucceeds(c) ==
    /\ opening[c].pc = "connect"
    /\ opening' = [opening EXCEPT ![c].pc = "ask"]
    /\ \E net \in Nets : conn' = [conn EXCEPT ![c].state = "up", ![c].net = net]
    /\ UNCHANGED <<session, verify, call, close>>

OpenFails(c, err) ==
    /\ opening' = [opening EXCEPT ![c].pc = "failing", ![c].said = "silent", ![c].err = err]
    /\ conn' = Released(c)
    /\ UNCHANGED <<session, verify, call, close>>

\* connect() rejects or times out.
ConnectFails(c) == opening[c].pc = "connect" /\ OpenFails(c, "connection")

\* Only the connection a question was asked on can answer it.
OpenAnswered(c) ==
    /\ opening[c].pc = "ask"
    /\ conn[c].state = "up" /\ conn[c].drops = 0
    /\ opening' = [opening EXCEPT ![c].pc = "told", ![c].said = conn[c].net]
    /\ UNCHANGED <<session, conn, verify, call, close>>

\* Mutant: the question has no time-out of its own.
OpenAskFails_NoTimeout(c) ==
    /\ opening[c].pc = "ask"
    /\ conn[c].state # "up" \/ conn[c].drops # 0
    /\ OpenFails(c, "connection")

\* getServerInfo times out, is refused or its connection is lost.
OpenAskFails(c) ==
    /\ opening[c].pc = "ask"
    /\ \E err \in {"connection", "refused"} : OpenFails(c, err)

\* The node answered: the connection becomes the session's, unless the answer
\* is another network or none, close() ran, or the connection dropped.
OpenDecides(c) ==
    /\ opening[c].pc = "told"
    /\ IF opening[c].said # "expected" THEN OpenFails(c, "refused")
       ELSE IF opening[c].epoch # session.epoch \/ conn[c].drops # 0
         THEN OpenFails(c, "connection")
       ELSE /\ opening' = [opening EXCEPT ![c].pc = "done", ![c].said = "silent"]
            /\ session' = [session EXCEPT !.client = c, !.verified = c,
                                          !.connecting = Forgotten(@, c)]
            /\ Settle("opening", c, LAMBDA r : Handed(r, c))
            /\ UNCHANGED <<conn, verify, close>>

\* The client that was opened is released: open() rejects.
OpenRejects(c) ==
    /\ opening[c].pc = "failing"
    /\ opening' = [opening EXCEPT ![c].pc = "done", ![c].err = "none"]
    /\ session' = [session EXCEPT !.connecting = Forgotten(@, c)]
    /\ Settle("opening", c, LAMBDA r : Failed(r, opening[c].err))
    /\ UNCHANGED <<conn, verify, close>>

-----------------------------------------------------------------------------
(* reverify() *)
VerifyAnswered(c) ==
    /\ verify[c].pc = "ask"
    /\ conn[c].state = "up" /\ conn[c].drops = verify[c].drops
    /\ verify' = [verify EXCEPT ![c].pc = "told", ![c].said = conn[c].net]
    /\ UNCHANGED <<session, conn, opening, call, close>>

\* discard(): the client is no longer the session's and is released.
Discard(c, err) ==
    /\ verify' = [verify EXCEPT ![c] = [NotVerifying EXCEPT !.pc = "failing", !.err = err]]
    /\ session' = [session EXCEPT !.client = Forgotten(@, c), !.verified = Forgotten(@, c)]
    /\ conn' = Released(c)
    /\ UNCHANGED <<opening, call, close>>

VerifyAskFails(c) ==
    /\ verify[c].pc = "ask"
    /\ \E err \in {"connection", "refused"} : Discard(c, err)

\* reverify() settles; its waiters go on.
VerifyEnds(c, verified, Then(_)) ==
    /\ verify' = [verify EXCEPT ![c] = NotVerifying]
    /\ session' = [session EXCEPT !.verifying = Forgotten(@, c), !.verified = verified]
    /\ Settle("verifying", c, Then)
    /\ UNCHANGED <<conn, opening, close>>

VerifyDecides(c) ==
    /\ verify[c].pc = "told"
    /\ IF verify[c].said # "expected" THEN Discard(c, "refused")
       ELSE IF verify[c].epoch # session.epoch
         THEN VerifyEnds(c, session.verified, LAMBDA r : Failed(r, "connection"))
       ELSE IF conn[c].drops # verify[c].drops \/ session.client # c
         THEN Discard(c, "connection")
       ELSE VerifyEnds(c, c, LAMBDA r : Handed(r, c))

VerifyRejects(c) ==
    /\ verify[c].pc = "failing"
    /\ VerifyEnds(c, session.verified, LAMBDA r : Failed(r, verify[c].err))

-----------------------------------------------------------------------------
(* request(): verifyBroadcastIdentity, then the request itself *)

\* The connection the call last asked something on is still there.
SameLink(r) == conn[call[r].on].state = "up" /\ conn[call[r].on].drops = call[r].link

Asks(r) == call[r].pc \in {"server", "dag"}

\* decideBroadcastIdentity, for an expected network that is not mainnet.
Identified(server, dag) == server = "expected" /\ dag = "expected"

ServerSays(r, net) ==
    call' = [call EXCEPT ![r].pc = "dag", ![r].server = net, ![r].link = conn[call[r].on].drops]

\* Both answers are in: the submission is handed to the transport, or refused.
DagSays(r, net) ==
    call' = [call EXCEPT ![r] = IF Identified(call[r].server, net)
                                THEN [call[r] EXCEPT !.pc = "sent", !.server = "silent",
                                                     !.reached = conn[call[r].on].net]
                                ELSE Failed(r, "refused")]

\* The node answers getServerInfo, then getBlockDagInfo.
AskAnswered(r) ==
    LET net == conn[call[r].on].net IN
    /\ Asks(r) /\ SameLink(r)
    /\ IF call[r].pc = "server" THEN ServerSays(r, net) ELSE DagSays(r, net)
    /\ UNCHANGED <<session, conn, opening, verify, close>>

\* A read that times out or fails says nothing.
AskSilent(r) ==
    /\ Asks(r)
    /\ IF call[r].pc = "server" THEN ServerSays(r, "silent") ELSE DagSays(r, "silent")
    /\ UNCHANGED <<session, conn, opening, verify, close>>

\* The connection was lost: nothing was sent.
AskLost(r) ==
    /\ Asks(r) /\ ~SameLink(r)
    /\ call' = [call EXCEPT ![r] = Failed(r, "connection")]
    /\ UNCHANGED <<session, conn, opening, verify, close>>

\* The node answers.  An answer that names another transaction, or an error
\* text that reads like a lost connection, leaves a submission unknown.
RequestAnswered(r) ==
    /\ call[r].pc = "sent" /\ SameLink(r)
    /\ call' \in {[call EXCEPT ![r] = Ended(r, "answered")], [call EXCEPT ![r] = AfterSending(r)]}
    /\ UNCHANGED <<session, conn, opening, verify, close>>

RequestTimesOut(r) ==
    /\ call[r].pc = "sent"
    /\ call' = [call EXCEPT ![r] = AfterSending(r)]
    /\ UNCHANGED <<session, conn, opening, verify, close>>

\* "not connected": the dead client is dropped and released.
RequestLost(r) ==
    LET c == call[r].on IN
    /\ call[r].pc = "sent" /\ ~SameLink(r)
    /\ session' = [session EXCEPT !.client = Forgotten(@, c)]
    /\ conn' = Released(c)
    /\ call' = [call EXCEPT ![r].pc = "lost"]
    /\ UNCHANGED <<opening, verify, close>>

\* Mutant: the lost submission is marked like one that never left.
LostReleased_NotSent(r) ==
    /\ call[r].pc = "lost"
    /\ call' = [call EXCEPT ![r] = Failed(r, "connection")]
    /\ UNCHANGED <<session, conn, opening, verify, close>>

LostReleased(r) ==
    /\ call[r].pc = "lost"
    /\ call' = [call EXCEPT ![r] = AfterSending(r)]
    /\ UNCHANGED <<session, conn, opening, verify, close>>

-----------------------------------------------------------------------------
(* close() *)

\* Mutant: the opening under way is forgotten.
Close_NotWaiting(k) ==
    /\ close[k].pc = "idle"
    /\ close' = [close EXCEPT ![k] = [pc |-> IF session.client = None THEN "wait" ELSE "release",
                                      epoch |-> session.epoch + 1, connecting |-> None,
                                      previous |-> session.closing]]
    /\ conn' = ReleasedIf(session.client)
    /\ session' = [client |-> None, connecting |-> None, verified |-> None,
                   verifying |-> None, epoch |-> session.epoch + 1, closing |-> k]
    /\ UNCHANGED <<opening, verify, call>>

\* A new epoch: the client is released, the opening under way is waited for.
Close(k) ==
    /\ close[k].pc = "idle"
    /\ close' = [close EXCEPT ![k] = [pc |-> IF session.client = None THEN "wait" ELSE "release",
                                      epoch |-> session.epoch + 1,
                                      connecting |-> session.connecting,
                                      previous |-> session.closing]]
    /\ conn' = ReleasedIf(session.client)
    /\ session' = [client |-> None, connecting |-> None, verified |-> None,
                   verifying |-> None, epoch |-> session.epoch + 1, closing |-> k]
    /\ UNCHANGED <<opening, verify, call>>

CloseReleased(k) ==
    /\ close[k].pc = "release"
    /\ close' = [close EXCEPT ![k].pc = "wait"]
    /\ UNCHANGED <<session, conn, opening, verify, call>>

\* The opening and the close() it found are over.
CloseReturns(k) ==
    LET o == close[k].connecting
        p == close[k].previous
    IN
    /\ close[k].pc = "wait"
    /\ o # None => opening[o].pc = "done"
    /\ p # NoClose => close[p].pc = "done"
    /\ close' = [close EXCEPT ![k].pc = "done"]
    /\ session' = [session EXCEPT !.closing = IF @ = k THEN NoClose ELSE @]
    /\ UNCHANGED <<conn, opening, verify, call>>

-----------------------------------------------------------------------------
(* The official client, by itself *)

\* Mutant: the listener does not take the verdict back.
Drop_KeepsVerdict(c) ==
    /\ conn[c].state = "up" /\ conn[c].drops < MaxDrops
    /\ conn' = [conn EXCEPT ![c].state = "down", ![c].drops = @ + 1, ![c].net = "silent"]
    /\ UNCHANGED <<session, opening, verify, call, close>>

\* The connection drops; the "disconnect" event counts it and takes the
\* verdict back.
Drop(c) ==
    /\ conn[c].state = "up" /\ conn[c].drops < MaxDrops
    /\ conn' = [conn EXCEPT ![c].state = "down", ![c].drops = @ + 1, ![c].net = "silent"]
    /\ session' = [session EXCEPT !.verified = Forgotten(@, c)]
    /\ UNCHANGED <<opening, verify, call, close>>

\* Something answers again behind the URL.  That takes a network round trip, so
\* what an answer already received leads to has run before.
Resume(c) ==
    /\ conn[c].state = "down"
    /\ opening[c].pc # "told" /\ verify[c].pc # "told"
    /\ \E net \in Nets : conn' = [conn EXCEPT ![c].state = "up", ![c].net = net]
    /\ UNCHANGED <<session, opening, verify, call, close>>

-----------------------------------------------------------------------------
\* What the session and its timers do by themselves; an answer of the node is
\* not among it.
OpenStep(c) ==
    \/ StaleReleased(c) \/ ConnectFails(c) \/ OpenAskFails(c) \/ OpenDecides(c) \/ OpenRejects(c)
VerifyStep(c) == VerifyAskFails(c) \/ VerifyDecides(c) \/ VerifyRejects(c)
CallStep(r) == AskSilent(r) \/ AskLost(r) \/ RequestTimesOut(r) \/ RequestLost(r) \/ LostReleased(r)
CloseStep(k) == CloseReleased(k) \/ CloseReturns(k)

Next ==
    \/ \E r \in Calls :
         \/ RequestServed(r) \/ RequestVerifies(r) \/ RequestJoins(r) \/ RequestOpens(r)
         \/ AskAnswered(r) \/ RequestAnswered(r) \/ CallStep(r)
    \/ \E c \in Clients :
         \/ ConnectSucceeds(c) \/ OpenAnswered(c) \/ OpenStep(c)
         \/ VerifyAnswered(c) \/ VerifyStep(c)
         \/ Drop(c) \/ Resume(c)
    \/ \E k \in Closes : Close(k) \/ CloseStep(k)

Spec == Init /\ [][Next]_vars

\* The event loop keeps running and every timer fires: connect(), each question
\* and each request have a time-out, and disconnect() returns.
FairSpec ==
    /\ Spec
    /\ \A c \in Clients : WF_vars(OpenStep(c)) /\ WF_vars(VerifyStep(c))
    /\ \A r \in Calls : WF_vars(CallStep(r))
    /\ \A k \in Closes : WF_vars(CloseStep(k))

-----------------------------------------------------------------------------
(* Properties *)

\* NODE-NETWORK-IDENTITY-1: no request, and no submission, is ever handed to a
\* connection whose node serves another network or does not say, however
\* connections drop and resume under the session.
OnlyExpected == \A r \in Calls : call[r].reached \in {"nobody", "expected"}

\* TX-SEND-BLOCKED-OUTCOME-1: a submission reported as not sent or refused never
\* reached the transport, and one reported as answered did.
OutcomeIsTrue ==
    \A r \in Broadcasts :
        /\ call[r].out \in {"notSent", "refused"} => call[r].reached = "nobody"
        /\ call[r].out = "answered" => call[r].reached = "expected"

\* RL-I4: when close() returns, every client whose opening began before it is
\* released, also those opened by a call that was already waiting.
CloseReleasesAll ==
    \A k \in Closes : close[k].pc = "done" =>
        \A c \in Clients : opening[c].pc # "unused" /\ opening[c].epoch < close[k].epoch
                           => conn[c].state = "released"

\* No request and no close() is under way.
AtRest ==
    /\ \A r \in Calls : call[r].pc \in {"idle", "done"}
    /\ \A k \in Closes : close[k].pc \in {"idle", "done"}

\* Every request and every close() comes to an end, whatever the node does: the
\* session is at rest again and again.  A shared opening or verification never
\* leaves a waiter behind, and a close() never waits for what waits for it.
AllEnd == []<>AtRest

=============================================================================

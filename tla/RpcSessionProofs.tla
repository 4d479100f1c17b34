-------------------------- MODULE RpcSessionProofs --------------------------
(***************************************************************************)
(* What the session of one connection promises, for any number of          *)
(* requests, submissions, close() calls, openings and drops.               *)
(***************************************************************************)
EXTENDS RpcSession, TLAPS

\* `None' is no client, and zero is a number of drops.
LEMMA Constants == None \notin Clients /\ None \in SomeClient /\ NoClose \in SomeClose /\ 0 \in Links
BY SessionAssumption, SMTT(30) DEF None, Clients, SomeClient, SomeClose, Links

\* Where a call is, what it has reached and how it ended agree; a call that was
\* handed a client holds one whose opening is over.
CallAt(r) ==
    /\ call[r].reached \in {"nobody", "expected"}
    /\ call[r].pc \in {"idle", "opening", "verifying", "server", "dag"} => call[r].reached = "nobody"
    /\ call[r].pc \in {"sent", "lost"} => call[r].reached = "expected"
    /\ call[r].pc # "done" => call[r].out = "none"
    /\ call[r].pc \in {"server", "dag", "sent", "lost"} =>
         call[r].on \in Clients /\ opening[call[r].on].pc = "done"
    /\ r \in Broadcasts =>
         /\ call[r].out \in {"notSent", "refused"} => call[r].reached = "nobody"
         /\ call[r].out = "answered" => call[r].reached = "expected"

CallInv == \A r \in Calls : CallAt(r)

-----------------------------------------------------------------------------
(* Types *)

\* What a call becomes has the type of a call.
LEMMA HandedType ==
    ASSUME NEW r \in Calls, NEW c \in Clients, call[r] \in Requests, conn[c] \in Connections
    PROVE  Handed(r, c) \in Requests
BY Zenon DEF Handed, Requests, Connections, SomeClient

\* A call that is over is still a call.
LEMMA EndedType ==
    ASSUME NEW r \in Calls, NEW out \in Outcomes, call[r] \in Requests
    PROVE  Ended(r, out) \in Requests
<1> DEFINE x == [call[r] EXCEPT !.pc = "done", !.on = None, !.link = 0]
<1>1. x \in Requests
  BY Constants, Zenon DEF Requests
<1>2. [x EXCEPT !.server = "silent", !.out = out] \in Requests
  <2> HIDE DEF x
  <2> QED BY <1>1, Zenon DEF Requests, Says
<1> QED
  BY <1>2, Zenon DEF Ended

\* ... so is one that failed, before or after its bytes were sent.
LEMMA FailedType ==
    ASSUME NEW r \in Calls, NEW err, call[r] \in Requests
    PROVE  Failed(r, err) \in Requests /\ AfterSending(r) \in Requests
BY EndedType, Zenon DEF Failed, AfterSending, Outcomes

\* Releasing a client leaves every connection a connection.
LEMMA ReleasedType ==
    ASSUME NEW c \in Clients, conn \in [Clients -> Connections]
    PROVE  Released(c) \in [Clients -> Connections]
BY ZenonT(60) DEF Released, Connections, Says

\* A call that starts to wait for an opening or a verification is a call.
LEMMA WaitsType ==
    ASSUME NEW r \in Calls, NEW c \in SomeClient, NEW pc \in {"opening", "verifying"},
           call \in [Calls -> Requests], Waits(r, pc, c)
    PROVE  call' \in [Calls -> Requests]
<1>1. [call[r] EXCEPT !.pc = pc, !.on = c] \in Requests
  BY ZenonT(60) DEF Requests
<1>2. call' = [call EXCEPT ![r] = [call[r] EXCEPT !.pc = pc, !.on = c]]
  BY Zenon DEF Waits
<1> QED
  BY <1>1, <1>2, Zenon

\* The failure of an opening and the discarding of a client keep the types.
LEMMA OpenFailsType ==
    ASSUME TypeOK, NEW c \in Clients, NEW err \in Errors, OpenFails(c, err)
    PROVE  TypeOK'
<1>1. [opening[c] EXCEPT !.pc = "failing", !.said = "silent", !.err = err] \in Openings
  BY ZenonT(60) DEF TypeOK, Openings, Says
<1>2. opening' = [opening EXCEPT ![c] = [opening[c] EXCEPT !.pc = "failing", !.said = "silent", !.err = err]]
  BY Zenon DEF OpenFails, TypeOK
<1>3. opening' \in [Clients -> Openings]
  BY <1>1, <1>2, Zenon DEF TypeOK
<1>4. conn' \in [Clients -> Connections]
  BY ReleasedType, Zenon DEF OpenFails, TypeOK
<1> QED
  BY <1>3, <1>4, Zenon DEF OpenFails, TypeOK

\* Forgetting a client leaves another one, or none.
LEMMA ForgottenType ==
    ASSUME NEW x \in SomeClient, NEW c PROVE Forgotten(x, c) \in SomeClient
BY Constants, Zenon DEF Forgotten

\* Discarding a client, after its verification failed, keeps the types.
LEMMA DiscardType ==
    ASSUME TypeOK, NEW c \in Clients, NEW err \in Errors, Discard(c, err)
    PROVE  TypeOK'
<1>1. [NotVerifying EXCEPT !.pc = "failing", !.err = err] \in Verifications
  BY Constants, Zenon DEF NotVerifying, Verifications, Says
<1>2. verify' \in [Clients -> Verifications]
  BY <1>1, Zenon DEF Discard, TypeOK
<1>3. session' \in SessionFields
  <2>1. Forgotten(session.client, c) \in SomeClient /\ Forgotten(session.verified, c) \in SomeClient
    BY ForgottenType, Zenon DEF TypeOK, SessionFields
  <2> QED BY <2>1, Zenon DEF Discard, TypeOK, SessionFields
<1>4. conn' \in [Clients -> Connections]
  BY ReleasedType, Zenon DEF Discard, TypeOK
<1> QED
  BY <1>2, <1>3, <1>4, Zenon DEF Discard, TypeOK

\* The end of a verification keeps the types, whatever its verdict.
LEMMA VerifyEndsType ==
    ASSUME TypeOK, NEW c \in Clients, NEW verified \in SomeClient,
           verify' = [verify EXCEPT ![c] = NotVerifying],
           session' = [session EXCEPT !.verifying = Forgotten(@, c), !.verified = verified],
           call' \in [Calls -> Requests], UNCHANGED <<conn, opening, close>>
    PROVE  TypeOK'
<1>1. NotVerifying \in Verifications
  BY Constants, Zenon DEF NotVerifying, Verifications, Says, Errors
<1>2. verify' \in [Clients -> Verifications]
  BY <1>1, Zenon DEF TypeOK
<1>3. session' \in SessionFields
  <2>1. Forgotten(session.verifying, c) \in SomeClient
    BY ForgottenType, Zenon DEF TypeOK, SessionFields
  <2> QED BY <2>1, Zenon DEF TypeOK, SessionFields
<1> QED
  BY <1>2, <1>3, Zenon DEF TypeOK

\* The types are preserved by every step of a request.
LEMMA TypeStepRequest ==
    ASSUME TypeOK, CallInv, NEW r \in Calls,
           \/ RequestServed(r) \/ RequestVerifies(r) \/ RequestJoins(r) \/ RequestOpens(r)
           \/ AskAnswered(r) \/ RequestAnswered(r) \/ CallStep(r)
    PROVE  TypeOK'
<1>0. call[r] \in Requests /\ session \in SessionFields /\ session.client \in SomeClient
      /\ \A c \in Clients : conn[c] \in Connections
  BY Zenon DEF TypeOK, SessionFields
<1>1. ASSUME NEW x \in Requests, call' = [call EXCEPT ![r] = x],
             UNCHANGED <<session, conn, opening, verify, close>>
      PROVE  TypeOK'
  BY <1>1, Zenon DEF TypeOK
<1>2. CASE RequestServed(r)
  <2>1. session.client \in Clients
    BY <1>0, <1>2, Zenon DEF RequestServed, Connected, SomeClient
  <2> QED
    BY <1>0, <1>1, <1>2, <2>1, HandedType, Zenon DEF RequestServed
<1>3. CASE RequestVerifies(r)
  <2>1. session.client \in Clients
    BY <1>0, <1>3, Zenon DEF RequestVerifies, Connected, SomeClient
  <2>2. CASE session.verifying # None
    <3>1. session.verifying \in SomeClient
      BY <1>0, Zenon DEF SessionFields
    <3>2. call' \in [Calls -> Requests]
      BY <1>3, <2>2, <3>1, WaitsType, Zenon DEF RequestVerifies, TypeOK
    <3> QED
      BY <1>3, <2>2, <3>2, Zenon DEF RequestVerifies, TypeOK
  <2>3. CASE session.verifying = None
    <3>1. session' \in SessionFields
      BY <1>0, <1>3, <2>1, <2>3, Zenon DEF RequestVerifies, SessionFields, SomeClient
    <3>2. conn[session.client].drops \in Links /\ session.epoch \in Nat
      BY <1>0, <2>1, Zenon DEF Connections, SessionFields
    <3>3. [NotVerifying EXCEPT !.pc = "ask", !.epoch = session.epoch, !.drops = conn[session.client].drops] \in Verifications
      BY <3>2, Zenon DEF NotVerifying, Verifications, Says, Errors
    <3>4. verify' \in [Clients -> Verifications]
      BY <1>3, <2>3, <2>1, <3>3, Zenon DEF RequestVerifies, TypeOK
    <3>5. call' \in [Calls -> Requests]
      BY <1>3, <2>1, <2>3, WaitsType, Zenon DEF RequestVerifies, TypeOK, SomeClient
    <3> QED
      BY <1>3, <3>1, <3>4, <3>5, Zenon DEF RequestVerifies, TypeOK
  <2> QED
    BY <2>2, <2>3, Zenon
<1>4. CASE RequestJoins(r)
  <2>1. session.connecting \in SomeClient
    BY <1>0, Zenon DEF SessionFields
  <2>2. call' \in [Calls -> Requests]
    BY <1>4, <2>1, WaitsType, Zenon DEF RequestJoins, TypeOK
  <2> QED
    BY <1>4, <2>2, Zenon DEF RequestJoins, TypeOK
<1>5. CASE RequestOpens(r)
  <2> DEFINE stale == session.client
  <2>1. PICK c \in Clients :
          /\ Waits(r, "opening", c)
          /\ session' = [session EXCEPT !.client = None, !.connecting = c]
          /\ opening' = [opening EXCEPT ![c].pc = IF stale = None THEN "connect" ELSE "stale",
                                        ![c].epoch = session.epoch]
          /\ conn' = IF stale = None THEN [conn EXCEPT ![c].state = "opening"] ELSE Released(stale)
    BY <1>5, Zenon DEF RequestOpens, Fresh
  <2>2. call' \in [Calls -> Requests]
    BY <2>1, WaitsType, Zenon DEF TypeOK, SomeClient
  <2>3. session' \in SessionFields
    BY <1>0, <2>1, Constants, Zenon DEF SessionFields, SomeClient
  <2>4. opening' \in [Clients -> Openings]
    <3> DEFINE x == [opening[c] EXCEPT !.pc = IF stale = None THEN "connect" ELSE "stale",
                                       !.epoch = session.epoch]
    <3>1. x \in Openings
      BY <1>0, ZenonT(60) DEF TypeOK, Openings, SessionFields
    <3>2. opening' = [opening EXCEPT ![c] = x]
      BY <2>1, Zenon DEF TypeOK
    <3> QED
      BY <3>1, <3>2, Zenon DEF TypeOK
  <2>5. conn' \in [Clients -> Connections]
    <3>1. [conn EXCEPT ![c].state = "opening"] \in [Clients -> Connections]
      BY Zenon DEF TypeOK, Connections
    <3> QED
      BY <1>0, <2>1, <3>1, ReleasedType, Zenon DEF TypeOK, SomeClient
  <2> QED
    BY <1>5, <2>2, <2>3, <2>4, <2>5, Zenon DEF RequestOpens, TypeOK
<1>6. ASSUME NEW net \in Says, call[r].on \in Clients PROVE
        /\ [call[r] EXCEPT !.pc = "dag", !.server = net, !.link = conn[call[r].on].drops] \in Requests
        /\ [call[r] EXCEPT !.pc = "sent", !.server = "silent", !.reached = conn[call[r].on].net] \in Requests
  BY <1>0, <1>6, Zenon DEF Requests, Connections, Says
<1>7. CASE AskAnswered(r) \/ AskSilent(r)
  <2>1. call[r].on \in Clients
    BY <1>7, Zenon DEF AskAnswered, AskSilent, Asks, CallInv, CallAt
  <2>2. conn[call[r].on].net \in Says /\ "silent" \in Says
    BY <1>0, <2>1, Zenon DEF Connections, Says
  <2>3. PICK net \in Says : IF call[r].pc = "server" THEN ServerSays(r, net) ELSE DagSays(r, net)
    BY <1>7, <2>2, Zenon DEF AskAnswered, AskSilent
  <2>4. UNCHANGED <<session, conn, opening, verify, close>>
    BY <1>7, Zenon DEF AskAnswered, AskSilent
  <2>5. CASE call[r].pc = "server"
    <3> DEFINE x == [call[r] EXCEPT !.pc = "dag", !.server = net, !.link = conn[call[r].on].drops]
    <3>1. x \in Requests
      BY <1>6, <2>1, Zenon
    <3>2. call' = [call EXCEPT ![r] = x]
      BY <2>3, <2>5, Zenon DEF ServerSays, TypeOK
    <3> QED BY <1>1, <2>4, <3>1, <3>2, Zenon
  <2>6. CASE call[r].pc # "server"
    <3> DEFINE x == IF Identified(call[r].server, net)
                    THEN [call[r] EXCEPT !.pc = "sent", !.server = "silent",
                                         !.reached = conn[call[r].on].net]
                    ELSE Failed(r, "refused")
    <3>1. x \in Requests
      BY <1>0, <1>6, <2>1, FailedType, Zenon
    <3>2. call' = [call EXCEPT ![r] = x]
      BY <2>3, <2>6, Zenon DEF DagSays
    <3> QED BY <1>1, <2>4, <3>1, <3>2, Zenon
  <2> QED BY <2>5, <2>6, Zenon
<1>8. CASE RequestAnswered(r)
  <2>1. Ended(r, "answered") \in Requests
    BY <1>0, EndedType, Zenon DEF Outcomes
  <2> QED
    BY <1>0, <1>1, <1>8, <2>1, FailedType, Zenon DEF RequestAnswered
<1>9. CASE AskLost(r) \/ RequestTimesOut(r) \/ LostReleased(r)
  BY <1>0, <1>1, <1>9, FailedType, Zenon DEF AskLost, RequestTimesOut, LostReleased
<1>10. CASE RequestLost(r)
  <2>1. call[r].on \in Clients
    BY <1>10, Zenon DEF RequestLost, CallInv, CallAt
  <2>2. session' \in SessionFields
    <3>1. Forgotten(session.client, call[r].on) \in SomeClient
      BY <1>0, ForgottenType, Zenon
    <3> QED BY <1>0, <1>10, <3>1, Zenon DEF RequestLost, SessionFields
  <2>3. [call[r] EXCEPT !.pc = "lost"] \in Requests
    BY <1>0, Zenon DEF Requests
  <2> QED
    BY <1>10, <2>1, <2>2, <2>3, ReleasedType, Zenon DEF RequestLost, TypeOK
<1> QED
  BY <1>2, <1>3, <1>4, <1>5, <1>7, <1>8, <1>9, <1>10, Zenon DEF CallStep

\* ... of the official client, of an opening and of a verification ...
LEMMA TypeStepClient ==
    ASSUME TypeOK, NEW c \in Clients,
           \/ ConnectSucceeds(c) \/ OpenAnswered(c) \/ OpenStep(c)
           \/ VerifyAnswered(c) \/ VerifyStep(c) \/ Drop(c) \/ Resume(c)
    PROVE  TypeOK'
<1>0. /\ session \in SessionFields /\ conn[c] \in Connections /\ opening[c] \in Openings
      /\ verify[c] \in Verifications /\ conn[c].net \in Says /\ conn[c].drops \in Links
      /\ \A x \in {"client", "verified"} : session[x] \in SomeClient
  BY Zenon DEF TypeOK, SessionFields, Connections
<1>1. \A r \in Calls : Handed(r, c) \in Requests
  BY <1>0, HandedType, Zenon DEF TypeOK
<1>2. \A r \in Calls, err \in Errors : Failed(r, err) \in Requests
  BY FailedType, Zenon DEF TypeOK
<1>3. {"connection", "refused"} \subseteq Errors /\ Nets \subseteq Says
  BY Zenon DEF Errors, Says
<1>4. CASE ConnectSucceeds(c)
  <2>1. PICK net \in Nets : conn' = [conn EXCEPT ![c].state = "up", ![c].net = net]
    BY <1>4, Zenon DEF ConnectSucceeds
  <2>2. [conn[c] EXCEPT !.state = "up", !.net = net] \in Connections
    BY <1>0, <1>3, Zenon DEF Connections
  <2>3. conn' = [conn EXCEPT ![c] = [conn[c] EXCEPT !.state = "up", !.net = net]]
    BY <2>1, Zenon DEF TypeOK
  <2>4. [opening[c] EXCEPT !.pc = "ask"] \in Openings
    BY <1>0, Zenon DEF Openings
  <2> QED
    BY <1>4, <2>2, <2>3, <2>4, Zenon DEF ConnectSucceeds, TypeOK
<1>5. CASE StaleReleased(c)
  <2>1. [opening[c] EXCEPT !.pc = "connect"] \in Openings /\ [conn[c] EXCEPT !.state = "opening"] \in Connections
    BY <1>0, Zenon DEF Openings, Connections
  <2> QED
    BY <1>5, <2>1, Zenon DEF StaleReleased, TypeOK
<1>6. CASE OpenAnswered(c)
  <2>1. [opening[c] EXCEPT !.pc = "told", !.said = conn[c].net] \in Openings
    BY <1>0, Zenon DEF Openings
  <2>2. opening' = [opening EXCEPT ![c] = [opening[c] EXCEPT !.pc = "told", !.said = conn[c].net]]
    BY <1>6, Zenon DEF OpenAnswered, TypeOK
  <2> QED
    BY <1>6, <2>1, <2>2, ZenonT(60) DEF OpenAnswered, TypeOK
<1>7. CASE ConnectFails(c) \/ OpenAskFails(c)
  BY <1>3, <1>7, OpenFailsType, Zenon DEF ConnectFails, OpenAskFails
<1>8. CASE OpenDecides(c)
  <2>1. CASE \E err \in {"connection", "refused"} : OpenFails(c, err)
    BY <1>3, <2>1, OpenFailsType, Zenon
  <2>2. CASE ~ \E err \in {"connection", "refused"} : OpenFails(c, err)
    <3>1. /\ opening' = [opening EXCEPT ![c].pc = "done", ![c].said = "silent"]
          /\ session' = [session EXCEPT !.client = c, !.verified = c,
                                        !.connecting = Forgotten(@, c)]
          /\ call' = [r \in Calls |-> IF call[r].pc = "opening" /\ call[r].on = c THEN Handed(r, c) ELSE call[r]]
          /\ UNCHANGED <<conn, verify, close>>
      BY <1>8, <2>2, Zenon DEF OpenDecides, Settle
    <3>2. [opening[c] EXCEPT !.pc = "done", !.said = "silent"] \in Openings
      BY <1>0, Zenon DEF Openings, Says
    <3>3. opening' = [opening EXCEPT ![c] = [opening[c] EXCEPT !.pc = "done", !.said = "silent"]]
      BY <3>1, Zenon DEF TypeOK
    <3>4. session' \in SessionFields
      <4>1. Forgotten(session.connecting, c) \in SomeClient /\ c \in SomeClient
        BY <1>0, ForgottenType, Zenon DEF SessionFields, SomeClient
      <4> QED BY <1>0, <3>1, <4>1, Zenon DEF SessionFields
    <3>5. call' \in [Calls -> Requests]
      BY <1>1, <3>1, Zenon DEF TypeOK
    <3> QED
      BY <3>1, <3>2, <3>3, <3>4, <3>5, ZenonT(60) DEF TypeOK
  <2> QED BY <2>1, <2>2, Zenon
<1>9. CASE OpenRejects(c)
  <2>1. [opening[c] EXCEPT !.pc = "done", !.err = "none"] \in Openings
    BY <1>0, Zenon DEF Openings, Errors
  <2>2. opening' = [opening EXCEPT ![c] = [opening[c] EXCEPT !.pc = "done", !.err = "none"]]
    BY <1>9, Zenon DEF OpenRejects, TypeOK
  <2>3. session' \in SessionFields
    <3>1. Forgotten(session.connecting, c) \in SomeClient
      BY <1>0, ForgottenType, Zenon DEF SessionFields
    <3> QED BY <1>0, <1>9, <3>1, Zenon DEF OpenRejects, SessionFields
  <2>4. call' \in [Calls -> Requests]
    BY <1>9, FailedType, Zenon DEF OpenRejects, Settle, TypeOK
  <2> QED
    BY <1>9, <2>1, <2>2, <2>3, <2>4, Zenon DEF OpenRejects, TypeOK
<1>10. CASE VerifyAnswered(c)
  <2>1. [verify[c] EXCEPT !.pc = "told", !.said = conn[c].net] \in Verifications
    BY <1>0, Zenon DEF Verifications
  <2>2. verify' = [verify EXCEPT ![c] = [verify[c] EXCEPT !.pc = "told", !.said = conn[c].net]]
    BY <1>10, Zenon DEF VerifyAnswered, TypeOK
  <2> QED
    BY <1>10, <2>1, <2>2, ZenonT(60) DEF VerifyAnswered, TypeOK
<1>11. CASE VerifyStep(c)
  <2>1. CASE \E err \in {"connection", "refused"} : Discard(c, err)
    BY <1>3, <2>1, DiscardType, Zenon
  <2>2. CASE ~ \E err \in {"connection", "refused"} : Discard(c, err)
    <3>1. \E verified \in SomeClient :
            /\ verify' = [verify EXCEPT ![c] = NotVerifying]
            /\ session' = [session EXCEPT !.verifying = Forgotten(@, c), !.verified = verified]
      BY <1>0, <1>11, <2>2, Zenon DEF VerifyStep, VerifyAskFails, VerifyDecides, VerifyRejects,
         VerifyEnds, SomeClient
    <3>2. UNCHANGED <<conn, opening, close>>
      BY <1>11, <2>2, Zenon DEF VerifyStep, VerifyAskFails, VerifyDecides, VerifyRejects, VerifyEnds
    <3>3. \/ \E err \in Errors :
               call' = [r \in Calls |-> IF call[r].pc = "verifying" /\ call[r].on = c THEN Failed(r, err) ELSE call[r]]
          \/ call' = [r \in Calls |-> IF call[r].pc = "verifying" /\ call[r].on = c THEN Handed(r, c) ELSE call[r]]
      <4>1. verify[c].err \in Errors
        BY <1>0, Zenon DEF Verifications
      <4> QED
        BY <1>3, <1>11, <2>2, <4>1, Zenon
        DEF VerifyStep, VerifyAskFails, VerifyDecides, VerifyRejects, VerifyEnds, Settle
    <3>4. call' \in [Calls -> Requests]
      BY <1>1, <1>2, <3>3, Zenon DEF TypeOK
    <3> QED BY <3>1, <3>2, <3>4, VerifyEndsType, Zenon
  <2> QED BY <2>1, <2>2, Zenon
<1>12. CASE Drop(c)
  <2>1. conn[c].drops + 1 \in Links
    BY <1>0, <1>12, SessionAssumption, SMTT(30) DEF Drop, Links
  <2>2. [conn[c] EXCEPT !.state = "down", !.drops = conn[c].drops + 1, !.net = "silent"] \in Connections
    BY <1>0, <2>1, Zenon DEF Connections, Says
  <2>3. conn' = [conn EXCEPT ![c] = [conn[c] EXCEPT !.state = "down", !.drops = conn[c].drops + 1, !.net = "silent"]]
    BY <1>12, Zenon DEF Drop, TypeOK
  <2>4. session' \in SessionFields
    <3>1. Forgotten(session.verified, c) \in SomeClient
      BY <1>0, ForgottenType, Zenon DEF SessionFields
    <3> QED BY <1>0, <1>12, <3>1, Zenon DEF Drop, SessionFields
  <2>5. UNCHANGED <<opening, verify, call, close>>
    BY <1>12, Zenon DEF Drop
  <2> QED
    BY <2>2, <2>3, <2>4, <2>5, Zenon DEF TypeOK
<1>13. CASE Resume(c)
  <2>1. PICK net \in Nets : conn' = [conn EXCEPT ![c].state = "up", ![c].net = net]
    BY <1>13, Zenon DEF Resume
  <2>2. [conn[c] EXCEPT !.state = "up", !.net = net] \in Connections
    BY <1>0, <1>3, ZenonT(60) DEF Connections
  <2>3. conn' = [conn EXCEPT ![c] = [conn[c] EXCEPT !.state = "up", !.net = net]]
    BY <2>1, ZenonT(60) DEF TypeOK
  <2> QED
    BY <1>13, <2>2, <2>3, Zenon DEF Resume, TypeOK
<1> QED
  BY <1>4, <1>5, <1>6, <1>7, <1>8, <1>9, <1>10, <1>11, <1>12, <1>13, Zenon DEF OpenStep

\* ... and of a close().
LEMMA TypeStep ==
    ASSUME TypeOK, CallInv, [Next]_vars
    PROVE  TypeOK'
<1>1. ASSUME NEW k \in Closes, Close(k) PROVE TypeOK'
  <2>0. session.client \in SomeClient /\ session.connecting \in SomeClient /\ session.closing \in SomeClose
        /\ session.epoch \in Nat /\ session.epoch + 1 \in Nat
    BY SMTT(30) DEF TypeOK, SessionFields
  <2>1. close' \in [Closes -> Closings]
    <3> DEFINE x == [pc |-> IF session.client = None THEN "wait" ELSE "release",
                     epoch |-> session.epoch + 1, connecting |-> session.connecting,
                     previous |-> session.closing]
    <3>1. x \in Closings
      BY <2>0, Zenon DEF Closings
    <3> QED BY <1>1, <3>1, Zenon DEF Close, TypeOK
  <2>2. conn' \in [Clients -> Connections]
    BY <1>1, <2>0, ReleasedType, Zenon DEF Close, ReleasedIf, TypeOK, SomeClient
  <2>3. session' \in SessionFields
    BY <1>1, <2>0, Constants, Zenon DEF Close, SessionFields, SomeClose
  <2> QED
    BY <1>1, <2>1, <2>2, <2>3, Zenon DEF Close, TypeOK
<1>2. ASSUME NEW k \in Closes, CloseReleased(k) PROVE TypeOK'
  <2>1. [close[k] EXCEPT !.pc = "wait"] \in Closings
    BY Zenon DEF TypeOK, Closings
  <2> QED
    BY <1>2, <2>1, Zenon DEF CloseReleased, TypeOK
<1>3. ASSUME NEW k \in Closes, CloseReturns(k) PROVE TypeOK'
  <2>1. [close[k] EXCEPT !.pc = "done"] \in Closings
    BY Zenon DEF TypeOK, Closings
  <2>2. session' \in SessionFields
    BY <1>3, Constants, Zenon DEF CloseReturns, TypeOK, SessionFields
  <2> QED
    BY <1>3, <2>1, <2>2, Zenon DEF CloseReturns, TypeOK
<1>4. CASE UNCHANGED vars
  BY <1>4, Zenon DEF vars, TypeOK
<1> QED
  BY <1>1, <1>2, <1>3, <1>4, TypeStepRequest, TypeStepClient, Zenon DEF Next, CloseStep

-----------------------------------------------------------------------------
(* The steps, field by field, as the session, its openings, verifications and *)
(* connections see them.                                                       *)
Others(f, g, c) == \A d \in Clients \ {c} : g[d] = f[d]
OtherCloses(k) == \A j \in Closes \ {k} : close'[j] = close[j]
SameClient == session'.client = session.client
SameConnecting == session'.connecting = session.connecting
SameVerified == session'.verified = session.verified
SameEpoch == session'.epoch = session.epoch
SameClosing == session'.closing = session.closing

\* The connection of client c is released.
Releases(c) == conn'[c].state = "released" /\ conn'[c].drops = conn[c].drops /\ Others(conn, conn', c)

\* Client c is opened; the one before it is released.
Opens(c) ==
    /\ opening[c].pc = "unused" /\ session.connecting = None
    /\ session'.client = None /\ session'.connecting = c /\ SameVerified /\ SameEpoch /\ SameClosing
    /\ opening'[c].epoch = session.epoch /\ Others(opening, opening', c)
    /\ \/ /\ session.client = None /\ opening'[c].pc = "connect"
          /\ conn'[c].state = "opening" /\ conn'[c].drops = conn[c].drops /\ Others(conn, conn', c)
       \/ session.client \in Clients /\ opening'[c].pc = "stale" /\ Releases(session.client)
    /\ UNCHANGED <<verify, close>>

\* A verification of client c starts.
Asked(c) ==
    /\ session.client = c /\ SameClient /\ SameConnecting /\ SameVerified /\ SameEpoch /\ SameClosing
    /\ verify'[c].pc = "ask" /\ verify'[c].drops = conn[c].drops /\ Others(verify, verify', c)
    /\ UNCHANGED <<conn, opening, close>>

\* Client c is found dead.
Loses(c) ==
    /\ opening[c].pc = "done" /\ Releases(c)
    /\ session'.client = Forgotten(session.client, c)
    /\ SameConnecting /\ SameVerified /\ SameEpoch /\ SameClosing
    /\ UNCHANGED <<opening, verify, close>>

\* An opening goes on, with the connection of its client.
Connects(c) ==
    /\ \/ opening[c].pc = "stale" /\ opening'[c].pc = "connect" /\ conn'[c].state = "opening"
       \/ opening[c].pc = "connect" /\ opening'[c].pc = "ask" /\ conn'[c].state = "up"
    /\ opening'[c].epoch = opening[c].epoch /\ Others(opening, opening', c)
    /\ conn'[c].drops = conn[c].drops /\ Others(conn, conn', c)
    /\ UNCHANGED <<session, verify, close>>

\* ... is told the node's network ...
Told(c) ==
    /\ opening[c].pc = "ask" /\ opening'[c].pc = "told" /\ opening'[c].said = conn[c].net
    /\ opening'[c].epoch = opening[c].epoch /\ Others(opening, opening', c)
    /\ UNCHANGED <<session, conn, verify, close>>

\* ... fails ...
Fails(c) ==
    /\ opening[c].pc \in {"connect", "ask", "told"} /\ opening'[c].pc = "failing"
    /\ opening'[c].epoch = opening[c].epoch /\ Others(opening, opening', c)
    /\ Releases(c)
    /\ UNCHANGED <<session, verify, close>>

\* ... succeeds ...
Succeeds(c) ==
    /\ opening[c].pc = "told" /\ opening[c].said = "expected"
    /\ opening[c].epoch = session.epoch /\ conn[c].drops = 0
    /\ opening'[c].pc = "done" /\ opening'[c].epoch = opening[c].epoch /\ Others(opening, opening', c)
    /\ session'.client = c /\ session'.verified = c
    /\ session'.connecting = Forgotten(session.connecting, c) /\ SameEpoch /\ SameClosing
    /\ UNCHANGED <<conn, verify, close>>

\* ... or rejects.
Rejects(c) ==
    /\ opening[c].pc = "failing"
    /\ opening'[c].pc = "done" /\ opening'[c].epoch = opening[c].epoch /\ Others(opening, opening', c)
    /\ session'.connecting = Forgotten(session.connecting, c)
    /\ SameClient /\ SameVerified /\ SameEpoch /\ SameClosing
    /\ UNCHANGED <<conn, verify, close>>

\* A verification is answered ...
Hears(c) ==
    /\ verify[c].pc = "ask" /\ conn[c].state = "up" /\ conn[c].drops = verify[c].drops
    /\ verify'[c].pc = "told" /\ verify'[c].said = conn[c].net /\ verify'[c].drops = verify[c].drops
    /\ Others(verify, verify', c)
    /\ UNCHANGED <<session, conn, opening, close>>

\* ... discards the client ...
Discards(c) ==
    /\ verify[c].pc # "idle" /\ verify'[c].pc = "failing" /\ verify'[c].drops = 0
    /\ Others(verify, verify', c)
    /\ session'.client = Forgotten(session.client, c)
    /\ session'.verified = Forgotten(session.verified, c)
    /\ SameConnecting /\ SameEpoch /\ SameClosing
    /\ Releases(c)
    /\ UNCHANGED <<opening, close>>

\* ... or ends, with the verdict of before or a new one.
Settles(c) ==
    /\ verify'[c].pc = "idle" /\ Others(verify, verify', c)
    /\ SameClient /\ SameConnecting /\ SameEpoch /\ SameClosing
    /\ \/ SameVerified
       \/ /\ verify[c].pc = "told" /\ verify[c].said = "expected"
          /\ conn[c].drops = verify[c].drops /\ session.client = c /\ session'.verified = c
    /\ UNCHANGED <<conn, opening, close>>

\* The official client drops its connection, or resumes.
Drops(c) ==
    /\ conn[c].state = "up" /\ conn'[c].state = "down" /\ conn'[c].drops = conn[c].drops + 1
    /\ Others(conn, conn', c)
    /\ session'.verified = Forgotten(session.verified, c)
    /\ SameClient /\ SameConnecting /\ SameEpoch /\ SameClosing
    /\ UNCHANGED <<opening, verify, close>>

Resumes(c) ==
    /\ conn[c].state = "down" /\ opening[c].pc # "told" /\ verify[c].pc # "told"
    /\ conn'[c].state = "up" /\ conn'[c].drops = conn[c].drops /\ Others(conn, conn', c)
    /\ UNCHANGED <<session, opening, verify, close>>

\* A close() begins, goes on, returns.
Begins(k) ==
    /\ close[k].pc = "idle" /\ close'[k].pc \in {"wait", "release"}
    /\ close'[k].epoch = session.epoch + 1 /\ close'[k].connecting = session.connecting
    /\ close'[k].previous = session.closing /\ OtherCloses(k)
    /\ session'.client = None /\ session'.connecting = None /\ session'.verified = None
    /\ session'.epoch = session.epoch + 1 /\ session'.closing = k
    /\ IF session.client = None THEN UNCHANGED conn ELSE Releases(session.client)
    /\ UNCHANGED <<opening, verify>>

Continues(k) ==
    /\ close[k].pc = "release" /\ close'[k].pc = "wait"
    /\ close'[k].epoch = close[k].epoch /\ close'[k].connecting = close[k].connecting
    /\ close'[k].previous = close[k].previous /\ OtherCloses(k)
    /\ UNCHANGED <<session, conn, opening, verify>>

Returns(k) ==
    /\ close[k].pc = "wait" /\ close'[k].pc = "done"
    /\ close[k].connecting # None => opening[close[k].connecting].pc = "done"
    /\ close[k].previous # NoClose => close[close[k].previous].pc = "done"
    /\ close'[k].epoch = close[k].epoch /\ close'[k].connecting = close[k].connecting
    /\ close'[k].previous = close[k].previous /\ OtherCloses(k)
    /\ session'.closing = IF session.closing = k THEN NoClose ELSE session.closing
    /\ SameClient /\ SameConnecting /\ SameVerified /\ SameEpoch
    /\ UNCHANGED <<conn, opening, verify>>

ClientKind(c) ==
    \/ Opens(c) \/ Asked(c) \/ Loses(c) \/ Connects(c) \/ Told(c) \/ Fails(c) \/ Succeeds(c)
    \/ Rejects(c) \/ Hears(c) \/ Discards(c) \/ Settles(c) \/ Drops(c) \/ Resumes(c)
CloseKind(k) == Begins(k) \/ Continues(k) \/ Returns(k)
Nothing == UNCHANGED <<session, conn, opening, verify, close>>

\* A request takes one of these steps, or changes nothing but itself.
LEMMA RequestKinds ==
    ASSUME TypeOK, CallInv, NEW r \in Calls,
           \/ RequestServed(r) \/ RequestVerifies(r) \/ RequestJoins(r) \/ RequestOpens(r)
           \/ AskAnswered(r) \/ RequestAnswered(r) \/ CallStep(r)
    PROVE  Nothing \/ \E c \in Clients : ClientKind(c)
<1> USE DEF SameClient, SameConnecting, SameVerified, SameEpoch, SameClosing
<1>1. CASE RequestServed(r) \/ RequestJoins(r) \/ AskAnswered(r) \/ RequestAnswered(r) \/ AskSilent(r)
           \/ AskLost(r) \/ RequestTimesOut(r) \/ LostReleased(r)
  BY <1>1, Zenon DEF RequestServed, RequestJoins, AskAnswered, RequestAnswered, AskSilent,
     AskLost, RequestTimesOut, LostReleased, Nothing
<1>0. /\ session \in SessionFields /\ session.client \in SomeClient
      /\ conn \in [Clients -> Connections] /\ opening \in [Clients -> Openings]
      /\ verify \in [Clients -> Verifications]
  BY Zenon DEF TypeOK, SessionFields
<1>2. CASE RequestVerifies(r)
  <2> DEFINE c == session.client
  <2>1. c \in Clients
    BY <1>0, <1>2, Zenon DEF RequestVerifies, Connected, SomeClient
  <2>2. CASE session.verifying # None
    BY <1>2, <2>2, Zenon DEF RequestVerifies, Nothing
  <2>3. CASE session.verifying = None
    <3>1. SameClient /\ SameConnecting /\ SameVerified /\ SameEpoch /\ SameClosing
      BY <1>0, <1>2, <2>3, Zenon DEF RequestVerifies, SessionFields
    <3>2. verify' = [verify EXCEPT ![c] = [NotVerifying EXCEPT !.pc = "ask", !.epoch = session.epoch, !.drops = conn[c].drops]]
      BY <1>2, <2>3, Zenon DEF RequestVerifies
    <3>3. verify'[c].pc = "ask" /\ verify'[c].drops = conn[c].drops
      BY <1>0, <2>1, <3>2, Zenon DEF NotVerifying
    <3>4. Others(verify, verify', c)
      BY <1>0, <3>2, Zenon DEF Others
    <3>5. UNCHANGED <<conn, opening, close>>
      BY <1>2, Zenon DEF RequestVerifies
    <3> QED
      BY <2>1, <3>1, <3>3, <3>4, <3>5, Zenon DEF Asked, ClientKind
  <2> QED BY <2>2, <2>3, Zenon
<1>3. CASE RequestOpens(r)
  <2> DEFINE stale == session.client
  <2>1. PICK c \in Clients :
          /\ opening[c].pc = "unused"
          /\ session' = [session EXCEPT !.client = None, !.connecting = c]
          /\ opening' = [opening EXCEPT ![c].pc = IF stale = None THEN "connect" ELSE "stale",
                                        ![c].epoch = session.epoch]
          /\ conn' = IF stale = None THEN [conn EXCEPT ![c].state = "opening"] ELSE Released(stale)
    BY <1>3, Zenon DEF RequestOpens, Fresh
  <2>2. session'.client = None /\ session'.connecting = c /\ SameVerified /\ SameEpoch /\ SameClosing
    BY <1>0, <2>1, Zenon DEF SessionFields
  <2>3. opening'[c].epoch = session.epoch /\ opening'[c].pc = IF stale = None THEN "connect" ELSE "stale"
    BY <1>0, <2>1, Zenon DEF Openings
  <2>4. Others(opening, opening', c)
    BY <1>0, <2>1, Zenon DEF Others
  <2>5. CASE stale = None
    <3>1. conn' = [conn EXCEPT ![c].state = "opening"]
      BY <2>1, <2>5, Zenon
    <3>2. conn'[c].state = "opening" /\ conn'[c].drops = conn[c].drops /\ Others(conn, conn', c)
      BY <1>0, <3>1, Zenon DEF Connections, Others
    <3> QED
      BY <1>3, <2>1, <2>2, <2>3, <2>4, <2>5, <3>2, Zenon DEF RequestOpens, Opens, ClientKind
  <2>6. CASE stale # None
    <3>1. stale \in Clients /\ conn' = Released(stale)
      BY <1>0, <2>1, <2>6, Zenon DEF SomeClient
    <3>2. Releases(stale)
      BY <1>0, <3>1, ZenonT(60) DEF Connections, Others, Released, Releases
    <3> QED
      BY <1>3, <2>1, <2>2, <2>3, <2>4, <2>6, <3>1, <3>2, Zenon DEF RequestOpens, Opens, ClientKind
  <2> QED BY <2>5, <2>6, Zenon
<1>4. CASE RequestLost(r)
  <2> DEFINE c == call[r].on
  <2>1. c \in Clients /\ opening[c].pc = "done"
    BY <1>4, Zenon DEF RequestLost, CallInv, CallAt
  <2>2. Releases(c)
    BY <1>0, <1>4, <2>1, ZenonT(60) DEF RequestLost, Connections, Others, Released, Releases
  <2>3. session'.client = Forgotten(session.client, c) /\ SameConnecting /\ SameVerified /\ SameEpoch /\ SameClosing
    BY <1>0, <1>4, Zenon DEF RequestLost, SessionFields
  <2>4. UNCHANGED <<opening, verify, close>>
    BY <1>4, Zenon DEF RequestLost
  <2> QED
    BY <2>1, <2>2, <2>3, <2>4, Zenon DEF Loses, ClientKind
<1> QED
  BY <1>1, <1>2, <1>3, <1>4, Zenon DEF CallStep

\* So do the official client, an opening and a verification.
LEMMA ClientKinds ==
    ASSUME TypeOK, NEW c \in Clients,
           \/ ConnectSucceeds(c) \/ OpenAnswered(c) \/ OpenStep(c)
           \/ VerifyAnswered(c) \/ VerifyStep(c) \/ Drop(c) \/ Resume(c)
    PROVE  ClientKind(c)
<1> USE DEF SameClient, SameConnecting, SameVerified, SameEpoch, SameClosing
<1>0. /\ session \in SessionFields /\ conn \in [Clients -> Connections] /\ opening \in [Clients -> Openings]
      /\ verify \in [Clients -> Verifications]
  BY Zenon DEF TypeOK
<1>1. ASSUME conn' = Released(c) PROVE Releases(c)
  BY <1>0, <1>1, Zenon DEF Connections, Others, Released, Releases
<1>2. ASSUME NEW err, OpenFails(c, err), opening[c].pc \in {"connect", "ask", "told"} PROVE Fails(c)
  <2>1. opening'[c].pc = "failing" /\ opening'[c].epoch = opening[c].epoch /\ Others(opening, opening', c)
    BY <1>0, <1>2, Zenon DEF OpenFails, Openings, Others
  <2> QED
    BY <1>1, <1>2, <2>1, Zenon DEF OpenFails, Fails
<1>3. ASSUME NEW err, Discard(c, err), verify[c].pc # "idle" PROVE Discards(c)
  <2>1. verify' = [verify EXCEPT ![c] = [NotVerifying EXCEPT !.pc = "failing", !.err = err]]
    BY <1>3, Zenon DEF Discard
  <2>2. verify'[c].pc = "failing" /\ verify'[c].drops = 0 /\ Others(verify, verify', c)
    BY <1>0, <2>1, Zenon DEF NotVerifying, Others
  <2>3. /\ session'.client = Forgotten(session.client, c)
        /\ session'.verified = Forgotten(session.verified, c)
        /\ SameConnecting /\ SameEpoch /\ SameClosing
    BY <1>0, <1>3, Zenon DEF Discard, SessionFields
  <2> QED
    BY <1>1, <1>3, <2>2, <2>3, Zenon DEF Discard, Discards
<1>4. CASE ConnectSucceeds(c)
  <2>1. PICK net \in Nets : conn' = [conn EXCEPT ![c].state = "up", ![c].net = net]
    BY <1>4, Zenon DEF ConnectSucceeds
  <2>2. conn'[c].state = "up" /\ conn'[c].drops = conn[c].drops /\ Others(conn, conn', c)
    BY <1>0, <2>1, Zenon DEF Connections, Others
  <2>3. opening'[c].pc = "ask" /\ opening'[c].epoch = opening[c].epoch /\ Others(opening, opening', c)
    BY <1>0, <1>4, ZenonT(60) DEF ConnectSucceeds, Openings, Others
  <2> QED
    BY <1>4, <2>2, <2>3, Zenon DEF ConnectSucceeds, Connects, ClientKind
<1>5. CASE StaleReleased(c)
  <2>1. conn'[c].state = "opening" /\ conn'[c].drops = conn[c].drops /\ Others(conn, conn', c)
    BY <1>0, <1>5, Zenon DEF StaleReleased, Connections, Others
  <2>2. opening'[c].pc = "connect" /\ opening'[c].epoch = opening[c].epoch /\ Others(opening, opening', c)
    BY <1>0, <1>5, Zenon DEF StaleReleased, Openings, Others
  <2> QED
    BY <1>5, <2>1, <2>2, Zenon DEF StaleReleased, Connects, ClientKind
<1>6. CASE OpenAnswered(c)
  <2>1. /\ opening'[c].pc = "told" /\ opening'[c].said = conn[c].net
        /\ opening'[c].epoch = opening[c].epoch /\ Others(opening, opening', c)
    BY <1>0, <1>6, Zenon DEF OpenAnswered, Openings, Others
  <2> QED
    BY <1>6, <2>1, Zenon DEF OpenAnswered, Told, ClientKind
<1>7. CASE ConnectFails(c) \/ OpenAskFails(c)
  BY <1>2, <1>7, Zenon DEF ConnectFails, OpenAskFails, ClientKind
<1>8. CASE OpenDecides(c)
  <2>1. CASE \E err \in {"connection", "refused"} : OpenFails(c, err)
    BY <1>2, <1>8, <2>1, Zenon DEF OpenDecides, ClientKind
  <2>2. CASE ~ \E err \in {"connection", "refused"} : OpenFails(c, err)
    <3>1. /\ opening[c].pc = "told" /\ opening[c].said = "expected"
          /\ opening[c].epoch = session.epoch /\ conn[c].drops = 0
          /\ opening' = [opening EXCEPT ![c].pc = "done", ![c].said = "silent"]
          /\ session' = [session EXCEPT !.client = c, !.verified = c,
                                        !.connecting = Forgotten(@, c)]
          /\ UNCHANGED <<conn, verify, close>>
      BY <1>8, <2>2, Zenon DEF OpenDecides
    <3>2. opening'[c].pc = "done" /\ opening'[c].epoch = opening[c].epoch /\ Others(opening, opening', c)
      BY <1>0, <3>1, Zenon DEF Openings, Others
    <3>3. /\ session'.client = c /\ session'.verified = c
          /\ session'.connecting = Forgotten(session.connecting, c) /\ SameEpoch /\ SameClosing
      BY <1>0, <3>1, Zenon DEF SessionFields
    <3> QED
      BY <3>1, <3>2, <3>3, Zenon DEF Succeeds, ClientKind
  <2> QED BY <2>1, <2>2, Zenon
<1>9. CASE OpenRejects(c)
  <2>1. opening'[c].pc = "done" /\ opening'[c].epoch = opening[c].epoch /\ Others(opening, opening', c)
    BY <1>0, <1>9, Zenon DEF OpenRejects, Openings, Others
  <2>2. /\ session'.connecting = Forgotten(session.connecting, c)
        /\ SameClient /\ SameVerified /\ SameEpoch /\ SameClosing
    BY <1>0, <1>9, Zenon DEF OpenRejects, SessionFields
  <2> QED
    BY <1>9, <2>1, <2>2, Zenon DEF OpenRejects, Rejects, ClientKind
<1>10. CASE VerifyAnswered(c)
  <2>1. /\ verify'[c].pc = "told" /\ verify'[c].said = conn[c].net
        /\ verify'[c].drops = verify[c].drops /\ Others(verify, verify', c)
    BY <1>0, <1>10, Zenon DEF VerifyAnswered, Verifications, Others
  <2> QED
    BY <1>10, <2>1, Zenon DEF VerifyAnswered, Hears, ClientKind
<1>11. CASE VerifyStep(c)
  <2>1. CASE \E err \in {"connection", "refused"} : Discard(c, err)
    <3>1. verify[c].pc # "idle"
      BY <1>11, Zenon DEF VerifyStep, VerifyAskFails, VerifyDecides, VerifyRejects
    <3> QED
      BY <1>3, <2>1, <3>1, Zenon DEF ClientKind
  <2>2. CASE ~ \E err \in {"connection", "refused"} : Discard(c, err)
    <3>1. PICK verified :
            /\ verify' = [verify EXCEPT ![c] = NotVerifying]
            /\ session' = [session EXCEPT !.verifying = Forgotten(@, c), !.verified = verified]
            /\ UNCHANGED <<conn, opening, close>>
            /\ \/ verified = session.verified
               \/ /\ verify[c].pc = "told" /\ verify[c].said = "expected"
                  /\ conn[c].drops = verify[c].drops /\ session.client = c /\ verified = c
      BY <1>11, <2>2, Zenon DEF VerifyStep, VerifyAskFails, VerifyDecides, VerifyRejects, VerifyEnds
    <3>2. verify'[c].pc = "idle" /\ Others(verify, verify', c)
      BY <1>0, <3>1, Zenon DEF NotVerifying, Others
    <3>3. SameClient /\ SameConnecting /\ SameEpoch /\ SameClosing /\ session'.verified = verified
      BY <1>0, <3>1, Zenon DEF SessionFields
    <3> QED
      BY <3>1, <3>2, <3>3, Zenon DEF Settles, ClientKind
  <2> QED BY <2>1, <2>2, Zenon
<1>12. CASE Drop(c)
  <2>1. conn' = [conn EXCEPT ![c] = [conn[c] EXCEPT !.state = "down", !.drops = conn[c].drops + 1, !.net = "silent"]]
    BY <1>0, <1>12, Zenon DEF Drop
  <2>2. conn'[c].state = "down" /\ conn'[c].drops = conn[c].drops + 1 /\ Others(conn, conn', c)
    BY <1>0, <2>1, Zenon DEF Connections, Others
  <2>3. /\ session'.verified = Forgotten(session.verified, c)
        /\ SameClient /\ SameConnecting /\ SameEpoch /\ SameClosing
    BY <1>0, <1>12, Zenon DEF Drop, SessionFields
  <2>4. conn[c].state = "up" /\ UNCHANGED <<opening, verify, close>>
    BY <1>12, Zenon DEF Drop
  <2> QED
    BY <2>2, <2>3, <2>4, Zenon DEF Drops, ClientKind
<1>13. CASE Resume(c)
  <2>1. PICK net \in Nets : conn' = [conn EXCEPT ![c].state = "up", ![c].net = net]
    BY <1>13, Zenon DEF Resume
  <2>2. conn'[c].state = "up" /\ conn'[c].drops = conn[c].drops /\ Others(conn, conn', c)
    BY <1>0, <2>1, SMTT(30) DEF Connections, Others
  <2> QED
    BY <1>13, <2>2, Zenon DEF Resume, Resumes, ClientKind
<1> QED
  BY <1>4, <1>5, <1>6, <1>7, <1>8, <1>9, <1>10, <1>11, <1>12, <1>13, Zenon DEF OpenStep

\* Every step is one of these.
LEMMA StepKinds ==
    ASSUME TypeOK, CallInv, [Next]_vars
    PROVE  Nothing \/ (\E c \in Clients : ClientKind(c)) \/ (\E k \in Closes : CloseKind(k))
<1> USE DEF SameClient, SameConnecting, SameVerified, SameEpoch, SameClosing
<1>0. /\ session \in SessionFields /\ session.client \in SomeClient
      /\ conn \in [Clients -> Connections] /\ close \in [Closes -> Closings]
  BY Zenon DEF TypeOK, SessionFields
<1>1. ASSUME NEW k \in Closes, Close(k) PROVE CloseKind(k)
  <2>1. /\ close[k].pc = "idle" /\ close'[k].pc \in {"wait", "release"}
        /\ close'[k].epoch = session.epoch + 1 /\ close'[k].connecting = session.connecting
        /\ close'[k].previous = session.closing /\ OtherCloses(k)
    BY <1>0, <1>1, Zenon DEF Close, OtherCloses
  <2>2. /\ session'.client = None /\ session'.connecting = None /\ session'.verified = None
        /\ session'.epoch = session.epoch + 1 /\ session'.closing = k
    BY <1>1, Zenon DEF Close
  <2>3. IF session.client = None THEN UNCHANGED conn ELSE Releases(session.client)
    <3>1. CASE session.client = None
      BY <1>1, <3>1, Zenon DEF Close, ReleasedIf
    <3>2. CASE session.client # None
      <4>1. session.client \in Clients /\ conn' = Released(session.client)
        BY <1>0, <1>1, <3>2, Zenon DEF Close, ReleasedIf, SomeClient
      <4> QED
        BY <1>0, <3>2, <4>1, Zenon DEF Connections, Others, Released, Releases
    <3> QED BY <3>1, <3>2, Zenon
  <2> QED
    BY <1>1, <2>1, <2>2, <2>3, Zenon DEF Close, Begins, CloseKind
<1>2. ASSUME NEW k \in Closes, CloseReleased(k) PROVE CloseKind(k)
  <2>1. /\ close'[k].pc = "wait"
        /\ close'[k].epoch = close[k].epoch /\ close'[k].connecting = close[k].connecting
        /\ close'[k].previous = close[k].previous /\ OtherCloses(k)
    BY <1>0, <1>2, Zenon DEF CloseReleased, Closings, OtherCloses
  <2> QED
    BY <1>2, <2>1, Zenon DEF CloseReleased, Continues, CloseKind
<1>3. ASSUME NEW k \in Closes, CloseReturns(k) PROVE CloseKind(k)
  <2>1. /\ close'[k].pc = "done"
        /\ close'[k].epoch = close[k].epoch /\ close'[k].connecting = close[k].connecting
        /\ close'[k].previous = close[k].previous /\ OtherCloses(k)
    BY <1>0, <1>3, Zenon DEF CloseReturns, Closings, OtherCloses
  <2>2. /\ session'.closing = IF session.closing = k THEN NoClose ELSE session.closing
        /\ SameClient /\ SameConnecting /\ SameVerified /\ SameEpoch
    BY <1>0, <1>3, Zenon DEF CloseReturns, SessionFields
  <2> QED
    BY <1>3, <2>1, <2>2, Zenon DEF CloseReturns, Returns, CloseKind
<1>4. CASE UNCHANGED vars
  BY <1>4, Zenon DEF vars, Nothing
<1> QED
  BY <1>1, <1>2, <1>3, <1>4, RequestKinds, ClientKinds, Zenon DEF Next, CloseStep

-----------------------------------------------------------------------------
(* What the connections, the openings and the verdict have to do with each other *)

\* How far an opening is says what state its client's connection is in.
OpenAt(c) ==
    /\ opening[c].pc \in {"unused", "stale"} => conn[c].state = "none" /\ conn[c].drops = 0
    /\ opening[c].pc = "connect" => conn[c].state = "opening" /\ conn[c].drops = 0
    /\ opening[c].pc \in {"ask", "told"} => conn[c].state \in {"up", "down"}
    /\ opening[c].pc = "told" /\ conn[c].drops = 0 => conn[c].net = opening[c].said
    /\ opening[c].pc = "failing" => conn[c].state = "released"
    /\ opening[c].pc = "done" => conn[c].state \in {"up", "down", "released"}
    /\ conn[c].state = "down" => conn[c].drops # 0

OpenInv == \A c \in Clients : OpenAt(c)

\* The session's client was opened and is not released; a verdict is about a
\* connection of an opened client to a node of the expected network, or about
\* a client that is gone; a verification that was told a network was told the
\* network of the connection it asked on.
SessionInv ==
    /\ session.client # None =>
         opening[session.client].pc = "done" /\ conn[session.client].state \in {"up", "down"}
    /\ session.verified # None =>
         /\ opening[session.verified].pc = "done"
         /\ \/ conn[session.verified].state = "released"
            \/ conn[session.verified].state = "up" /\ conn[session.verified].net = "expected"
    /\ \A c \in Clients : verify[c].pc # "idle" =>
         /\ opening[c].pc = "done" /\ verify[c].drops <= conn[c].drops
         /\ verify[c].pc = "told" /\ conn[c].drops = verify[c].drops =>
              \/ conn[c].state = "released"
              \/ conn[c].state = "up" /\ conn[c].net = verify[c].said

\* Every step keeps what is known of the openings.
LEMMA OpenStepInv ==
    ASSUME TypeOK, CallInv, OpenInv, SessionInv, [Next]_vars
    PROVE  OpenInv'
<1>0. session.client \in SomeClient /\ \A c \in Clients : conn[c].drops \in Nat
  BY SMTT(30) DEF TypeOK, SessionFields, Connections, Links
<1> SUFFICES ASSUME NEW d \in Clients PROVE OpenAt(d)'
  BY Zenon DEF OpenInv
<1>1. ASSUME opening'[d] = opening[d], conn'[d] = conn[d] PROVE OpenAt(d)'
  BY <1>1, Zenon DEF OpenInv, OpenAt
<1>2. ASSUME opening'[d] = opening[d], opening[d].pc = "done", conn'[d].state = "released" PROVE OpenAt(d)'
  BY <1>2, Zenon DEF OpenAt
<1>3. ASSUME NEW c \in Clients, Opens(c) PROVE OpenAt(d)'
  <2> DEFINE stale == session.client
  <2>1. opening[c].pc = "unused" /\ conn[c].state = "none" /\ conn[c].drops = 0
    BY <1>3, Zenon DEF Opens, OpenInv, OpenAt
  <2>2. \/ /\ opening'[c].pc = "connect"
           /\ conn'[c].state = "opening" /\ conn'[c].drops = 0 /\ Others(conn, conn', c)
        \/ stale \in Clients /\ opening'[c].pc = "stale" /\ Releases(stale)
    BY <1>3, <2>1, Zenon DEF Opens
  <2>3. stale \in Clients => opening[stale].pc = "done" /\ stale # c
    BY <2>1, Constants, Zenon DEF SessionInv
  <2>4. d # c => opening'[d] = opening[d]
    BY <1>3, Zenon DEF Opens, Others
  <2>5. CASE d = c
    <3>1. \/ opening'[c].pc = "connect" /\ conn'[c].state = "opening" /\ conn'[c].drops = 0
          \/ opening'[c].pc = "stale" /\ conn'[c].state = "none" /\ conn'[c].drops = 0
      BY <2>1, <2>2, <2>3, Zenon DEF Releases, Others
    <3> QED BY <2>5, <3>1, Zenon DEF OpenAt
  <2>6. CASE d # c
    BY <1>1, <1>2, <2>2, <2>3, <2>4, <2>6, Zenon DEF Releases, Others
  <2> QED BY <2>5, <2>6, Zenon
<1>4. ASSUME NEW c \in Clients, Asked(c) PROVE OpenAt(d)'
  BY <1>1, <1>4, Zenon DEF Asked
<1>5. ASSUME NEW c \in Clients, Loses(c) PROVE OpenAt(d)'
  BY <1>1, <1>2, <1>5, Zenon DEF Loses, Others, Releases
<1>6. ASSUME NEW c \in Clients, Connects(c) PROVE OpenAt(d)'
  BY <1>1, <1>6, Zenon DEF Connects, Others, OpenInv, OpenAt
<1>7. ASSUME NEW c \in Clients, Told(c) PROVE OpenAt(d)'
  BY <1>1, <1>7, Zenon DEF Told, Others, OpenInv, OpenAt
<1>8. ASSUME NEW c \in Clients, Fails(c) PROVE OpenAt(d)'
  BY <1>1, <1>8, Zenon DEF Fails, Others, Releases, OpenInv, OpenAt
<1>9. ASSUME NEW c \in Clients, Succeeds(c) PROVE OpenAt(d)'
  BY <1>1, <1>9, Zenon DEF Succeeds, Others, OpenInv, OpenAt
<1>10. ASSUME NEW c \in Clients, Rejects(c) PROVE OpenAt(d)'
  BY <1>1, <1>10, Zenon DEF Rejects, Others, OpenInv, OpenAt
<1>11. ASSUME NEW c \in Clients, Hears(c) \/ Settles(c) PROVE OpenAt(d)'
  BY <1>1, <1>11, Zenon DEF Hears, Settles
<1>12. ASSUME NEW c \in Clients, Discards(c) PROVE OpenAt(d)'
  BY <1>1, <1>2, <1>12, ZenonT(60) DEF Discards, Others, Releases, SessionInv
<1>13. ASSUME NEW c \in Clients, Drops(c) PROVE OpenAt(d)'
  BY <1>0, <1>1, <1>13, SMTT(30) DEF Drops, Others, OpenInv, OpenAt
<1>14. ASSUME NEW c \in Clients, Resumes(c) PROVE OpenAt(d)'
  BY <1>1, <1>14, Zenon DEF Resumes, Others, OpenInv, OpenAt
<1>15. ASSUME NEW k \in Closes, Begins(k) PROVE OpenAt(d)'
  BY <1>0, <1>1, <1>2, <1>15, ZenonT(60) DEF Begins, Others, Releases, SessionInv, SomeClient
<1>16. ASSUME NEW k \in Closes, Continues(k) \/ Returns(k) PROVE OpenAt(d)'
  BY <1>1, <1>16, Zenon DEF Continues, Returns
<1>17. CASE Nothing
  BY <1>1, <1>17, Zenon DEF Nothing
<1> QED
  BY <1>3, <1>4, <1>5, <1>6, <1>7, <1>8, <1>9, <1>10, <1>11, <1>12, <1>13, <1>14, <1>15, <1>16, <1>17,
     StepKinds, Zenon DEF ClientKind, CloseKind

\* Every step keeps what is known of the session's client, its verdict and its
\* verifications.
LEMMA SessionStepInv ==
    ASSUME TypeOK, CallInv, OpenInv, SessionInv, [Next]_vars
    PROVE  SessionInv'
<1> DEFINE ClientOK == session.client # None =>
             opening[session.client].pc = "done" /\ conn[session.client].state \in {"up", "down"}
           VerdictOK == session.verified # None =>
             /\ opening[session.verified].pc = "done"
             /\ \/ conn[session.verified].state = "released"
                \/ conn[session.verified].state = "up" /\ conn[session.verified].net = "expected"
           VerifyOK(c) == verify[c].pc # "idle" =>
             /\ opening[c].pc = "done" /\ verify[c].drops <= conn[c].drops
             /\ verify[c].pc = "told" /\ conn[c].drops = verify[c].drops =>
                  \/ conn[c].state = "released"
                  \/ conn[c].state = "up" /\ conn[c].net = verify[c].said
           Goal == ClientOK /\ VerdictOK /\ \A c \in Clients : VerifyOK(c)
<1>0. /\ session.client \in SomeClient /\ session.verified \in SomeClient
      /\ session'.client \in SomeClient /\ session'.verified \in SomeClient
      /\ \A c \in Clients : conn[c].drops \in Nat /\ verify[c].drops \in Nat
  BY TypeStep, SMTT(30) DEF TypeOK, SessionFields, Connections, Verifications, Links
<1>a. Goal
  BY Zenon DEF SessionInv
<1>b. SUFFICES Goal'
  BY Zenon DEF SessionInv
<1>3. ASSUME NEW c \in Clients, Opens(c) PROVE Goal'
  BY <1>0, <1>a, <1>3, Constants, SMTT(30) DEF Opens, Others, Releases, SameVerified, SomeClient
<1>4. ASSUME NEW c \in Clients, Asked(c) PROVE Goal'
  BY <1>0, <1>a, <1>4, Constants, SMTT(30) DEF Asked, Others, SameVerified, SameClient, SomeClient
<1>5. ASSUME NEW c \in Clients, Loses(c) PROVE Goal'
  BY <1>0, <1>a, <1>5, Constants, SMTT(30) DEF Loses, Others, Releases, SameVerified, SomeClient,
     Forgotten
<1>6. ASSUME NEW c \in Clients, Connects(c) PROVE Goal'
  BY <1>0, <1>a, <1>6, Constants, SMTT(30) DEF Connects, Others, SomeClient
<1>7. ASSUME NEW c \in Clients, Told(c) PROVE Goal'
  BY <1>0, <1>a, <1>7, Constants, SMTT(30) DEF Told, Others, SomeClient
<1>8. ASSUME NEW c \in Clients, Fails(c) PROVE Goal'
  BY <1>0, <1>a, <1>8, Constants, SMTT(30) DEF Fails, Others, Releases, SomeClient
<1>9. ASSUME NEW c \in Clients, Succeeds(c) PROVE Goal'
  BY <1>0, <1>a, <1>9, Constants, SMTT(30) DEF Succeeds, Others, SomeClient, OpenInv, OpenAt
<1>10. ASSUME NEW c \in Clients, Rejects(c) PROVE Goal'
  BY <1>0, <1>a, <1>10, Constants, SMTT(30) DEF Rejects, Others, SomeClient, SameClient, SameVerified
<1>11. ASSUME NEW c \in Clients, Hears(c) PROVE Goal'
  BY <1>0, <1>a, <1>11, Constants, SMTT(30) DEF Hears, Others, SomeClient
<1>12. ASSUME NEW c \in Clients, Discards(c) PROVE Goal'
  BY <1>0, <1>a, <1>12, Constants, SMTT(30) DEF Discards, Others, Releases, SomeClient, Forgotten
<1>13. ASSUME NEW c \in Clients, Settles(c) PROVE Goal'
  BY <1>0, <1>a, <1>13, Constants, SMTT(30) DEF Settles, Others, SomeClient, SameClient, SameVerified
<1>14. ASSUME NEW c \in Clients, Drops(c) PROVE Goal'
  BY <1>0, <1>a, <1>14, Constants, SMTT(30) DEF Drops, Others, SomeClient, SameClient, Forgotten
<1>15. ASSUME NEW c \in Clients, Resumes(c) PROVE Goal'
  BY <1>0, <1>a, <1>15, Constants, SMTT(30) DEF Resumes, Others, SomeClient
<1>16. ASSUME NEW k \in Closes, Begins(k) PROVE Goal'
  <2>1. ClientOK' /\ VerdictOK' /\ UNCHANGED <<opening, verify>>
    BY <1>16, Zenon DEF Begins
  <2>2. ASSUME NEW c \in Clients PROVE VerifyOK(c)'
    <3>1. conn'[c] = conn[c] \/ (conn'[c].state = "released" /\ conn'[c].drops = conn[c].drops)
      BY <1>16, Zenon DEF Begins, Others, Releases
    <3> QED BY <1>a, <2>1, <3>1, ZenonT(60)
  <2> QED BY <2>1, <2>2, Zenon
<1>17. ASSUME NEW k \in Closes, Continues(k) \/ Returns(k) PROVE Goal'
  <2>1. UNCHANGED <<conn, opening, verify>> /\ SameClient /\ SameVerified
    BY <1>17, Zenon DEF Continues, Returns, SameClient, SameVerified
  <2> QED BY <1>a, <2>1, Zenon DEF SameClient, SameVerified
<1>18. CASE Nothing
  BY <1>a, <1>18, Zenon DEF Nothing
<1> QED
  BY <1>3, <1>4, <1>5, <1>6, <1>7, <1>8, <1>9, <1>10, <1>11, <1>12, <1>13, <1>14, <1>15, <1>16, <1>17, <1>18,
     StepKinds, Zenon DEF ClientKind, CloseKind

-----------------------------------------------------------------------------
(* The calls *)

\* An opening that is over stays over.
LEMMA DoneStays ==
    ASSUME TypeOK, CallInv, [Next]_vars, NEW d \in Clients, opening[d].pc = "done"
    PROVE  opening'[d].pc = "done"
<1>1. ASSUME NEW c \in Clients, ClientKind(c) PROVE opening'[d].pc = "done"
  BY <1>1, Zenon DEF ClientKind, Opens, Asked, Loses, Connects, Told, Fails, Succeeds, Rejects, Hears,
     Discards, Settles, Drops, Resumes, Others
<1>2. ASSUME NEW k \in Closes, CloseKind(k) PROVE opening'[d].pc = "done"
  BY <1>2, Zenon DEF CloseKind, Begins, Continues, Returns
<1> QED
  BY <1>1, <1>2, StepKinds, Zenon DEF Nothing

\* A call a step leaves alone stays right while its client stays opened.
LEMMA SameCall ==
    ASSUME TypeOK, CallInv, [Next]_vars, NEW q \in Calls, call'[q] = call[q]
    PROVE  CallAt(q)'
BY DoneStays, Zenon DEF CallInv, CallAt

\* A call handed an opened client is right: a broadcast has reached nobody yet, and
\* a request reaches the network its connection was verified to serve.
LEMMA HandedCall ==
    ASSUME TypeOK, CallInv, NEW q \in Calls, NEW c \in Clients,
           call[q].pc \in {"idle", "opening", "verifying"}, call'[q] = Handed(q, c),
           conn[c].net = "expected", opening'[c].pc = "done"
    PROVE  CallAt(q)'
<1>1. call[q] \in Requests /\ CallAt(q)
  BY Zenon DEF TypeOK, CallInv
<1>2. /\ call'[q].pc = IF q \in Broadcasts THEN "server" ELSE "sent"
      /\ call'[q].on = c /\ call'[q].out = call[q].out
      /\ call'[q].reached = IF q \in Broadcasts THEN call[q].reached ELSE conn[c].net
  BY <1>1, Zenon DEF Handed, Requests
<1> QED
  BY <1>1, <1>2, Zenon DEF CallAt

\* A call that ends has its outcome, and has reached what it had reached.
LEMMA EndedCall ==
    ASSUME TypeOK, NEW q \in Calls, NEW out, call'[q] = Ended(q, out)
    PROVE  call'[q].pc = "done" /\ call'[q].out = out /\ call'[q].reached = call[q].reached
<1>1. call[q] \in Requests
  BY Zenon DEF TypeOK
<1> QED
  BY <1>1, Zenon DEF Ended, Requests

\* A call that was not sent fails, and one that was sent is unknown or an error.
LEMMA FailedCall ==
    ASSUME TypeOK, CallInv, NEW q \in Calls, call[q].pc \in {"opening", "verifying", "server", "dag"},
           \E err : call'[q] = Failed(q, err)
    PROVE  CallAt(q)'
<1>1. CallAt(q)
  BY Zenon DEF CallInv
<1>2. PICK out \in {"refused", "notSent", "error"} : call'[q] = Ended(q, out)
  BY Zenon DEF Failed
<1> QED
  BY <1>1, <1>2, EndedCall, Zenon DEF CallAt

\* A call that was sent ends right, answered or not.
LEMMA SentCall ==
    ASSUME TypeOK, CallInv, NEW q \in Calls, call[q].pc \in {"sent", "lost"},
           call'[q] \in {AfterSending(q), Ended(q, "answered")}
    PROVE  CallAt(q)'
<1>1. CallAt(q)
  BY Zenon DEF CallInv
<1>2. PICK out \in {"unknown", "error", "answered"} : call'[q] = Ended(q, out)
  BY Zenon DEF AfterSending
<1> QED
  BY <1>1, <1>2, EndedCall, Zenon DEF CallAt

\* The steps of a request keep what is said of every call.
LEMMA CallStepRequest ==
    ASSUME TypeOK, CallInv, SessionInv, [Next]_vars, NEW r \in Calls, NEW q \in Calls,
           \/ RequestServed(r) \/ RequestVerifies(r) \/ RequestJoins(r) \/ RequestOpens(r)
           \/ AskAnswered(r) \/ RequestAnswered(r) \/ CallStep(r)
    PROVE  CallAt(q)'
<1>0. /\ call \in [Calls -> Requests] /\ call[r] \in Requests /\ CallAt(r)
      /\ session \in SessionFields /\ session.client \in SomeClient /\ conn \in [Clients -> Connections]
  BY Zenon DEF TypeOK, CallInv, SessionFields
<1>1. CASE q # r
  <2>1. call'[q] = call[q]
    BY <1>0, <1>1, Zenon DEF RequestServed, RequestVerifies, RequestJoins, RequestOpens, AskAnswered,
       RequestAnswered, CallStep, AskSilent, AskLost, RequestTimesOut, RequestLost, LostReleased,
       Waits, ServerSays, DagSays
  <2> QED BY <2>1, SameCall, Zenon
<1>2. CASE RequestServed(r)
  <2>1. session.client \in Clients /\ conn[session.client].state = "up" /\ session.verified = session.client
    BY <1>0, <1>2, Zenon DEF RequestServed, Connected, SomeClient
  <2>2. conn[session.client].net = "expected" /\ opening'[session.client].pc = "done"
    BY <1>2, <2>1, Constants, Zenon DEF SessionInv, RequestServed
  <2>3. call[r].pc = "idle" /\ call'[r] = Handed(r, session.client)
    BY <1>0, <1>2, Zenon DEF RequestServed
  <2>4. CallAt(r)'
    BY <2>1, <2>2, <2>3, HandedCall, Zenon
  <2> QED BY <1>1, <2>4, Zenon
<1>3. CASE RequestVerifies(r) \/ RequestJoins(r) \/ RequestOpens(r)
  <2>1. PICK pc \in {"opening", "verifying"} : \E c : Waits(r, pc, c)
    BY <1>3, Zenon DEF RequestVerifies, RequestJoins, RequestOpens
  <2>2. call[r].pc = "idle"
    BY <1>3, Zenon DEF RequestVerifies, RequestJoins, RequestOpens
  <2>3. call'[r].pc = pc /\ call'[r].reached = call[r].reached /\ call'[r].out = call[r].out
    BY <1>0, <2>1, SMTT(30) DEF Waits, Requests
  <2>4. CallAt(r)'
    BY <1>0, <2>2, <2>3, Zenon DEF CallAt
  <2> QED BY <1>1, <2>4, Zenon
<1>4. CASE AskAnswered(r) \/ AskSilent(r)
  <2> DEFINE c == call[r].on
  <2>1. c \in Clients /\ opening[c].pc = "done" /\ call[r].pc \in {"server", "dag"} /\ UNCHANGED opening
    BY <1>0, <1>4, Zenon DEF AskAnswered, AskSilent, Asks, CallAt
  <2>2. PICK net \in {conn[c].net, "silent"} :
          IF call[r].pc = "server" THEN ServerSays(r, net) ELSE DagSays(r, net)
    BY <1>4, Zenon DEF AskAnswered, AskSilent
  <2>3. CASE call[r].pc = "server"
    <3>1. call'[r].pc = "dag" /\ call'[r].reached = call[r].reached /\ call'[r].out = call[r].out /\ call'[r].on = c
      BY <1>0, <2>2, <2>3, SMTT(30) DEF ServerSays, Requests
    <3> QED
      BY <1>0, <1>1, <2>1, <2>3, <3>1, Zenon DEF CallAt
  <2>4. CASE call[r].pc = "dag" /\ Identified(call[r].server, net)
    <3>1. call'[r] = [call[r] EXCEPT !.pc = "sent", !.server = "silent", !.reached = conn[c].net]
      BY <1>0, <2>2, <2>4, Zenon DEF DagSays
    <3>2. conn[c].net = "expected"
      BY <2>2, <2>4, Zenon DEF Identified
    <3>3. call'[r].pc = "sent" /\ call'[r].reached = "expected" /\ call'[r].out = call[r].out /\ call'[r].on = c
      BY <1>0, <3>1, <3>2, Zenon DEF Requests
    <3> QED
      BY <1>0, <1>1, <2>1, <2>4, <3>3, Zenon DEF CallAt
  <2>5. CASE call[r].pc = "dag" /\ ~Identified(call[r].server, net)
    <3>1. call'[r] = Failed(r, "refused")
      BY <1>0, <2>2, <2>5, Zenon DEF DagSays
    <3> QED
      BY <1>1, <2>5, <3>1, FailedCall, Zenon
  <2> QED BY <2>1, <2>3, <2>4, <2>5, Zenon
<1>5. CASE RequestAnswered(r) \/ RequestTimesOut(r) \/ LostReleased(r)
  <2>1. call[r].pc \in {"sent", "lost"} /\ call'[r] \in {AfterSending(r), Ended(r, "answered")}
    BY <1>0, <1>5, Zenon DEF RequestAnswered, RequestTimesOut, LostReleased
  <2> QED BY <1>1, <2>1, SentCall, Zenon
<1>6. CASE AskLost(r)
  <2>1. call[r].pc \in {"server", "dag"} /\ call'[r] = Failed(r, "connection")
    BY <1>0, <1>6, Zenon DEF AskLost, Asks
  <2> QED BY <1>1, <2>1, FailedCall, Zenon
<1>7. CASE RequestLost(r)
  <2>1. call[r].pc = "sent" /\ UNCHANGED opening
    BY <1>7, Zenon DEF RequestLost
  <2>2. call'[r].pc = "lost" /\ call'[r].reached = call[r].reached /\ call'[r].out = call[r].out
        /\ call'[r].on = call[r].on
    BY <1>0, <1>7, Zenon DEF RequestLost, Requests
  <2> QED BY <1>0, <1>1, <2>1, <2>2, Zenon DEF CallAt
<1> QED
  BY <1>2, <1>3, <1>4, <1>5, <1>6, <1>7, Zenon DEF CallStep

\* So do the settling promises of an opening and of a verification.
LEMMA CallStepClient ==
    ASSUME TypeOK, CallInv, OpenInv, SessionInv, [Next]_vars, NEW c \in Clients, NEW q \in Calls,
           \/ ConnectSucceeds(c) \/ OpenAnswered(c) \/ OpenStep(c)
           \/ VerifyAnswered(c) \/ VerifyStep(c) \/ Drop(c) \/ Resume(c)
    PROVE  CallAt(q)'
<1>1. CASE UNCHANGED call
  BY <1>1, SameCall, Zenon
<1>2. ASSUME NEW pc \in {"opening", "verifying"}, NEW err,
             call' = [r \in Calls |-> IF call[r].pc = pc /\ call[r].on = c THEN Failed(r, err) ELSE call[r]]
      PROVE  CallAt(q)'
  <2>1. CASE call[q].pc = pc /\ call[q].on = c
    <3>1. call'[q] = Failed(q, err)
      BY <1>2, <2>1, Zenon
    <3> QED BY <2>1, <3>1, FailedCall, Zenon
  <2>2. CASE ~(call[q].pc = pc /\ call[q].on = c)
    BY <1>2, <2>2, SameCall, Zenon
  <2> QED BY <2>1, <2>2, Zenon
<1>3. ASSUME NEW pc \in {"opening", "verifying"}, conn[c].net = "expected", opening'[c].pc = "done",
             call' = [r \in Calls |-> IF call[r].pc = pc /\ call[r].on = c THEN Handed(r, c) ELSE call[r]]
      PROVE  CallAt(q)'
  BY <1>3, HandedCall, SameCall, Zenon
<1>4. CASE OpenDecides(c)
  <2>1. CASE UNCHANGED call
    BY <1>1, <2>1, Zenon
  <2>2. CASE ~ UNCHANGED call
    <3>1. /\ opening[c].pc = "told" /\ opening[c].said = "expected" /\ conn[c].drops = 0
          /\ call' = [r \in Calls |-> IF call[r].pc = "opening" /\ call[r].on = c THEN Handed(r, c) ELSE call[r]]
          /\ opening' = [opening EXCEPT ![c].pc = "done", ![c].said = "silent"]
      BY <1>4, <2>2, Zenon DEF OpenDecides, OpenFails, Settle
    <3>2. conn[c].net = "expected"
      BY <3>1, Zenon DEF OpenInv, OpenAt
    <3>3. opening'[c].pc = "done"
      BY <3>1, Zenon DEF TypeOK, Openings
    <3> QED BY <1>3, <3>1, <3>2, <3>3, Zenon
  <2> QED BY <2>1, <2>2, Zenon
<1>5. CASE OpenRejects(c)
  BY <1>2, <1>5, Zenon DEF OpenRejects, Settle
<1>6. CASE VerifyRejects(c)
  BY <1>2, <1>6, Zenon DEF VerifyRejects, VerifyEnds, Settle
<1>7. CASE VerifyDecides(c)
  <2>1. CASE \E err : Discard(c, err)
    BY <1>1, <2>1, Zenon DEF Discard
  <2>2. CASE VerifyEnds(c, session.verified, LAMBDA r : Failed(r, "connection"))
    BY <1>2, <2>2, Zenon DEF VerifyEnds, Settle
  <2>3. CASE /\ verify[c].pc = "told" /\ verify[c].said = "expected"
             /\ conn[c].drops = verify[c].drops /\ session.client = c
             /\ VerifyEnds(c, c, LAMBDA r : Handed(r, c))
    <3>1. /\ call' = [r \in Calls |-> IF call[r].pc = "verifying" /\ call[r].on = c THEN Handed(r, c) ELSE call[r]]
          /\ UNCHANGED opening
      BY <2>3, Zenon DEF VerifyEnds, Settle
    <3>2. conn[c].net = "expected" /\ opening[c].pc = "done"
      BY <2>3, Constants, Zenon DEF SessionInv
    <3> QED BY <1>3, <3>1, <3>2, Zenon
  <2> QED BY <1>7, <2>1, <2>2, <2>3, Zenon DEF VerifyDecides
<1> QED
  BY <1>1, <1>4, <1>5, <1>6, <1>7, Zenon DEF ConnectSucceeds, OpenAnswered, OpenStep, StaleReleased,
     ConnectFails,
     OpenAskFails, OpenFails, VerifyAnswered, VerifyStep, VerifyAskFails, Discard, Drop, Resume

\* Every step keeps the calls right.
LEMMA CallStepInv ==
    ASSUME TypeOK, CallInv, OpenInv, SessionInv, [Next]_vars
    PROVE  CallInv'
<1> SUFFICES ASSUME NEW q \in Calls PROVE CallAt(q)'
  BY Zenon DEF CallInv
<1>1. CASE UNCHANGED call
  BY <1>1, SameCall, Zenon
<1>2. ASSUME NEW k \in Closes, Close(k) \/ CloseStep(k) PROVE UNCHANGED call
  BY <1>2, Zenon DEF Close, CloseStep, CloseReleased, CloseReturns
<1>3. UNCHANGED vars => UNCHANGED call
  BY Zenon DEF vars
<1> QED
  BY <1>1, <1>2, <1>3, CallStepRequest, CallStepClient, Zenon DEF Next

-----------------------------------------------------------------------------
(* Epochs and close() *)
Closed(k) == close[k].pc = "done"
Called(k) == close[k].pc # "idle"
Waiting(k) == Called(k) /\ ~Closed(k)

\* The calls of close() have epochs of their own; the one the session remembers is
\* the last and is not over; one that is over has none before it that is not; and
\* one that is not over has before it only what is over, and what it waits for.
CloseInv ==
    /\ \A k \in Closes : Called(k) => close[k].epoch <= session.epoch
    /\ \A k, j \in Closes : Called(k) /\ Called(j) /\ close[k].epoch = close[j].epoch => k = j
    /\ session.closing # NoClose =>
         Waiting(session.closing) /\ close[session.closing].epoch = session.epoch
    /\ session.closing = NoClose => \A k \in Closes : ~Waiting(k)
    /\ \A k, j \in Closes : Closed(k) /\ Called(j) /\ close[j].epoch < close[k].epoch => Closed(j)
    /\ \A k, j \in Closes : Waiting(k) /\ Waiting(j) /\ close[j].epoch < close[k].epoch =>
         /\ close[k].previous # NoClose
         /\ j = close[k].previous \/ close[j].epoch < close[close[k].previous].epoch
    /\ \A k \in Closes : Waiting(k) /\ close[k].previous # NoClose => Called(close[k].previous)

\* Every step keeps the order of the close() calls.
LEMMA CloseStepInv ==
    ASSUME TypeOK, CallInv, CloseInv, [Next]_vars
    PROVE  CloseInv'
<1>0. /\ session.epoch \in Nat /\ session.closing \in SomeClose
      /\ \A k \in Closes : close[k].epoch \in Nat /\ close[k].previous \in SomeClose
  BY Zenon DEF TypeOK, SessionFields, Closings
<1>1. CASE UNCHANGED close /\ SameEpoch /\ SameClosing
  BY <1>1, Zenon DEF CloseInv, SameEpoch, SameClosing, Closed, Called, Waiting
<1>2. ASSUME NEW c \in Clients, ClientKind(c) PROVE CloseInv'
  <2>1. UNCHANGED close /\ SameEpoch /\ SameClosing
    BY <1>2, Zenon DEF ClientKind, Opens, Asked, Loses, Connects, Told, Fails, Succeeds, Rejects, Hears,
       Discards, Settles, Drops, Resumes, SameEpoch, SameClosing
  <2> QED BY <1>1, <2>1, Zenon
<1>3. CASE Nothing
  BY <1>1, <1>3, Zenon DEF Nothing, SameEpoch, SameClosing
<1>4. ASSUME NEW k \in Closes, Begins(k) PROVE CloseInv'
  <2>1. /\ ~Called(k) /\ Called(k)' /\ ~Closed(k)' /\ close'[k].epoch = session.epoch + 1
        /\ close'[k].previous = session.closing
        /\ session'.epoch = session.epoch + 1 /\ session'.closing = k
        /\ \A j \in Closes \ {k} : close'[j] = close[j]
    BY <1>4, Zenon DEF Begins, OtherCloses, Called, Closed
  <2> QED
    BY <1>0, <2>1, SessionAssumption, SMTT(30) DEF CloseInv, Called, Closed, Waiting, SomeClose
<1>5. ASSUME NEW k \in Closes, Continues(k) PROVE CloseInv'
  BY <1>0, <1>5, SMTT(30) DEF Continues, OtherCloses, CloseInv, Called, Closed, Waiting, SomeClose
<1>6. ASSUME NEW k \in Closes, Returns(k) PROVE CloseInv'
  BY <1>0, <1>6, SessionAssumption, SMTT(30) DEF Returns, OtherCloses, CloseInv, Called, Closed,
     Waiting, SomeClose, SameEpoch
<1> QED
  BY <1>2, <1>3, <1>4, <1>5, <1>6, StepKinds, Zenon DEF CloseKind

\* An opening that is not over is the session's, or a close() of the next epoch
\* waits for it; one that is over has left its client released, unless it is the
\* session's client.
Begun(c) == opening[c].pc \notin {"unused", "done"}
Awaited(c) ==
    \E k \in Closes : Waiting(k) /\ close[k].connecting = c /\ close[k].epoch = opening[c].epoch + 1
EpochAt(c) ==
    /\ opening[c].pc # "unused" => opening[c].epoch <= session.epoch
    /\ opening[c].pc = "done" => conn[c].state = "released" \/ c = session.client
    /\ Begun(c) => Awaited(c) \/ (opening[c].epoch = session.epoch /\ session.connecting = c)
ClientNow == session.client # None =>
    opening[session.client].epoch = session.epoch /\ session.connecting = None
EpochInv == ClientNow /\ \A c \in Clients : EpochAt(c)

\* An opening of the present epoch that is not over is the session's.
LEMMA OpeningNow ==
    ASSUME TypeOK, CloseInv, EpochInv, NEW c \in Clients, Begun(c), opening[c].epoch = session.epoch
    PROVE  session.connecting = c
<1>1. \A k \in Closes : close[k].epoch \in Nat /\ session.epoch \in Nat
  BY Zenon DEF TypeOK, SessionFields, Closings
<1> QED
  BY <1>1, SMTT(30) DEF CloseInv, EpochInv, EpochAt, Awaited, Waiting

\* Every step keeps the epochs of the openings.
LEMMA EpochStepInv ==
    ASSUME TypeOK, CallInv, OpenInv, SessionInv, CloseInv, EpochInv, [Next]_vars
    PROVE  EpochInv'
<1>0. /\ session.client \in SomeClient /\ session.epoch \in Nat /\ session.connecting \in SomeClient
      /\ \A c \in Clients : opening[c].epoch \in Nat
  BY Zenon DEF TypeOK, SessionFields, Openings
<1>a. ASSUME UNCHANGED close, NEW d \in Clients, opening'[d].epoch = opening[d].epoch, Awaited(d)
      PROVE  Awaited(d)'
  BY <1>a, Zenon DEF Awaited, Waiting, Called, Closed
<1> USE DEF SameClient, SameConnecting, SameEpoch, Begun
<1>1. ASSUME NEW c \in Clients, Opens(c) PROVE EpochInv'
  <2>1. ClientNow'
    BY <1>1, Zenon DEF Opens, ClientNow
  <2>2. ASSUME NEW d \in Clients PROVE EpochAt(d)'
    <3>1. CASE d = c
      BY <1>0, <1>1, <3>1, SMTT(30) DEF Opens, EpochAt
    <3>2. CASE d # c
      <4>1. opening'[d] = opening[d] /\ (Awaited(d) => Awaited(d)') /\ session.connecting # d
        BY <1>1, <1>a, <3>2, Constants, Zenon DEF Opens, Others
      <4>2. conn[d].state = "released" \/ d = session.client => conn'[d].state = "released" \/ d = session'.client
        BY <1>1, <3>2, Constants, Zenon DEF Opens, Others, Releases
      <4> QED
        BY <1>1, <4>1, <4>2, ZenonT(60) DEF Opens, EpochInv, EpochAt
    <3> QED BY <3>1, <3>2, Zenon
  <2> QED BY <2>1, <2>2, Zenon DEF EpochInv
<1>2. ASSUME NEW c \in Clients, Asked(c) \/ Told(c) \/ Hears(c) \/ Settles(c) PROVE EpochInv'
  <2>1. UNCHANGED <<close, conn>> /\ SameClient /\ SameConnecting /\ SameEpoch
    BY <1>2, Zenon DEF Asked, Told, Hears, Settles
  <2> QED
    BY <1>0, <1>2, <1>a, <2>1, SMTT(30) DEF Asked, Told, Hears, Settles, Others, EpochInv, EpochAt,
       ClientNow, SomeClient
<1>3. ASSUME NEW c \in Clients, Loses(c) \/ Discards(c) PROVE EpochInv'
  <2>1. UNCHANGED <<close, opening>> /\ SameConnecting /\ SameEpoch /\ session'.client = Forgotten(session.client, c) /\ Releases(c)
    BY <1>3, Zenon DEF Loses, Discards
  <2>2. \A d \in Clients : Awaited(d) => Awaited(d)'
    BY <1>a, <2>1, Zenon
  <2> QED
    BY <2>1, <2>2, Zenon DEF Releases, Forgotten, Others, EpochInv, EpochAt, ClientNow
<1>4. ASSUME NEW c \in Clients, Connects(c) \/ Fails(c) PROVE EpochInv'
  <2>1. UNCHANGED <<close, session>> /\ Begun(c) /\ Begun(c)' /\ opening'[c].epoch = opening[c].epoch
        /\ Others(opening, opening', c) /\ Others(conn, conn', c)
    BY <1>4, Zenon DEF Connects, Fails, Releases
  <2>2. \A d \in Clients : (Awaited(d) => Awaited(d)') /\ opening'[d].epoch = opening[d].epoch
    BY <1>a, <2>1, Zenon DEF Others
  <2>3. ASSUME NEW d \in Clients PROVE EpochAt(d)'
    BY <2>1, <2>2, ZenonT(60) DEF Others, EpochInv, EpochAt
  <2>4. ClientNow'
    BY <1>0, <2>1, <2>2, Zenon DEF EpochInv, ClientNow, SomeClient
  <2> QED BY <2>3, <2>4, Zenon DEF EpochInv
<1>5. ASSUME NEW c \in Clients, Succeeds(c) PROVE EpochInv'
  <2>1. session.connecting = c /\ session.client = None
    BY <1>5, OpeningNow, Constants, Zenon DEF Succeeds, EpochInv, ClientNow
  <2>2. \A d \in Clients : (Awaited(d) => Awaited(d)') /\ opening'[d].epoch = opening[d].epoch
    BY <1>5, <1>a, Zenon DEF Succeeds, Others
  <2>3. ASSUME NEW d \in Clients PROVE EpochAt(d)'
    BY <1>5, <2>1, <2>2, Constants, ZenonT(60) DEF Succeeds, Others, EpochInv, EpochAt
  <2>4. ClientNow'
    BY <1>5, <2>1, Zenon DEF Succeeds, Forgotten, ClientNow
  <2> QED BY <2>3, <2>4, Zenon DEF EpochInv
<1>6. ASSUME NEW c \in Clients, Rejects(c) PROVE EpochInv'
  <2>1. conn[c].state = "released"
    BY <1>6, Zenon DEF Rejects, OpenInv, OpenAt
  <2>2. \A d \in Clients : (Awaited(d) => Awaited(d)') /\ opening'[d].epoch = opening[d].epoch
    BY <1>6, <1>a, Zenon DEF Rejects, Others
  <2>3. ASSUME NEW d \in Clients PROVE EpochAt(d)'
    BY <1>6, <2>1, <2>2, Constants, ZenonT(60) DEF Rejects, Forgotten, Others, EpochInv, EpochAt
  <2>4. ClientNow'
    BY <1>0, <1>6, <2>2, Zenon DEF Rejects, Forgotten, EpochInv, ClientNow, SomeClient
  <2> QED BY <2>3, <2>4, Zenon DEF EpochInv
<1>7. ASSUME NEW c \in Clients, Drops(c) \/ Resumes(c) PROVE EpochInv'
  <2>1. UNCHANGED <<close, opening>> /\ SameConnecting /\ SameEpoch /\ SameClient /\ conn[c].state # "released" /\ Others(conn, conn', c)
    BY <1>7, Zenon DEF Drops, Resumes
  <2>2. \A d \in Clients : Awaited(d) => Awaited(d)'
    BY <1>a, <2>1, Zenon
  <2> QED
    BY <2>1, <2>2, ZenonT(60) DEF Others, EpochInv, EpochAt, ClientNow
<1>8. ASSUME NEW k \in Closes, Begins(k) PROVE EpochInv'
  <2>1. /\ ~Called(k) /\ Waiting(k)' /\ close'[k].epoch = session.epoch + 1
        /\ close'[k].connecting = session.connecting
        /\ \A j \in Closes \ {k} : close'[j] = close[j]
        /\ UNCHANGED opening /\ session'.client = None /\ session'.epoch = session.epoch + 1
    BY <1>8, Zenon DEF Begins, OtherCloses, Waiting, Called, Closed
  <2>2. ASSUME NEW d \in Clients, Begun(d) PROVE Awaited(d)'
    <3>1. CASE Awaited(d)
      BY <2>1, <3>1, Zenon DEF Awaited, Waiting, Called, Closed
    <3>2. CASE opening[d].epoch = session.epoch /\ session.connecting = d
      BY <2>1, <3>2, Zenon DEF Awaited
    <3> QED BY <2>2, <3>1, <3>2, Zenon DEF EpochInv, EpochAt
  <2>3. ASSUME NEW d \in Clients PROVE EpochAt(d)'
    <3>1. opening[d].pc # "unused" => opening[d].epoch <= session'.epoch
      BY <1>0, <2>1, SMTT(30) DEF EpochInv, EpochAt
    <3>2. conn[d].state = "released" \/ d = session.client => conn'[d].state = "released"
      BY <1>8, Constants, Zenon DEF Begins, Releases, Others
    <3> QED
      BY <2>1, <2>2, <3>1, <3>2, Zenon DEF EpochInv, EpochAt
  <2> QED BY <2>1, <2>3, Zenon DEF EpochInv, ClientNow
<1>9. ASSUME NEW k \in Closes, Continues(k) \/ Returns(k) PROVE EpochInv'
  <2>1. /\ UNCHANGED <<opening, conn>> /\ SameClient /\ SameConnecting /\ SameEpoch
        /\ \A j \in Closes : close'[j].epoch = close[j].epoch /\ close'[j].connecting = close[j].connecting
        /\ \A j \in Closes \ {k} : close'[j] = close[j]
    BY <1>9, Zenon DEF Continues, Returns, OtherCloses
  <2>2. Waiting(k)' \/ (close[k].connecting \in Clients => opening[close[k].connecting].pc = "done")
    BY <1>9, Constants, Zenon DEF Continues, Returns, Waiting, Called, Closed
  <2>3. ASSUME NEW d \in Clients, Begun(d), Awaited(d) PROVE Awaited(d)'
    <3>1. PICK j \in Closes : Waiting(j) /\ close[j].connecting = d /\ close[j].epoch = opening[d].epoch + 1
      BY <2>3, Zenon DEF Awaited
    <3>2. Waiting(j)'
      BY <2>1, <2>2, <2>3, <3>1, Zenon DEF Waiting, Called, Closed
    <3> QED BY <2>1, <3>1, <3>2, Zenon DEF Awaited
  <2> QED
    BY <2>1, <2>3, Zenon DEF EpochInv, EpochAt, ClientNow
<1>10. CASE Nothing
  <2>1. \A d \in Clients : Awaited(d) => Awaited(d)'
    BY <1>a, <1>10, Zenon DEF Nothing
  <2> QED BY <1>10, <2>1, Zenon DEF Nothing, EpochInv, EpochAt, ClientNow
<1> QED
  BY <1>1, <1>2, <1>3, <1>4, <1>5, <1>6, <1>7, <1>8, <1>9, <1>10, StepKinds, Zenon DEF ClientKind,
     CloseKind

\* A released client stays released, and an opening its epoch.
LEMMA ReleasedStays ==
    ASSUME TypeOK, CallInv, OpenInv, SessionInv, [Next]_vars, NEW c \in Clients, conn[c].state = "released"
    PROVE  conn'[c].state = "released"
<1>1. ASSUME NEW d \in Clients, ClientKind(d) PROVE conn'[c].state = "released"
  BY <1>1, ZenonT(60) DEF ClientKind, Opens, Asked, Loses, Connects, Told, Fails, Succeeds, Rejects,
     Hears,
     Discards, Settles, Drops, Resumes, Others, Releases, OpenInv, OpenAt
<1>2. ASSUME NEW k \in Closes, CloseKind(k) PROVE conn'[c].state = "released"
  BY <1>2, Zenon DEF CloseKind, Begins, Continues, Returns, Others, Releases
<1> QED
  BY <1>1, <1>2, StepKinds, Zenon DEF Nothing

\* An opening once begun keeps its epoch, and one that begins has the present one.
LEMMA EpochStays ==
    ASSUME TypeOK, CallInv, [Next]_vars, NEW c \in Clients
    PROVE  \/ opening'[c].pc # "unused" => opening[c].pc # "unused" /\ opening'[c].epoch = opening[c].epoch
           \/ opening'[c].epoch = session.epoch
<1>1. ASSUME NEW d \in Clients, ClientKind(d), opening'[c] # opening[c]
      PROVE  (opening[c].pc # "unused" /\ opening'[c].epoch = opening[c].epoch) \/ opening'[c].epoch = session.epoch
  BY <1>1, Zenon DEF ClientKind, Opens, Asked, Loses, Connects, Told, Fails, Succeeds, Rejects, Hears,
     Discards, Settles, Drops, Resumes, Others
<1>2. ASSUME NEW k \in Closes, CloseKind(k) PROVE opening'[c] = opening[c]
  BY <1>2, Zenon DEF CloseKind, Begins, Continues, Returns
<1> QED
  BY <1>1, <1>2, StepKinds, Zenon DEF Nothing

\* What a close() has released stays released, and when a close() returns there is
\* nothing else left of the epochs before it.
LEMMA ReleasesStep ==
    ASSUME TypeOK, CallInv, OpenInv, SessionInv, CloseInv, EpochInv, CloseReleasesAll, [Next]_vars
    PROVE  CloseReleasesAll'
<1>0. /\ session.client \in SomeClient /\ session.epoch \in Nat
      /\ \A c \in Clients : opening[c].epoch \in Nat /\ opening'[c].epoch \in Nat
      /\ \A k \in Closes : close[k].epoch \in Nat /\ close[k].connecting \in SomeClient
  BY TypeStep, Zenon DEF TypeOK, SessionFields, Openings, Closings
<1> SUFFICES ASSUME NEW k \in Closes, close'[k].pc = "done", NEW c \in Clients,
                    opening'[c].pc # "unused", opening'[c].epoch < close'[k].epoch
             PROVE  conn'[c].state = "released"
  BY Zenon DEF CloseReleasesAll
<1>1. CASE close'[k] = close[k]
  <2>1. close[k].epoch <= session.epoch
    BY <1>1, Zenon DEF CloseInv, Called
  <2>2. opening[c].pc # "unused" /\ opening'[c].epoch = opening[c].epoch
    BY <1>0, <1>1, <2>1, EpochStays, SMTT(30)
  <2>3. conn[c].state = "released"
    BY <1>1, <2>2, Zenon DEF CloseReleasesAll
  <2> QED BY <2>3, ReleasedStays, Zenon
<1>2. CASE close'[k] # close[k]
  <2>1. Returns(k)
    <3>1. ~Nothing /\ \A d \in Clients : ~ClientKind(d)
      BY <1>2, ZenonT(60) DEF Nothing, ClientKind, Opens, Asked, Loses, Connects, Told, Fails,
         Succeeds, Rejects,
         Hears, Discards, Settles, Drops, Resumes
    <3>2. PICK j \in Closes : CloseKind(j)
      BY <3>1, StepKinds, Zenon
    <3>3. j = k
      BY <1>2, <3>2, Zenon DEF CloseKind, Begins, Continues, Returns, OtherCloses
    <3> QED BY <3>2, <3>3, Zenon DEF CloseKind, Begins, Continues
  <2>2. /\ opening' = opening /\ conn' = conn /\ Waiting(k) /\ close'[k].epoch = close[k].epoch
        /\ close[k].connecting # None => opening[close[k].connecting].pc = "done"
        /\ close[k].previous # NoClose => Closed(close[k].previous)
    BY <2>1, Zenon DEF Returns, Waiting, Called, Closed
  <2>3. close[k].epoch <= session.epoch
    BY <2>2, Zenon DEF CloseInv, Waiting
  <2>4. CASE opening[c].pc = "done"
    BY <1>0, <2>2, <2>3, <2>4, Constants, SMTT(30) DEF EpochInv, EpochAt, ClientNow
  <2>5. CASE Begun(c)
    <3>1. Awaited(c)
      BY <1>0, <2>2, <2>3, <2>5, SMTT(30) DEF EpochInv, EpochAt
    <3>2. PICK j \in Closes : Waiting(j) /\ close[j].connecting = c /\ close[j].epoch = opening[c].epoch + 1
      BY <3>1, Zenon DEF Awaited
    <3>3. j # k
      BY <2>2, <2>5, <3>2, Constants, Zenon DEF Begun
    <3>4. close[j].epoch < close[k].epoch
      BY <1>0, <2>2, <3>2, <3>3, SMTT(30) DEF CloseInv, Waiting
    <3>5. /\ close[k].previous # NoClose
          /\ j = close[k].previous \/ close[j].epoch < close[close[k].previous].epoch
      BY <2>2, <3>2, <3>4, Zenon DEF CloseInv
    <3>6. close[k].previous \in Closes
      BY <3>5, Zenon DEF TypeOK, Closings, SomeClose
    <3>7. Closed(j)
      BY <2>2, <3>2, <3>5, <3>6, Zenon DEF CloseInv, Waiting
    <3> QED BY <3>2, <3>7, Zenon DEF Waiting
  <2> QED BY <2>2, <2>4, <2>5, Zenon DEF Begun
<1> QED BY <1>1, <1>2, Zenon

-----------------------------------------------------------------------------
\* The inductive invariant: types, calls, openings, the session, close() calls and
\* epochs depend on one another, and the release of everything on all of them.
IInv ==
    /\ TypeOK /\ CallInv /\ OpenInv /\ SessionInv
    /\ CloseInv /\ EpochInv /\ CloseReleasesAll

\* The inductive invariant holds of every reachable state.
LEMMA Inductive == Spec => []IInv
<1>1. Init => IInv
  <2> SUFFICES ASSUME Init PROVE IInv
    BY Zenon
  <2>1. TypeOK
    <3>1. /\ [state |-> "none", net |-> "silent", drops |-> 0] \in Connections
          /\ NotOpened \in Openings /\ NotVerifying \in Verifications
          /\ [pc |-> "idle", on |-> None, link |-> 0, server |-> "silent",
              reached |-> "nobody", out |-> "none"] \in Requests
          /\ [pc |-> "idle", epoch |-> 0, connecting |-> None, previous |-> NoClose] \in Closings
          /\ [client |-> None, connecting |-> None, verified |-> None,
              verifying |-> None, epoch |-> 0, closing |-> NoClose] \in SessionFields
      BY Constants, Zenon DEF Connections, NotOpened, Openings, NotVerifying, Verifications,
         Requests, Closings,
         SessionFields, Says, Errors, Outcomes
    <3> QED BY <3>1, Zenon DEF Init, TypeOK
  <2>2. CallInv
    BY Zenon DEF Init, CallInv, CallAt
  <2>3. OpenInv
    BY Zenon DEF Init, OpenInv, OpenAt, NotOpened
  <2>4. SessionInv
    BY Zenon DEF Init, SessionInv, NotVerifying
  <2>5. CloseInv
    BY Zenon DEF Init, CloseInv, Called, Closed, Waiting
  <2>6. EpochInv
    BY Zenon DEF Init, EpochInv, EpochAt, ClientNow, NotOpened, Begun
  <2>7. CloseReleasesAll
    BY Zenon DEF Init, CloseReleasesAll
  <2> QED BY <2>1, <2>2, <2>3, <2>4, <2>5, <2>6, <2>7, Zenon DEF IInv
<1>2. IInv /\ [Next]_vars => IInv'
  BY TypeStep, CallStepInv, OpenStepInv, SessionStepInv, CloseStepInv, EpochStepInv, ReleasesStep,
     Zenon DEF IInv
<1> QED
  BY <1>1, <1>2, PTL DEF Spec

\* Type correctness of the session, for any number of requests, close() calls,
\* openings and drops.
THEOREM TypeCorrect == Spec => []TypeOK
<1>1. IInv => TypeOK
  BY Zenon DEF IInv
<1> QED BY <1>1, Inductive, PTL

\* No request and no submission is ever handed to a connection whose node does not
\* serve the expected network.
THEOREM OnlyExpectedHolds == Spec => []OnlyExpected
<1>1. IInv => OnlyExpected
  BY Zenon DEF IInv, CallInv, CallAt, OnlyExpected
<1> QED BY <1>1, Inductive, PTL

\* A submission reported as not sent or refused never reached the transport, and
\* one reported as answered did.
THEOREM OutcomeIsTrueHolds == Spec => []OutcomeIsTrue
<1>1. IInv => OutcomeIsTrue
  BY SessionAssumption, Zenon DEF IInv, CallInv, CallAt, OutcomeIsTrue
<1> QED BY <1>1, Inductive, PTL

\* When a close() returns, every client whose opening began before it is released.
THEOREM CloseReleasesAllHolds == Spec => []CloseReleasesAll
<1>1. IInv => CloseReleasesAll
  BY Zenon DEF IInv
<1> QED BY <1>1, Inductive, PTL

=============================================================================

------------------------------- MODULE Ingest -------------------------------
(***************************************************************************)
(* The ingest gateway (apps/ingest/src): REST and WebSocket handlers, the   *)
(* rate limiters in front of them, the one ioredis client behind them and   *)
(* the shutdown on SIGTERM.  The process is a single event loop: a handler  *)
(* runs without interruption up to `await publishToStream`, and its rest    *)
(* runs when the promise of that XADD settles; everything may happen in     *)
(* between.                                                                 *)
(*                                                                          *)
(* The limiters are TokenBucket's Grant, Refuse and Elapse for one address  *)
(* (RateLimiter implements TokenBucket), in whole tokens.  Redis and the    *)
(* ioredis connection are external: they are modelled from the options      *)
(* redis.ts passes (maxRetriesPerRequest) and from how its result is used.  *)
(***************************************************************************)
EXTENDS Integers, Sequences, SequencesExt, EventSchema, Subsequences

CONSTANTS
    Requests,   \* REST requests, each on a connection of its own
    Clients,    \* WebSocket clients
    Messages,   \* WebSocket messages
    Bodies,     \* what a request or message may carry
    Broken,     \* a body that is not JSON (or above express.json's limit)
    Burst,      \* capacity of a limiter, in tokens
    MaxRetries, \* maxRetriesPerRequest
    MaxBreaks   \* bound on the breaks of the Redis connection

ASSUME IngestAssumption ==
    /\ Requests \cap Clients = {} /\ Requests \cap Messages = {}
    /\ Bodies \subseteq Body \cup {Broken}
    /\ Broken \notin Body
    /\ Burst \in Nat /\ MaxRetries \in Nat \ {0} /\ MaxBreaks \in Nat

VARIABLES
    stage,      \* of each call: not made yet, awaiting its XADD, or over
    sockets,    \* the connection of each client
    inbox,      \* the calls each connection made, in order
    replies,    \* what each connection was sent
    tokens,     \* the level of each limiter for the clients' address
    process,    \* the gateway's process
    pending,    \* XADDs not settled yet, in the order they were issued
    link,       \* the connection to Redis
    attempts,   \* retryAttempts of ioredis, modulo maxRetriesPerRequest + 1
    breaks,     \* how often the connection has broken
    results,    \* Redis's replies not read yet, to the first of pending
    log         \* history: the calls whose XADD Redis executed, in id order

gateway == <<stage, sockets, inbox, replies, tokens, process>>
redis == <<link, attempts, breaks, results, log>>
vars == <<stage, sockets, inbox, replies, tokens, process, pending, link,
          attempts, breaks, results, log>>

Calls == Requests \cup Messages
Sockets == Requests \cup Clients
Failed == 0     \* the result of an XADD that returned an error or no id

Rejections == {"rate_limited", "invalid_json", "validation_failed"}
Kinds == Rejections \cup {"ok", "internal_error"}

Init ==
    /\ stage = [x \in Calls |-> "idle"]
    /\ sockets = [s \in Sockets |-> "idle"]
    /\ inbox = [s \in Sockets |-> <<>>]
    /\ replies = [s \in Sockets |-> <<>>]
    /\ tokens = [l \in {"rest", "ws"} |-> Burst]
    /\ process = "running"
    /\ pending = <<>>
    /\ link \in {"up", "down"}
    /\ attempts = 0
    /\ breaks = 0
    /\ results = <<>>
    /\ log = <<>>

-----------------------------------------------------------------------------
Reply(x, kind, id) == [call |-> x, kind |-> kind, id |-> id]

SocketOf(x) == CHOOSE s \in Sockets : \E i \in DOMAIN inbox[s] : inbox[s][i] = x

\* The answers of a sequence that go to s.
To(s, answers) == Picked(answers, {i \in DOMAIN answers : SocketOf(answers[i].call) = s})

\* As Send, with REST connections kept alive after the answer.
SendKeepAlive(answers) ==
    /\ replies' = [s \in Sockets |->
                      IF sockets[s] = "open" THEN replies[s] \o To(s, answers) ELSE replies[s]]
    /\ stage' = [x \in Calls |->
                    IF \E a \in ToSet(answers) : a.call = x THEN "done" ELSE stage[x]]
    /\ UNCHANGED sockets

\* Sends answers to the calls of a sequence, in its order.  A send on a closed
\* socket is dropped silently; a REST connection is over with its answer.
Send(answers) ==
    /\ replies' = [s \in Sockets |->
                      IF sockets[s] = "open" THEN replies[s] \o To(s, answers) ELSE replies[s]]
    /\ sockets' = [s \in Sockets |->
                      IF s \in Requests /\ \E a \in ToSet(answers) : SocketOf(a.call) = s
                      THEN "closed" ELSE sockets[s]]
    /\ stage' = [x \in Calls |->
                    IF \E a \in ToSet(answers) : a.call = x THEN "done" ELSE stage[x]]

\* publishToStream: the XADD joins the client's queue, the handler waits.
Publish(x) ==
    /\ pending' = Append(pending, x)
    /\ stage' = [stage EXCEPT ![x] = "publishing"]

\* A synchronous answer of a handler, before any await.
Refusal(s, x, kind) ==
    /\ replies' = [replies EXCEPT ![s] = Append(@, Reply(x, kind, Failed))]
    /\ stage' = [stage EXCEPT ![x] = "done"]
    /\ UNCHANGED pending

\* limiter.allow(ip).
Admitted(l) == tokens[l] >= 1 /\ tokens' = [tokens EXCEPT ![l] = @ - 1]
Limited(l)  == tokens[l] < 1  /\ UNCHANGED tokens

\* POST /events: express.json, then the limiter, the schema and the publisher.
\* A body express.json refuses goes straight to the error middleware.
RestEvent(r, b) ==
    /\ process = "running"
    /\ sockets[r] = "idle"
    /\ inbox' = [inbox EXCEPT ![r] = <<r>>]
    /\ \/ /\ b = Broken
          /\ Refusal(r, r, "internal_error")
          /\ sockets' = [sockets EXCEPT ![r] = "closed"]
          /\ UNCHANGED tokens
       \/ /\ b # Broken
          /\ Limited("rest")
          /\ Refusal(r, r, "rate_limited")
          /\ sockets' = [sockets EXCEPT ![r] = "closed"]
       \/ /\ b # Broken /\ ~Valid(b)
          /\ Admitted("rest")
          /\ Refusal(r, r, "validation_failed")
          /\ sockets' = [sockets EXCEPT ![r] = "closed"]
       \/ /\ b # Broken /\ Valid(b)
          /\ Admitted("rest")
          /\ Publish(r)
          /\ sockets' = [sockets EXCEPT ![r] = "open"]
          /\ UNCHANGED replies
    /\ UNCHANGED <<process, redis>>

\* wss "connection".
WsConnect(c) ==
    /\ process = "running"
    /\ sockets[c] = "idle"
    /\ sockets' = [sockets EXCEPT ![c] = "open"]
    /\ UNCHANGED <<stage, inbox, replies, tokens, process, pending, redis>>

\* As WsEvent, with the return after validation_failed missing.
WsEventFallsThrough(c, m, b) ==
    /\ process # "exited" /\ sockets[c] = "open" /\ stage[m] = "idle"
    /\ inbox' = [inbox EXCEPT ![c] = Append(@, m)]
    /\ b # Broken /\ Admitted("ws") /\ Publish(m)
    /\ replies' = IF Valid(b) THEN replies
                  ELSE [replies EXCEPT ![c] = Append(@, Reply(m, "validation_failed", Failed))]
    /\ UNCHANGED <<sockets, process, redis>>

\* ws "message": the limiter first, then JSON, the schema and the publisher.
WsEvent(c, m, b) ==
    /\ process # "exited"
    /\ sockets[c] = "open"
    /\ stage[m] = "idle"
    /\ inbox' = [inbox EXCEPT ![c] = Append(@, m)]
    /\ \/ Limited("ws") /\ Refusal(c, m, "rate_limited")
       \/ b = Broken /\ Admitted("ws") /\ Refusal(c, m, "invalid_json")
       \/ b # Broken /\ ~Valid(b) /\ Admitted("ws") /\ Refusal(c, m, "validation_failed")
       \/ b # Broken /\ Valid(b) /\ Admitted("ws") /\ Publish(m) /\ UNCHANGED replies
    /\ UNCHANGED <<sockets, process, redis>>

\* The client goes away, with or without waiting for its answers.
Hangup(s) ==
    /\ process # "exited"
    /\ sockets[s] = "open"
    /\ sockets' = [sockets EXCEPT ![s] = "closed"]
    /\ UNCHANGED <<stage, inbox, replies, tokens, process, pending, redis>>

\* Time gives a limiter a token.
Refill(l) ==
    /\ tokens[l] < Burst
    /\ tokens' = [tokens EXCEPT ![l] = @ + 1]
    /\ UNCHANGED <<stage, sockets, inbox, replies, process, pending, redis>>

-----------------------------------------------------------------------------
\* Redis executes the next XADD it was sent and replies with the entry's id.
Execute ==
    /\ link = "up"
    /\ Len(results) < Len(pending)
    /\ log' = Append(log, pending[Len(results) + 1])
    /\ results' = Append(results, Len(log) + 1)
    /\ UNCHANGED <<gateway, pending, link, attempts, breaks>>

\* Redis refuses it (loading, read-only, out of memory, no id).
ExecuteFails ==
    /\ link = "up"
    /\ Len(results) < Len(pending)
    /\ results' = Append(results, Failed)
    /\ UNCHANGED <<gateway, pending, link, attempts, breaks, log>>

\* As Settle, with the reply given to the newest XADD.
SettleNewest ==
    /\ process # "exited" /\ link = "up" /\ results # <<>>
    /\ pending' = Front(pending)
    /\ results' = Tail(results)
    /\ Send(<<Reply(Last(pending),
                    IF Head(results) = Failed THEN "internal_error" ELSE "ok",
                    Head(results))>>)
    /\ UNCHANGED <<inbox, tokens, process, link, attempts, breaks, log>>

\* The oldest XADD settles and its handler runs to the end.
Settle ==
    /\ process # "exited"
    /\ link = "up"
    /\ results # <<>>
    /\ pending' = Tail(pending)
    /\ results' = Tail(results)
    /\ Send(<<Reply(Head(pending),
                    IF Head(results) = Failed THEN "internal_error" ELSE "ok",
                    Head(results))>>)
    /\ UNCHANGED <<inbox, tokens, process, link, attempts, breaks, log>>

\* The connection breaks; replies on their way are lost, XADDs are kept to be
\* sent again.
Break ==
    /\ process # "exited"
    /\ link = "up"
    /\ breaks < MaxBreaks
    /\ link' = "down"
    /\ attempts' = 1
    /\ breaks' = breaks + 1
    /\ results' = <<>>
    /\ UNCHANGED <<gateway, pending, log>>

\* As Reconnect, sending the newest XADDs first.
ReconnectReversed ==
    /\ process # "exited" /\ link = "down"
    /\ link' = "up" /\ attempts' = 0
    /\ pending' = Reverse(pending)
    /\ UNCHANGED <<gateway, breaks, results, log>>

\* As Reconnect, without sending again.
ReconnectForgets ==
    /\ process # "exited" /\ link = "down"
    /\ link' = "up" /\ attempts' = 0
    /\ pending' = <<>>
    /\ UNCHANGED <<gateway, breaks, results, log>>

\* ioredis reconnects and sends again every XADD it has no reply to.
Reconnect ==
    /\ process # "exited"
    /\ link = "down"
    /\ link' = "up"
    /\ attempts' = 0
    /\ UNCHANGED <<gateway, pending, breaks, results, log>>

\* As ReconnectFails, with the rejected XADDs left in the queue.
ReconnectFailsKeeps ==
    /\ process # "exited" /\ link = "down"
    /\ attempts' = (attempts + 1) % (MaxRetries + 1)
    /\ IF attempts' = 0
       THEN Send([i \in DOMAIN pending |-> Reply(pending[i], "internal_error", Failed)])
       ELSE UNCHANGED <<replies, sockets, stage>>
    /\ UNCHANGED <<pending, inbox, tokens, process, link, breaks, results, log>>

\* An attempt to reconnect fails; every (maxRetriesPerRequest + 1)th close
\* rejects all that is pending.
ReconnectFails ==
    /\ process # "exited"
    /\ link = "down"
    /\ attempts' = (attempts + 1) % (MaxRetries + 1)
    /\ IF attempts' = 0
       THEN /\ pending' = <<>>
            /\ Send([i \in DOMAIN pending |-> Reply(pending[i], "internal_error", Failed)])
       ELSE UNCHANGED <<pending, replies, sockets, stage>>
    /\ UNCHANGED <<inbox, tokens, process, link, breaks, results, log>>

-----------------------------------------------------------------------------
\* SIGTERM: server.close() takes no new connection.
Sigterm ==
    /\ process = "running"
    /\ process' = "closing"
    /\ UNCHANGED <<stage, sockets, inbox, replies, tokens, pending, redis>>

\* The callback of server.close: the last connection, WebSockets included,
\* has ended.
Exit ==
    /\ process = "closing"
    /\ \A s \in Sockets : sockets[s] # "open"
    /\ process' = "exited"
    /\ UNCHANGED <<stage, sockets, inbox, replies, tokens, pending, redis>>

Next ==
    \/ \E r \in Requests, b \in Bodies : RestEvent(r, b)
    \/ \E c \in Clients : WsConnect(c)
    \/ \E c \in Clients, m \in Messages, b \in Bodies : WsEvent(c, m, b)
    \/ \E s \in Sockets : Hangup(s)
    \/ \E l \in {"rest", "ws"} : Refill(l)
    \/ Execute \/ ExecuteFails \/ Settle
    \/ Break \/ Reconnect \/ ReconnectFails
    \/ Sigterm \/ Exit

\* The event loop runs what is ready, Redis answers what it was sent, ioredis
\* keeps trying to reconnect.  Clients and signals owe nothing.
Fairness ==
    /\ WF_vars(Execute \/ ExecuteFails)
    /\ WF_vars(Settle)
    /\ WF_vars(Reconnect \/ ReconnectFails)
    /\ WF_vars(Exit)

Spec == Init /\ [][Next]_vars
FairSpec == Spec /\ Fairness

-----------------------------------------------------------------------------
Answer == [call : Calls, kind : Kinds, id : Nat]

\* Every variable has its type.
TypeOK ==
    /\ stage \in [Calls -> {"idle", "publishing", "done"}]
    /\ sockets \in [Sockets -> {"idle", "open", "closed"}]
    /\ inbox \in [Sockets -> Seq(Calls)]
    /\ replies \in [Sockets -> Seq(Answer)]
    /\ tokens \in [{"rest", "ws"} -> 0 .. Burst]
    /\ process \in {"running", "closing", "exited"}
    /\ pending \in Seq(Calls)
    /\ link \in {"up", "down"}
    /\ attempts \in 0 .. MaxRetries
    /\ breaks \in 0 .. MaxBreaks
    /\ results \in Seq(Nat)
    /\ log \in Seq(Calls)

\* Redis's unread replies belong, one by one, to the oldest pending XADDs, so
\* that a reconnection never pairs a promise with another event's id.
RepliesPaired ==
    /\ Len(results) <= Len(pending)
    /\ \A i \in DOMAIN results :
          results[i] # Failed => /\ results[i] \in DOMAIN log
                                 /\ log[results[i]] = pending[i]

\* An acknowledged event is in the stream, under the id the client was given.
AckMeansStored ==
    \A s \in Sockets : \A i \in DOMAIN replies[s] :
        LET a == replies[s][i]
        IN  a.kind = "ok" => a.id \in DOMAIN log /\ log[a.id] = a.call

\* An event answered with a rejection is never in the stream, also not later
\* through a resend ("never reach Redis", how-it-works.md:63).
RejectedNeverStored ==
    \A s \in Sockets : \A i \in DOMAIN replies[s] :
        replies[s][i].kind \in Rejections => replies[s][i].call \notin ToSet(log)

\* The acknowledgements of one connection come in the order of its events, and
\* their ids grow: a client may pair them by counting, errors aside.
AcksInOrder ==
    \A s \in Sockets : \A i, j \in DOMAIN replies[s] :
        LET a == replies[s][i]
            b == replies[s][j]
        IN  i < j /\ a.kind = "ok" /\ b.kind = "ok" =>
                /\ a.id < b.id
                /\ \E p, q \in DOMAIN inbox[s] :
                      p < q /\ inbox[s][p] = a.call /\ inbox[s][q] = b.call

\* No call is answered twice: a flush and a late reply do not both answer it.
AnsweredOnce ==
    \A s \in Sockets : \A i, j \in DOMAIN replies[s] :
        i # j => replies[s][i].call # replies[s][j].call

\* A handler's await ends: the promise of every XADD settles, or the process
\* is gone, as long as the connection breaks finitely often.
PublishSettles ==
    \A x \in Calls : stage[x] = "publishing" ~> stage[x] = "done" \/ process = "exited"

\* Without WebSocket clients a SIGTERM ends the process.
RestShutdown ==
    (process = "closing" /\ \A c \in Clients : sockets[c] # "open") ~> process = "exited"
=============================================================================

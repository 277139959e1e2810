---------------------------- MODULE StreamFanout ----------------------------
(***************************************************************************)
(* apps/dashboard/app/api/ws/route.ts: one reader loops over XREAD BLOCK    *)
(* and broadcasts every entry to the open dashboards, which come and go and *)
(* are probed by a heartbeat.  An iteration of the loop is three steps:     *)
(* the command is on its way to Redis, Redis holds or answers it, and the   *)
(* reader handles the answer.  Redis and the ioredis connection are         *)
(* external; the connection keeps the command over a break and sends it     *)
(* again with the argument it was built with (maxRetriesPerRequest: null).  *)
(***************************************************************************)
EXTENDS Integers, Sequences, SequencesExt, Subsequences

CONSTANTS
    Dashboards, \* dashboard connections
    Count,      \* COUNT of XREAD
    MaxEntries, \* bound on the stream
    MaxFaults   \* bound on broken connections, errors and lost streams

ASSUME FanoutAssumption ==
    /\ Count \in Nat \ {0} /\ MaxEntries \in Nat /\ MaxFaults \in Nat

VARIABLES
    log,        \* history: the kind of each entry ever added, by id
    gone,       \* ids Redis no longer holds (eviction, restart without AOF)
    lastId,     \* the reader's lastId; 0 is "$"
    xread,      \* where the reader's XREAD is
    threshold,  \* the id a blocked XREAD waits to see exceeded
    reply,      \* ids in the answer on its way to the reader
    link,       \* the reader's connection to Redis
    faults,     \* faults so far
    conn,       \* readyState of each dashboard's socket
    got,        \* what each dashboard was sent
    alive,      \* the heartbeat's flag of each dashboard
    unanswered, \* history: pings without a pong so far
    since       \* history: entries in the stream when the dashboard came

stream == <<log, gone>>
reader == <<lastId, xread, threshold, reply, link>>
beat == <<alive, unanswered>>
vars == <<log, gone, lastId, xread, threshold, reply, link, faults, conn, got,
          alive, unanswered, since>>

Handshake == 0
Latest == 0     \* the argument "$"

Init ==
    /\ log = <<>>
    /\ gone = {}
    /\ lastId = Latest
    /\ xread = "issued"
    /\ threshold = 0
    /\ reply = <<>>
    /\ link \in {"up", "down"}
    /\ faults = 0
    /\ conn = [d \in Dashboards |-> "idle"]
    /\ got = [d \in Dashboards |-> <<>>]
    /\ alive = [d \in Dashboards |-> TRUE]
    /\ unanswered = [d \in Dashboards |-> 0]
    /\ since = [d \in Dashboards |-> 0]

-----------------------------------------------------------------------------
\* An XADD.  The gateway's entries carry a payload field, a foreign one may
\* not.  It completes an XREAD that Redis holds.
Add(kind) ==
    /\ Len(log) < MaxEntries
    /\ log' = Append(log, kind)
    /\ IF xread = "blocked"
       THEN xread' = "answered" /\ reply' = <<Len(log) + 1>>
       ELSE UNCHANGED <<xread, reply>>
    /\ UNCHANGED <<gone, lastId, threshold, link, faults, conn, got, beat, since>>

\* Redis drops the stream: LRU eviction of the key or a restart.  Ids go on
\* growing, they are taken from the clock.
Lose ==
    /\ faults < MaxFaults
    /\ gone # DOMAIN log
    /\ faults' = faults + 1
    /\ gone' = DOMAIN log
    /\ UNCHANGED <<log, reader, conn, got, beat, since>>

\* Mutant of Serve: the position is inclusive.
ServeInclusive ==
    LET after == IF lastId = Latest THEN Len(log) ELSE lastId
        ready == {i \in after .. Len(log) : i > 0 /\ i \notin gone}
        first == Ascending(ready)
    IN  /\ link = "up"
        /\ xread = "issued"
        /\ threshold' = after
        /\ IF ready = {}
           THEN xread' = "blocked" /\ UNCHANGED reply
           ELSE /\ xread' = "answered"
                /\ reply' = SubSeq(first, 1, IF Len(first) < Count THEN Len(first) ELSE Count)
        /\ UNCHANGED <<stream, lastId, link, faults, conn, got, beat, since>>

\* Redis takes the XREAD: entries after lastId are answered at once, else it
\* blocks.  "$" stands for the last id at this moment.
Serve ==
    LET after == IF lastId = Latest THEN Len(log) ELSE lastId
        ready == {i \in after + 1 .. Len(log) : i \notin gone}
        first == Ascending(ready)
    IN  /\ link = "up"
        /\ xread = "issued"
        /\ threshold' = after
        /\ IF ready = {}
           THEN xread' = "blocked" /\ UNCHANGED reply
           ELSE /\ xread' = "answered"
                /\ reply' = SubSeq(first, 1, IF Len(first) < Count THEN Len(first) ELSE Count)
        /\ UNCHANGED <<stream, lastId, link, faults, conn, got, beat, since>>

\* BLOCK 5000 runs out: the answer is null.
BlockTimeout ==
    /\ xread = "blocked"
    /\ xread' = "answered"
    /\ reply' = <<>>
    /\ UNCHANGED <<stream, lastId, threshold, link, faults, conn, got, beat, since>>

\* The entries of an answer that have a payload field.
Payloads(ids) == Picked(ids, {k \in DOMAIN ids : log[ids[k]] = "event"})

\* broadcast(): to the sockets of wss.clients that are open.
broadcast(ids) ==
    got' = [d \in Dashboards |-> IF conn[d] = "open" THEN got[d] \o ids ELSE got[d]]

\* Mutant of Handle: lastId is taken from the first entry of the answer.
HandleFirst ==
    /\ link = "up"
    /\ xread = "answered"
    /\ xread' = "issued"
    /\ reply' = <<>>
    /\ lastId' = IF reply = <<>> THEN lastId ELSE Head(reply)
    /\ broadcast(Payloads(reply))
    /\ UNCHANGED <<stream, threshold, link, faults, conn, beat, since>>

\* Mutant of Handle: like a consumer group, each answer goes to one dashboard.
HandleConsumerGroup ==
    /\ link = "up"
    /\ xread = "answered"
    /\ xread' = "issued"
    /\ reply' = <<>>
    /\ lastId' = IF reply = <<>> THEN lastId ELSE Last(reply)
    /\ IF \A d \in Dashboards : conn[d] # "open"
       THEN UNCHANGED got
       ELSE \E d \in Dashboards :
                /\ conn[d] = "open"
                /\ got' = [got EXCEPT ![d] = @ \o Payloads(reply)]
    /\ UNCHANGED <<stream, threshold, link, faults, conn, beat, since>>

\* The reader handles the answer in one turn of the event loop: lastId moves
\* with every entry, payloads go to the open sockets, the next XREAD is sent.
Handle ==
    /\ link = "up"
    /\ xread = "answered"
    /\ xread' = "issued"
    /\ reply' = <<>>
    /\ lastId' = IF reply = <<>> THEN lastId ELSE Last(reply)
    /\ broadcast(Payloads(reply))
    /\ UNCHANGED <<stream, threshold, link, faults, conn, beat, since>>

\* Redis answers with an error; the catch sleeps two seconds.
ReadFails ==
    /\ link = "up"
    /\ xread = "issued"
    /\ faults < MaxFaults
    /\ faults' = faults + 1
    /\ xread' = "sleeping"
    /\ UNCHANGED <<stream, lastId, threshold, reply, link, conn, got, beat, since>>

Retry ==
    /\ xread = "sleeping"
    /\ xread' = "issued"
    /\ UNCHANGED <<stream, lastId, threshold, reply, link, faults, conn, got, beat, since>>

\* Mutant of Break: the command is not sent again.
BreakForgets ==
    /\ link = "up"
    /\ faults < MaxFaults
    /\ faults' = faults + 1
    /\ link' = "down"
    /\ xread' = IF xread = "sleeping" THEN xread ELSE "blocked"
    /\ reply' = <<>>
    /\ UNCHANGED <<stream, lastId, threshold, conn, got, beat, since>>

\* The connection breaks, with it the held command or the answer; ioredis
\* keeps the command to send it again.
Break ==
    /\ link = "up"
    /\ faults < MaxFaults
    /\ faults' = faults + 1
    /\ link' = "down"
    /\ xread' = IF xread = "sleeping" THEN xread ELSE "issued"
    /\ reply' = <<>>
    /\ UNCHANGED <<stream, lastId, threshold, conn, got, beat, since>>

Reconnect ==
    /\ link = "down"
    /\ link' = "up"
    /\ UNCHANGED <<stream, lastId, xread, threshold, reply, faults, conn, got, beat, since>>

-----------------------------------------------------------------------------
\* GET /api/ws: the socket joins wss.clients, its heartbeat starts and the
\* handshake is sent, all in one callback.
Connect(d) ==
    /\ conn[d] = "idle"
    /\ conn' = [conn EXCEPT ![d] = "open"]
    /\ alive' = [alive EXCEPT ![d] = TRUE]
    /\ got' = [got EXCEPT ![d] = <<Handshake>>]
    /\ since' = [since EXCEPT ![d] = Len(log)]
    /\ UNCHANGED <<stream, reader, faults, unanswered>>

Disconnect(d) ==
    /\ conn[d] = "open"
    /\ conn' = [conn EXCEPT ![d] = "closed"]
    /\ UNCHANGED <<stream, reader, faults, got, beat, since>>

\* The 30 s interval of one dashboard: no pong since the last ping ends it.
Heartbeat(d) ==
    /\ conn[d] = "open"
    /\ IF alive[d]
       THEN /\ alive' = [alive EXCEPT ![d] = FALSE]
            /\ unanswered' = [unanswered EXCEPT ![d] = @ + 1]
            /\ UNCHANGED conn
       ELSE /\ conn' = [conn EXCEPT ![d] = "terminated"]
            /\ UNCHANGED beat
    /\ UNCHANGED <<stream, reader, faults, got, since>>

\* Mutant of Pong: the answer is counted but the flag stays down.
PongUnseen(d) ==
    /\ conn[d] = "open"
    /\ unanswered[d] > 0
    /\ unanswered' = [unanswered EXCEPT ![d] = 0]
    /\ UNCHANGED <<stream, reader, faults, conn, got, alive, since>>

\* The pong handler raises the flag again.
Pong(d) ==
    /\ conn[d] = "open"
    /\ unanswered[d] > 0
    /\ alive' = [alive EXCEPT ![d] = TRUE]
    /\ unanswered' = [unanswered EXCEPT ![d] = 0]
    /\ UNCHANGED <<stream, reader, faults, conn, got, since>>

Next ==
    \/ \E kind \in {"event", "foreign"} : Add(kind)
    \/ Lose
    \/ Serve \/ BlockTimeout \/ Handle \/ ReadFails \/ Retry
    \/ Break \/ Reconnect
    \/ \E d \in Dashboards : Connect(d) \/ Disconnect(d) \/ Heartbeat(d) \/ Pong(d)

Spec == Init /\ [][Next]_vars

-----------------------------------------------------------------------------
\* Every variable has its type.
TypeOK ==
    /\ log \in Seq({"event", "foreign"}) /\ gone \subseteq DOMAIN log
    /\ lastId \in 0 .. Len(log) /\ threshold \in 0 .. Len(log)
    /\ xread \in {"issued", "blocked", "answered", "sleeping"}
    /\ reply \in Seq(DOMAIN log) /\ link \in {"up", "down"}
    /\ faults \in 0 .. MaxFaults
    /\ conn \in [Dashboards -> {"idle", "open", "closed", "terminated"}]
    /\ got \in [Dashboards -> Seq(0 .. Len(log))]
    /\ alive \in [Dashboards -> BOOLEAN]
    /\ unanswered \in [Dashboards -> 0 .. 1]
    /\ since \in [Dashboards -> 0 .. Len(log)]

\* The heartbeat ends a dashboard only while its last ping is unanswered, at the
\* very next interval, whatever pongs and intervals come between: never one that
\* answered, and never one ping later.
TerminatedIsSilent ==
    \A d \in Dashboards :
        /\ unanswered[d] <= 1
        /\ conn[d] = "terminated" => unanswered[d] = 1

\* No entry between two that a dashboard got is missing, unless Redis dropped
\* it or it carries no payload; none comes twice or out of order, whatever
\* breaks, fails or is sent again in between.
NoGapNoRepeat ==
    \A d \in Dashboards : \A i \in 2 .. Len(got[d]) - 1 :
        /\ got[d][i] < got[d][i + 1]
        /\ \A n \in got[d][i] + 1 .. got[d][i + 1] - 1 :
              n \in gone \/ log[n] = "foreign"

\* Two dashboards never see the same pair of events in different company: one
\* that was open over a stretch of the log got all that another one got of it.
SameFeed ==
    \A d, e \in Dashboards : \A i \in 2 .. Len(got[d]) : \A j, k \in 2 .. Len(got[e]) :
        got[e][j] <= got[d][i] /\ got[d][i] <= got[e][k] =>
            got[d][i] \in ToSet(got[e])

\* The reader with its XREADs, breaks and resends is one position over the log.
Feed == INSTANCE ThreatFeed WITH
            pos <- lastId,
            conn <- [d \in Dashboards |-> IF conn[d] = "terminated" THEN "closed" ELSE conn[d]]

ImplementsFeed == Feed!F_Spec
=============================================================================

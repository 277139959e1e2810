------------------------------ MODULE Pipeline ------------------------------
(***************************************************************************)
(* From a sensor's message to the open dashboards: the gateway (Ingest) and *)
(* the dashboard's reader (StreamFanout) over one Redis stream.  They share *)
(* nothing but the stream, each has a connection of its own, and an XADD is *)
(* one step of both.  The limiters' refill, hang-ups, the shutdown, foreign *)
(* entries and the heartbeat are left to the runs of the two components.    *)
(***************************************************************************)
EXTENDS Ingest, FiniteSets

CONSTANTS
    Dashboards, Count, MaxEntries,
    MaxFaults

ASSUME PipelineAssumption ==
    Count \in Nat \ {0} /\ MaxEntries \in Nat /\ MaxFaults \in Nat

VARIABLES gone, lastId, xread, threshold, reply, faults, conn, got, alive,
          unanswered, since,
          readerLink    \* the reader's connection to Redis

fanout == <<gone, lastId, xread, threshold, reply, faults, conn, got, alive,
            unanswered, since, readerLink>>
ingest == <<gateway, pending, redis>>
pipeline == <<ingest, fanout>>

\* The stream as the reader sees it: every entry of the gateway has a payload.
F == INSTANCE StreamFanout WITH
        log <- [i \in DOMAIN log |-> "event"],
        link <- readerLink

P_Init == Init /\ F!Init

-----------------------------------------------------------------------------
\* A step of the gateway or of its connection.
Accept ==
    /\ \/ \E c \in Clients : WsConnect(c)
       \/ \E c \in Clients, m \in Messages, b \in Bodies : WsEvent(c, m, b)
    /\ UNCHANGED fanout

Acknowledge == Settle /\ UNCHANGED fanout
Refuse == ExecuteFails /\ UNCHANGED fanout
LinkBreaks == Break /\ UNCHANGED fanout
LinkReturns == (Reconnect \/ ReconnectFails) /\ UNCHANGED fanout

\* Redis executes the XADD, which completes an XREAD it holds.
Store == Execute /\ F!Add("event") /\ UNCHANGED readerLink

\* A step of the dashboard's server.
Read == UNCHANGED ingest /\ F!Serve
TimeOut == UNCHANGED ingest /\ F!BlockTimeout
Deliver == UNCHANGED ingest /\ F!Handle
Catch == UNCHANGED ingest /\ F!ReadFails
Resume == UNCHANGED ingest /\ F!Retry
ReaderBreaks == UNCHANGED ingest /\ F!Break
ReaderReturns == UNCHANGED ingest /\ F!Reconnect
StreamLost == UNCHANGED ingest /\ F!Lose
Visit == UNCHANGED ingest /\ \E d \in Dashboards : F!Connect(d) \/ F!Disconnect(d)

P_Next ==
    \/ Accept \/ Acknowledge \/ Refuse \/ LinkBreaks \/ LinkReturns
    \/ Store
    \/ Read \/ TimeOut \/ Deliver \/ Catch \/ Resume
    \/ ReaderBreaks \/ ReaderReturns \/ StreamLost
    \/ Visit

\* What the components' own specifications are fair to.
P_Spec ==
    /\ P_Init /\ [][P_Next]_pipeline
    /\ WF_pipeline(Store \/ Refuse) /\ WF_pipeline(Acknowledge) /\ WF_pipeline(LinkReturns)
    /\ WF_pipeline(Read) /\ WF_pipeline(Deliver) /\ WF_pipeline(Resume)
    /\ WF_pipeline(ReaderReturns)

-----------------------------------------------------------------------------
\* The client was told that its message is stored under an id.
AckedAs(c, m, id) == Reply(m, "ok", id) \in ToSet(replies[c])

\* An acknowledged event reaches every dashboard that stays, over breaks of
\* either connection and errors of Redis, once the reader has a position to
\* read on from ("$" has none) and as long as Redis keeps the stream.
AckedIsShown ==
    \A n \in 1 .. MaxEntries : \A d \in Dashboards :
        (conn[d] = "open" /\ 0 < lastId /\ lastId < n
             /\ \E c \in Clients, m \in Messages : AckedAs(c, m, n))
            ~> (n \in ToSet(got[d]) \/ n \in gone \/ conn[d] # "open")

\* A dashboard shows the entries a sensor had acknowledged in the order the
\* sensor sent the events, although XADDs and XREADs are sent again after a
\* break and the copies of a resend lie between them.
ShownInSendOrder ==
    \A c \in Clients : \A i, j \in DOMAIN inbox[c] : \A d \in Dashboards :
        \A p, q \in 2 .. Len(got[d]) :
            /\ i < j
            /\ AckedAs(c, inbox[c][i], got[d][p]) /\ AckedAs(c, inbox[c][j], got[d][q])
            => p < q

\* An event comes to a dashboard once, and once more at most for each break of
\* the gateway's connection: no break of the reader's adds a copy.
CopiesFromBreaks ==
    \A d \in Dashboards : \A m \in Messages :
        Cardinality({i \in 2 .. Len(got[d]) : log[got[d][i]] = m}) <= 1 + breaks
=============================================================================

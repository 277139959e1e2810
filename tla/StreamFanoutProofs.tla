------------------------- MODULE StreamFanoutProofs -------------------------
(***************************************************************************)
(* Theorems about StreamFanout, for every set of dashboards and every bound *)
(* that meets FanoutAssumption: what a dashboard is sent has no hole and no *)
(* repetition, dashboards agree on what they share, and the reader with its *)
(* XREADs, breaks and resends implements ThreatFeed.                        *)
(***************************************************************************)
EXTENDS StreamFanout, SubsequenceProofs, SequenceTheorems, TLAPS

\* An answer holds, in order, all that Redis had after the position the XREAD
\* named, up to its last entry; a held XREAD waits at the end of the log.
ReplyInv ==
    /\ xread # "answered" => reply = <<>>
    /\ xread \in {"blocked", "answered"} => lastId = Latest \/ threshold = lastId
    /\ xread = "blocked" => \A n \in threshold + 1 .. Len(log) : n \in gone
    /\ \A j, k \in DOMAIN reply : j < k => reply[j] < reply[k]
    /\ \A k \in DOMAIN reply : reply[k] > threshold
    /\ \A k \in DOMAIN reply : \A n \in threshold + 1 .. reply[k] :
          n \in gone \/ \E j \in DOMAIN reply : reply[j] = n

\* The flag is up exactly when every ping was answered, from the start; what the
\* heartbeat has ended had it down, and keeps it down.
BeatInv ==
    \A d \in Dashboards :
        /\ alive[d] <=> unanswered[d] = 0
        /\ conn[d] = "idle" => alive[d]
        /\ conn[d] = "terminated" => ~alive[d]

\* What comes after the handshake is an event up to the reader's position.
DeliveredInv ==
    /\ \A d \in Dashboards : conn[d] = "open" => got[d] # <<>>
    /\ \A d \in Dashboards : \A i \in 2 .. Len(got[d]) :
          got[d][i] \in 1 .. lastId /\ log[got[d][i]] = "event"

OrderInv ==
    \A d \in Dashboards : \A i, j \in 2 .. Len(got[d]) : i < j => got[d][i] < got[d][j]

\* A dashboard has every event since its first: up to the reader's position as
\* long as it is open, up to its last one afterwards.
CompleteInv ==
    \A d \in Dashboards : \A i \in 2 .. Len(got[d]) : \A n \in got[d][i] + 1 .. lastId :
        \/ conn[d] # "open" /\ \A k \in 2 .. Len(got[d]) : got[d][k] < n
        \/ n \in gone \/ log[n] = "foreign"
        \/ \E k \in 2 .. Len(got[d]) : got[d][k] = n

\* The same, of what another dashboard was sent: also of entries that Redis
\* has dropped since.
TogetherInv ==
    \A d, e \in Dashboards : \A i \in 2 .. Len(got[d]) : \A j \in 2 .. Len(got[e]) :
        /\ got[e][j] <= got[d][i]
        /\ conn[e] = "open" \/ \E k \in 2 .. Len(got[e]) : got[d][i] <= got[e][k]
        => \E k \in 2 .. Len(got[e]) : got[e][k] = got[d][i]

IInv ==
    /\ TypeOK /\ ReplyInv /\ BeatInv
    /\ DeliveredInv /\ OrderInv /\ CompleteInv /\ TogetherInv

-----------------------------------------------------------------------------
\* The numbers the invariant is about.
LEMMA Numbers ==
    ASSUME TypeOK
    PROVE  /\ log \in Seq({"event", "foreign"}) /\ Len(log) \in Nat /\ DOMAIN log = 1 .. Len(log)
           /\ lastId \in Nat /\ lastId <= Len(log) /\ threshold \in Nat /\ threshold <= Len(log)
           /\ reply \in Seq(1 .. Len(log)) /\ Len(reply) \in Nat /\ DOMAIN reply = 1 .. Len(reply)
           /\ \A k \in DOMAIN reply : reply[k] \in 1 .. Len(log) /\ reply[k] \in Nat /\ k \in Int
           /\ \A d \in Dashboards :
                 /\ got[d] \in Seq(0 .. Len(log)) /\ got[d] \in Seq(Nat)
                 /\ Len(got[d]) \in Nat /\ DOMAIN got[d] = 1 .. Len(got[d])
           /\ \A d \in Dashboards : \A i \in 1 .. Len(got[d]) : got[d][i] \in Nat
<1>1. log \in Seq({"event", "foreign"}) /\ Len(log) \in Nat /\ DOMAIN log = 1 .. Len(log)
    BY DEF TypeOK
<1>2. /\ lastId \in Nat /\ lastId <= Len(log)
      /\ threshold \in Nat /\ threshold <= Len(log)
    BY <1>1 DEF TypeOK
<1>3. /\ reply \in Seq(1 .. Len(log)) /\ Len(reply) \in Nat /\ DOMAIN reply = 1 .. Len(reply)
      /\ \A k \in DOMAIN reply : reply[k] \in 1 .. Len(log)
    BY <1>1 DEF TypeOK
<1>4. ASSUME NEW d \in Dashboards
      PROVE  /\ got[d] \in Seq(0 .. Len(log)) /\ got[d] \in Seq(Nat)
             /\ Len(got[d]) \in Nat /\ DOMAIN got[d] = 1 .. Len(got[d])
             /\ \A i \in 1 .. Len(got[d]) : got[d][i] \in Nat
    <2>1. got[d] \in Seq(0 .. Len(log))
        BY DEF TypeOK
    <2>2. got[d] \in Seq(Nat)
        BY <1>1, <2>1
    <2> QED BY <2>1, <2>2
<1> QED BY <1>1, <1>2, <1>3, <1>4

\* Steps that leave the feeds and the position alone; the stream may lose
\* entries.
LEMMA FeedFrame ==
    ASSUME IInv, UNCHANGED <<log, lastId, conn, got>>, gone \subseteq gone'
    PROVE  DeliveredInv' /\ OrderInv' /\ CompleteInv' /\ TogetherInv'
BY DEF IInv, DeliveredInv, OrderInv, CompleteInv, TogetherInv

\* What Redis and the connection do between two answers.
LEMMA QuietStep ==
    ASSUME IInv, Lose \/ BlockTimeout \/ ReadFails \/ Retry \/ Break \/ Reconnect
    PROVE  IInv'
<1>1. TypeOK /\ ReplyInv /\ BeatInv
    BY DEF IInv
<1>2. /\ UNCHANGED <<log, lastId, conn, got, alive, unanswered, since, threshold>>
      /\ gone \subseteq gone' /\ gone' \subseteq DOMAIN log
    BY <1>1 DEF Lose, BlockTimeout, ReadFails, Retry, Break, Reconnect, stream, reader, beat, TypeOK
<1>3. reply' = reply \/ reply' = <<>>
    BY DEF Lose, BlockTimeout, ReadFails, Retry, Break, Reconnect, reader
<1>4. faults' \in 0 .. MaxFaults
    <2>1. faults \in 0 .. MaxFaults /\ MaxFaults \in Nat
        BY <1>1, FanoutAssumption DEF TypeOK
    <2> QED BY <2>1 DEF Lose, BlockTimeout, ReadFails, Retry, Break, Reconnect
<1>5. /\ xread' \in {"issued", "blocked", "answered", "sleeping"}
      /\ link' \in {"up", "down"}
    BY <1>1 DEF Lose, BlockTimeout, ReadFails, Retry, Break, Reconnect, reader, TypeOK
<1>6. TypeOK'
    <2>1. reply' \in Seq(DOMAIN log)
        <3>1. <<>> \in Seq(DOMAIN log) /\ reply \in Seq(DOMAIN log)
            BY <1>1 DEF TypeOK
        <3> QED BY <1>3, <3>1
    <2> QED BY <1>1, <1>2, <1>4, <1>5, <2>1 DEF TypeOK
<1>7. ReplyInv'
    <2>1. CASE Lose
        BY <1>1, <1>2, <2>1 DEF Lose, reader, ReplyInv
    <2>2. CASE BlockTimeout
        <3>1. DOMAIN reply' = {}
            BY <2>2 DEF BlockTimeout
        <3> QED BY <1>1, <1>2, <2>2, <3>1 DEF BlockTimeout, ReplyInv
    <2>3. CASE ReadFails \/ Retry
        BY <1>1, <1>2, <2>3 DEF ReadFails, Retry, stream, ReplyInv
    <2>4. CASE Break
        <3>1. DOMAIN reply' = {} /\ reply' = <<>>
            BY <2>4 DEF Break
        <3>2. xread' \notin {"blocked", "answered"}
            BY <1>1, <2>4 DEF Break, TypeOK
        <3> QED BY <1>1, <1>2, <3>1, <3>2 DEF ReplyInv
    <2>5. CASE Reconnect
        BY <1>1, <1>2, <2>5 DEF Reconnect, stream, ReplyInv
    <2> QED BY <2>1, <2>2, <2>3, <2>4, <2>5
<1>8. BeatInv'
    BY <1>1, <1>2 DEF BeatInv
<1> QED BY <1>2, <1>6, <1>7, <1>8, FeedFrame DEF IInv

\* A new entry completes an XREAD that waits at the end of the log.
LEMMA AddStep ==
    ASSUME IInv, NEW kind \in {"event", "foreign"}, Add(kind)
    PROVE  IInv'
<1>1. TypeOK /\ ReplyInv /\ BeatInv
    BY DEF IInv
<1>2. /\ log' = Append(log, kind)
      /\ UNCHANGED <<gone, lastId, threshold, link, faults, conn, got, alive, unanswered, since>>
    BY DEF Add, beat
<1>3. /\ log' \in Seq({"event", "foreign"}) /\ Len(log') = Len(log) + 1
      /\ DOMAIN log' = 1 .. Len(log) + 1
      /\ \A n \in 1 .. Len(log) : log'[n] = log[n]
    BY <1>1, <1>2, Numbers
<1>4. DOMAIN log \subseteq DOMAIN log' /\ 0 .. Len(log) \subseteq 0 .. Len(log')
    BY <1>1, <1>3, Numbers
<1>5. got' \in [Dashboards -> Seq(0 .. Len(log'))]
    <2>1. \A d \in Dashboards : got[d] \in Seq(0 .. Len(log'))
        <3>1. ASSUME NEW d \in Dashboards PROVE got[d] \in Seq(0 .. Len(log'))
            <4>1. got[d] \in Seq(0 .. Len(log))
                BY <1>1, Numbers
            <4> QED BY <1>4, <4>1, SeqWider
        <3> QED BY <3>1
    <2>2. got \in [Dashboards -> Seq(0 .. Len(log))]
        BY <1>1 DEF TypeOK
    <2> QED BY <1>2, <2>1, <2>2
<1>6. ASSUME xread = "blocked"
      PROVE  TypeOK' /\ ReplyInv'
    <2>1. xread' = "answered" /\ reply' = <<Len(log) + 1>>
        BY <1>6 DEF Add
    <2>2. /\ reply' \in Seq(DOMAIN log') /\ DOMAIN reply' = {1} /\ reply'[1] = Len(log) + 1
        BY <1>1, <1>3, <2>1, Numbers
    <2>3. \A n \in threshold + 1 .. Len(log) + 1 : n \in gone \/ n = Len(log) + 1
        BY <1>1, <1>6, Numbers DEF ReplyInv
    <2>4. ReplyInv'
        BY <1>1, <1>2, <1>6, <2>1, <2>2, <2>3, Numbers DEF ReplyInv
    <2>5. TypeOK'
        BY <1>1, <1>2, <1>3, <1>4, <1>5, <2>1, <2>2 DEF TypeOK
    <2> QED BY <2>4, <2>5
<1>7. ASSUME xread # "blocked"
      PROVE  TypeOK' /\ ReplyInv'
    <2>1. UNCHANGED <<xread, reply>>
        BY <1>7 DEF Add
    <2>2. reply' \in Seq(DOMAIN log')
        <3>1. reply \in Seq(DOMAIN log)
            BY <1>1 DEF TypeOK
        <3> QED BY <1>4, <2>1, <3>1
    <2>3. ReplyInv'
        BY <1>1, <1>2, <1>7, <2>1 DEF ReplyInv
    <2>4. TypeOK'
        BY <1>1, <1>2, <1>3, <1>4, <1>5, <2>1, <2>2 DEF TypeOK
    <2> QED BY <2>3, <2>4
<1>8. BeatInv' /\ OrderInv' /\ TogetherInv'
    BY <1>1, <1>2 DEF IInv, BeatInv, OrderInv, TogetherInv
<1>9. DeliveredInv'
    <2>1. \A d \in Dashboards : \A i \in 2 .. Len(got[d]) :
             got[d][i] \in 1 .. lastId /\ log[got[d][i]] = "event"
        BY DEF IInv, DeliveredInv
    <2>2. 1 .. lastId \subseteq 1 .. Len(log)
        BY <1>1, Numbers
    <2> QED BY <1>2, <1>3, <2>1, <2>2 DEF IInv, DeliveredInv
<1>10. CompleteInv'
    <2>1. \A d \in Dashboards : \A i \in 2 .. Len(got[d]) : \A n \in got[d][i] + 1 .. lastId :
             n \in 1 .. Len(log)
        <3>1. \A d \in Dashboards : \A i \in 2 .. Len(got[d]) : got[d][i] \in Nat
            BY <1>1, Numbers
        <3> QED BY <1>1, <3>1, Numbers
    <2> QED BY <1>2, <1>3, <2>1 DEF IInv, CompleteInv
<1> QED BY <1>6, <1>7, <1>8, <1>9, <1>10 DEF IInv

\* An XREAD that finds entries takes the first of them, all that are there up
\* to its last one.
LEMMA ServeStep ==
    ASSUME IInv, Serve
    PROVE  IInv'
<1>1. TypeOK /\ ReplyInv /\ BeatInv
    BY DEF IInv
<1> DEFINE after == IF lastId = Latest THEN Len(log) ELSE lastId
           ready == {i \in after + 1 .. Len(log) : i \notin gone}
           first == Ascending(ready)
           c == Cardinality(ready)
           m == IF c < Count THEN c ELSE Count
<1>2. /\ xread = "issued" /\ threshold' = after
      /\ UNCHANGED <<log, gone, lastId, link, faults, conn, got, alive, unanswered, since>>
      /\ \/ ready = {} /\ xread' = "blocked" /\ UNCHANGED reply
         \/ /\ ready # {} /\ xread' = "answered"
            /\ reply' = SubSeq(first, 1, IF Len(first) < Count THEN Len(first) ELSE Count)
    BY DEF Serve, stream, beat
<1>3. /\ after \in 0 .. Len(log) /\ ready \in SUBSET (1 .. Len(log))
      /\ \A n \in ready : n \in Int /\ n > after
      /\ \A n \in after + 1 .. Len(log) : n \in gone \/ n \in ready
      /\ after = lastId \/ lastId = Latest
    BY <1>1, Numbers
<1> HIDE DEF after, ready
<1>4. /\ c \in Nat /\ first \in [1 .. c -> ready]
      /\ \A j, k \in 1 .. c : j < k => first[j] < first[k]
      /\ \A i \in ready : \E k \in 1 .. c : first[k] = i
    BY <1>1, <1>3, Numbers, AscendingFacts
<1> HIDE DEF first, c
<1>5. first \in Seq(ready) /\ Len(first) = c
    BY <1>4
<1>6. /\ TypeOK' /\ reply' \in Seq(DOMAIN log)
      /\ xread' = "blocked" => reply' = <<>> /\ \A n \in after + 1 .. Len(log) : n \in gone
      /\ \A j, k \in DOMAIN reply' : j < k => reply'[j] < reply'[k]
      /\ \A k \in DOMAIN reply' : reply'[k] > after
      /\ \A k \in DOMAIN reply' : \A n \in after + 1 .. reply'[k] :
            n \in gone \/ \E j \in DOMAIN reply' : reply'[j] = n
    <2>1. ASSUME ready = {}, xread' = "blocked", UNCHANGED reply
          PROVE  /\ reply' = <<>> /\ reply' \in Seq(DOMAIN log)
                 /\ \A n \in after + 1 .. Len(log) : n \in gone
                 /\ DOMAIN reply' = {}
        BY <1>1, <1>2, <1>3, <2>1 DEF ReplyInv
    <2>2. ASSUME ready # {}, reply' = SubSeq(first, 1, m)
          PROVE  /\ reply' \in Seq(DOMAIN log)
                 /\ \A j, k \in DOMAIN reply' : j < k => reply'[j] < reply'[k]
                 /\ \A k \in DOMAIN reply' : reply'[k] > after
                 /\ \A k \in DOMAIN reply' : \A n \in after + 1 .. reply'[k] :
                       n \in gone \/ \E j \in DOMAIN reply' : reply'[j] = n
        <3>1. c >= 1 /\ m \in 1 .. c /\ 1 .. m \subseteq 1 .. c
            BY <1>4, <2>2, FanoutAssumption
        <3>2. \A i \in 1 .. m : first[i] \in ready
            BY <1>4, <3>1
        <3> HIDE DEF m
        <3>3. /\ reply' \in Seq(ready) /\ Len(reply') = m
              /\ \A i \in 1 .. m : reply'[i] = first[i]
            BY <2>2, <3>1, <3>2, SubSeqProperties
        <3>4. DOMAIN reply' = 1 .. m /\ \A i \in 1 .. m : i \in Int
            BY <3>3
        <3>5. reply' \in Seq(DOMAIN log)
            BY <1>1, <1>3, <3>3, Numbers, SeqWider
        <3>6. \A j, k \in 1 .. m : j < k => reply'[j] < reply'[k]
            BY <1>4, <3>1, <3>3
        <3>7. \A k \in 1 .. m : reply'[k] > after
            BY <1>3, <3>2, <3>3
        <3>8. ASSUME NEW k \in 1 .. m, NEW n \in after + 1 .. reply'[k], n \notin gone
              PROVE  \E j \in 1 .. m : reply'[j] = n
            <4>1. reply'[k] \in ready /\ reply'[k] \in 1 .. Len(log)
                BY <1>3, <3>2, <3>3
            <4>2. n \in ready
                BY <1>1, <1>3, <3>8, <4>1, Numbers
            <4>3. PICK j \in 1 .. c : first[j] = n
                BY <1>4, <4>2
            <4>4. ~(k < j)
                <5>1. k < j => first[k] < n
                    BY <1>4, <3>1, <4>3
                <5>2. first[k] = reply'[k] /\ first[k] \in Int /\ n <= reply'[k] /\ n \in Int
                    BY <1>3, <3>3, <3>8, <4>1
                <5> QED BY <5>1, <5>2
            <4> QED BY <3>1, <3>3, <4>3, <4>4
        <3> QED BY <3>4, <3>5, <3>6, <3>7, <3>8
    <2>3. TypeOK'
        <3>1. reply' \in Seq(DOMAIN log)
            BY <1>2, <1>5, <2>1, <2>2
        <3>2. threshold' \in 0 .. Len(log) /\ xread' \in {"blocked", "answered"}
            BY <1>2, <1>3
        <3> QED BY <1>1, <1>2, <3>1, <3>2 DEF TypeOK
    <2> QED BY <1>2, <1>5, <2>1, <2>2, <2>3
<1>7. ReplyInv'
    BY <1>2, <1>3, <1>6 DEF ReplyInv
<1>8. BeatInv'
    BY <1>1, <1>2 DEF BeatInv
<1> QED BY <1>2, <1>6, <1>7, <1>8, FeedFrame DEF IInv

\* Dashboards that come start with the handshake; those that go keep what they
\* have.
LEMMA ConnStep ==
    ASSUME IInv, NEW d \in Dashboards, Connect(d) \/ Disconnect(d) \/ Heartbeat(d) \/ Pong(d)
    PROVE  IInv'
<1>1. TypeOK /\ ReplyInv /\ BeatInv
    BY DEF IInv
<1>2. UNCHANGED <<log, gone, lastId, xread, threshold, reply, link, faults>>
    BY DEF Connect, Disconnect, Heartbeat, Pong, stream, reader
<1>3. ReplyInv'
    BY <1>1, <1>2 DEF ReplyInv
<1>4. CASE Connect(d)
    <2>1. /\ conn[d] = "idle" /\ conn' = [conn EXCEPT ![d] = "open"]
          /\ alive' = [alive EXCEPT ![d] = TRUE] /\ UNCHANGED unanswered
          /\ got' = [got EXCEPT ![d] = <<Handshake>>] /\ since' = [since EXCEPT ![d] = Len(log)]
        BY <1>4 DEF Connect
    <2>2. <<Handshake>> \in Seq(0 .. Len(log)) /\ Len(log) \in 0 .. Len(log)
        <3>1. Handshake \in 0 .. Len(log) /\ Len(log) \in 0 .. Len(log)
            BY <1>1, Numbers DEF Handshake
        <3> QED BY <3>1
    <2>3. TypeOK'
        BY <1>1, <1>2, <2>1, <2>2 DEF TypeOK
    <2>4. BeatInv'
        BY <1>1, <2>1 DEF BeatInv, TypeOK
    <2>5. /\ got'[d] = <<Handshake>> /\ Len(got'[d]) = 1 /\ 2 .. Len(got'[d]) = {}
          /\ \A e \in Dashboards \ {d} : got'[e] = got[e] /\ conn'[e] = conn[e]
        BY <1>1, <2>1 DEF TypeOK
    <2>6. \A e \in Dashboards : \A i \in 2 .. Len(got'[e]) :
             e # d /\ got'[e] = got[e] /\ conn'[e] = conn[e]
        BY <2>5
    <2>7. DeliveredInv'
        BY <1>2, <2>5, <2>6 DEF IInv, DeliveredInv
    <2>8. OrderInv'
        BY <2>6 DEF IInv, OrderInv
    <2>9. CompleteInv'
        BY <1>2, <2>6 DEF IInv, CompleteInv
    <2>10. TogetherInv'
        <3> SUFFICES ASSUME NEW x \in Dashboards, NEW e \in Dashboards,
                            NEW i \in 2 .. Len(got'[x]), NEW j \in 2 .. Len(got'[e]),
                            got'[e][j] <= got'[x][i],
                            conn'[e] = "open" \/ \E k \in 2 .. Len(got'[e]) : got'[x][i] <= got'[e][k]
                     PROVE  \E k \in 2 .. Len(got'[e]) : got'[e][k] = got'[x][i]
            BY DEF TogetherInv
        <3>1. got'[x] = got[x] /\ got'[e] = got[e] /\ (conn'[e] = "open" => conn[e] = "open")
            BY <2>6
        <3> QED BY <3>1 DEF IInv, TogetherInv
    <2> QED BY <1>3, <2>3, <2>4, <2>7, <2>8, <2>9, <2>10 DEF IInv
<1>5. CASE Disconnect(d) \/ Heartbeat(d) \/ Pong(d)
    <2>1. /\ conn[d] = "open" /\ UNCHANGED <<got, since>>
          /\ \/ UNCHANGED conn
             \/ conn' = [conn EXCEPT ![d] = "closed"]
             \/ /\ conn' = [conn EXCEPT ![d] = "terminated"]
                /\ ~alive[d] /\ UNCHANGED <<alive, unanswered>>
          /\ \/ UNCHANGED <<alive, unanswered>>
             \/ /\ alive[d] /\ alive' = [alive EXCEPT ![d] = FALSE]
                /\ unanswered' = [unanswered EXCEPT ![d] = @ + 1]
             \/ /\ alive' = [alive EXCEPT ![d] = TRUE]
                /\ unanswered' = [unanswered EXCEPT ![d] = 0]
        BY <1>5 DEF Disconnect, Heartbeat, Pong, beat
    <2>2. /\ conn' \in [Dashboards -> {"idle", "open", "closed", "terminated"}]
          /\ \A e \in Dashboards : conn'[e] = "open" => conn[e] = "open"
          /\ \A e \in Dashboards : conn'[e] = "idle" => conn[e] = "idle"
        BY <1>1, <2>1 DEF TypeOK
    <2>3. /\ alive' \in [Dashboards -> BOOLEAN]
          /\ unanswered' \in [Dashboards -> 0 .. 1]
        <3>1. alive[d] => unanswered[d] + 1 \in 0 .. 1
            <4>1. alive[d] => unanswered[d] = 0
                BY <1>1, Zenon DEF BeatInv
            <4> QED BY <4>1
        <3>2. CASE UNCHANGED <<alive, unanswered>>
            BY <1>1, <3>2 DEF TypeOK
        <3>3. CASE /\ alive[d] /\ alive' = [alive EXCEPT ![d] = FALSE]
                   /\ unanswered' = [unanswered EXCEPT ![d] = @ + 1]
            BY <1>1, <3>1, <3>3 DEF TypeOK
        <3>4. CASE /\ alive' = [alive EXCEPT ![d] = TRUE]
                   /\ unanswered' = [unanswered EXCEPT ![d] = 0]
            BY <1>1, <3>4 DEF TypeOK
        <3> QED BY <2>1, <3>2, <3>3, <3>4
    <2>4. TypeOK'
        BY <1>1, <1>2, <2>1, <2>2, <2>3 DEF TypeOK
    <2>5. BeatInv'
        BY <1>1, <2>1, <2>2 DEF BeatInv, TypeOK
    <2>6. DeliveredInv' /\ OrderInv'
        BY <1>2, <2>1, <2>2 DEF IInv, DeliveredInv, OrderInv
    <2>7. CompleteInv'
        BY <1>2, <2>1, <2>2 DEF IInv, CompleteInv
    <2>8. TogetherInv'
        <3> SUFFICES ASSUME NEW x \in Dashboards, NEW e \in Dashboards,
                            NEW i \in 2 .. Len(got'[x]), NEW j \in 2 .. Len(got'[e]),
                            got'[e][j] <= got'[x][i],
                            conn'[e] = "open" \/ \E k \in 2 .. Len(got'[e]) : got'[x][i] <= got'[e][k]
                     PROVE  \E k \in 2 .. Len(got'[e]) : got'[e][k] = got'[x][i]
            BY DEF TogetherInv
        <3>1. got'[x] = got[x] /\ got'[e] = got[e] /\ (conn'[e] = "open" => conn[e] = "open")
            BY <2>1, <2>2
        <3> QED BY <3>1 DEF IInv, TogetherInv
    <2> QED BY <1>3, <2>4, <2>5, <2>6, <2>7, <2>8 DEF IInv
<1> QED BY <1>4, <1>5

-----------------------------------------------------------------------------
\* What an answer that is not empty passes on: the events after the position,
\* all that Redis still had, up to the new position.
LEMMA HandleFacts ==
    ASSUME IInv, Handle, reply # <<>>
    PROVE  \E sent \in Seq(1 .. Len(log)) :
              /\ got' = [d \in Dashboards |-> IF conn[d] = "open" THEN got[d] \o sent ELSE got[d]]
              /\ lastId' \in 1 .. Len(log) /\ lastId <= threshold /\ threshold < lastId'
              /\ \A j, k \in DOMAIN sent : j < k => sent[j] < sent[k]
              /\ \A k \in DOMAIN sent : sent[k] \in threshold + 1 .. lastId' /\ log[sent[k]] = "event"
              /\ \A n \in threshold + 1 .. lastId' :
                    n \in gone \/ log[n] = "foreign" \/ \E k \in DOMAIN sent : sent[k] = n
<1>1. TypeOK /\ ReplyInv
    BY DEF IInv
<1>2. /\ xread = "answered" /\ lastId' = Last(reply)
      /\ broadcast(Payloads(reply))
    BY DEF Handle
<1> DEFINE S == {k \in DOMAIN reply : log[reply[k]] = "event"}
           sent == Picked(reply, S)
<1>3. /\ reply \in Seq(1 .. Len(log)) /\ Len(reply) \in Nat /\ DOMAIN reply = 1 .. Len(reply)
      /\ \A k \in DOMAIN reply : reply[k] \in 1 .. Len(log)
      /\ S \in SUBSET (1 .. Len(reply)) /\ Payloads(reply) = sent
      /\ \A k \in DOMAIN reply : k \in S <=> log[reply[k]] = "event"
    BY <1>1, Numbers DEF Payloads
<1>4. Len(reply) \in DOMAIN reply /\ lastId' = reply[Len(reply)]
    BY <1>2, <1>3 DEF Last
<1> HIDE DEF sent, S
<1>5. /\ sent \in Seq(1 .. Len(log)) /\ DOMAIN sent = 1 .. Len(sent)
      /\ \A k \in DOMAIN sent : \E i \in S : sent[k] = reply[i]
      /\ \A j, k \in DOMAIN sent : j < k => \E i, l \in S : i < l /\ sent[j] = reply[i] /\ sent[k] = reply[l]
      /\ \A i \in S : \E k \in DOMAIN sent : sent[k] = reply[i]
    <2>1. Picked(reply, S) \in Seq(1 .. Len(log))
        BY <1>3, PickedFacts
    <2>2. DOMAIN Picked(reply, S) = 1 .. Len(Picked(reply, S))
        BY <2>1
    <2>3. \A k \in 1 .. Len(Picked(reply, S)) : \E i \in S : Picked(reply, S)[k] = reply[i]
        BY <1>3, PickedFacts
    <2>4. \A j, k \in 1 .. Len(Picked(reply, S)) : j < k =>
             \E i, l \in S : i < l /\ Picked(reply, S)[j] = reply[i] /\ Picked(reply, S)[k] = reply[l]
        BY <1>3, PickedFacts
    <2>5. \A i \in S : \E k \in 1 .. Len(Picked(reply, S)) : Picked(reply, S)[k] = reply[i]
        BY <1>3, PickedFacts
    <2>6. DOMAIN sent = 1 .. Len(sent) /\ sent \in Seq(1 .. Len(log))
        BY <2>1, <2>2 DEF sent
    <2>7. \A k \in DOMAIN sent : \E i \in S : sent[k] = reply[i]
        BY <2>6, <2>3 DEF sent
    <2>8. \A j, k \in DOMAIN sent : j < k => \E i, l \in S : i < l /\ sent[j] = reply[i] /\ sent[k] = reply[l]
        BY <2>6, <2>4 DEF sent
    <2>9. \A i \in S : \E k \in DOMAIN sent : sent[k] = reply[i]
        BY <2>6, <2>5 DEF sent
    <2> QED BY <2>6, <2>7, <2>8, <2>9
<1>6. /\ lastId' \in 1 .. Len(log) /\ lastId <= threshold /\ threshold < lastId'
    BY <1>1, <1>2, <1>3, <1>4, Numbers DEF ReplyInv, Latest
<1>7. \A j, k \in DOMAIN sent : j < k => sent[j] < sent[k]
    <2>1. \A i, l \in S : i < l => reply[i] < reply[l]
        BY <1>1, <1>3 DEF ReplyInv
    <2>2. ASSUME NEW j \in DOMAIN sent, NEW k \in DOMAIN sent, j < k
          PROVE  sent[j] < sent[k]
        <3>1. PICK i \in S, l \in S : i < l /\ sent[j] = reply[i] /\ sent[k] = reply[l]
            BY <1>5, <2>2
        <3> QED BY <2>1, <3>1
    <2> QED BY <2>2
<1>8. \A k \in DOMAIN sent : sent[k] \in threshold + 1 .. lastId' /\ log[sent[k]] = "event"
    <2>1. \A i \in S : i \in DOMAIN reply /\ log[reply[i]] = "event"
        BY <1>3
    <2>2. \A i \in DOMAIN reply : reply[i] <= lastId'
        <3>1. \A i \in DOMAIN reply : i = Len(reply) \/ i < Len(reply)
            BY <1>3
        <3>2. \A i \in DOMAIN reply : i < Len(reply) => reply[i] < lastId'
            BY <1>1, <1>4 DEF ReplyInv
        <3> QED BY <1>3, <1>4, <3>1, <3>2
    <2>3. \A i \in DOMAIN reply : reply[i] \in threshold + 1 .. lastId'
        <3>1. \A i \in DOMAIN reply : reply[i] > threshold
            BY <1>1 DEF ReplyInv
        <3> QED BY <1>1, <1>3, <1>6, <2>2, <3>1, Numbers
    <2> QED BY <1>5, <2>1, <2>3
<1>9. \A n \in threshold + 1 .. lastId' :
         n \in gone \/ log[n] = "foreign" \/ \E k \in DOMAIN sent : sent[k] = n
    <2> SUFFICES ASSUME NEW n \in threshold + 1 .. lastId', n \notin gone, log[n] # "foreign"
                 PROVE  \E k \in DOMAIN sent : sent[k] = n
        OBVIOUS
    <2>1. PICK j \in DOMAIN reply : reply[j] = n
        BY <1>1, <1>4 DEF ReplyInv
    <2>2. n \in 1 .. Len(log) /\ log[n] = "event"
        BY <1>1, <1>3, <2>1, Numbers
    <2>3. j \in S
        BY <1>3, <2>1, <2>2
    <2> QED BY <1>5, <2>1, <2>3
<1>10. got' = [d \in Dashboards |-> IF conn[d] = "open" THEN got[d] \o sent ELSE got[d]]
    BY <1>2, <1>3 DEF broadcast
<1> QED BY <1>5, <1>6, <1>7, <1>8, <1>9, <1>10

\* An answer without entries passes nothing on.
LEMMA HandleNothing ==
    ASSUME IInv, Handle, reply = <<>>
    PROVE  got' = got /\ lastId' = lastId
<1>1. lastId' = lastId /\ broadcast(Payloads(<<>>))
    BY DEF Handle
<1>2. Payloads(<<>>) = <<>>
    <2> DEFINE S == {k \in DOMAIN <<>> : log[<<>>[k]] = "event"}
    <2>1. S = {} /\ Payloads(<<>>) = Picked(<<>>, S)
        BY DEF Payloads
    <2>2. Cardinality({}) = 0
        BY FS_EmptySet
    <2>3. DOMAIN Ascending({}) = {}
        BY <2>2 DEF Ascending
    <2>4. Picked(<<>>, {}) = [k \in {} |-> <<>>[Ascending({})[k]]]
        BY <2>3 DEF Picked
    <2> QED BY <2>1, <2>4
<1>3. \A d \in Dashboards : got[d] \o <<>> = got[d]
    <2>1. \A d \in Dashboards : got[d] \in Seq(Nat)
        BY Numbers DEF IInv
    <2> QED BY <2>1
<1>4. got \in [Dashboards -> Seq(0 .. Len(log))]
    BY DEF IInv, TypeOK
<1> QED BY <1>1, <1>2, <1>3, <1>4 DEF broadcast

\* A feed that was started grows at its end.
LEMMA FeedGrows ==
    ASSUME NEW V, NEW q \in Seq(V), NEW r \in Seq(V), Len(q) >= 1
    PROVE  /\ q \o r \in Seq(V) /\ Len(q \o r) >= Len(q)
           /\ \A i \in 2 .. Len(q) : i \in 2 .. Len(q \o r) /\ (q \o r)[i] = q[i]
           /\ \A i \in 2 .. Len(q \o r) :
                 \/ i \in 2 .. Len(q)
                 \/ /\ i - Len(q) \in DOMAIN r /\ (q \o r)[i] = r[i - Len(q)]
                    /\ \A j \in 2 .. Len(q) : j < i
<1>1. Len(q) \in Nat /\ Len(r) \in Nat /\ DOMAIN r = 1 .. Len(r)
    OBVIOUS
<1>2. /\ q \o r \in Seq(V) /\ Len(q \o r) = Len(q) + Len(r)
      /\ \A i \in 1 .. Len(q) + Len(r) : (q \o r)[i] = IF i <= Len(q) THEN q[i] ELSE r[i - Len(q)]
    OBVIOUS
<1>3. \A i \in 2 .. Len(q) : i \in 2 .. Len(q) + Len(r) /\ (q \o r)[i] = q[i]
    BY <1>1, <1>2
<1>4. ASSUME NEW i \in 2 .. Len(q) + Len(r), i \notin 2 .. Len(q)
      PROVE  /\ i - Len(q) \in DOMAIN r /\ (q \o r)[i] = r[i - Len(q)]
             /\ \A j \in 2 .. Len(q) : j < i
    BY <1>1, <1>2, <1>4
<1>5. Len(q \o r) >= Len(q)
    BY <1>1, <1>2
<1> QED BY <1>1, <1>2, <1>3, <1>4, <1>5

\* An answer that is handled goes to all who are open, behind what they have.
LEMMA HandleStep ==
    ASSUME IInv, Handle
    PROVE  IInv'
<1>1. TypeOK /\ ReplyInv /\ BeatInv /\ DeliveredInv
    BY DEF IInv
<1>2. /\ UNCHANGED <<log, gone, threshold, link, faults, conn, alive, unanswered, since>>
      /\ xread = "answered" /\ xread' = "issued" /\ reply' = <<>>
    BY DEF Handle, stream, beat
<1>3. /\ ReplyInv' /\ BeatInv' /\ reply' \in Seq(DOMAIN log)
    <2>1. DOMAIN reply' = {} /\ <<>> \in Seq(DOMAIN log)
        BY <1>2
    <2> QED BY <1>1, <1>2, <2>1 DEF ReplyInv, BeatInv
<1>4. CASE reply = <<>>
    <2>1. UNCHANGED <<got, lastId>>
        BY <1>4, HandleNothing
    <2>2. TypeOK'
        BY <1>1, <1>2, <1>3, <2>1 DEF TypeOK
    <2> QED BY <1>2, <1>3, <2>1, <2>2, FeedFrame DEF IInv
<1>5. CASE reply # <<>>
    <2>1. PICK sent \in Seq(1 .. Len(log)) :
              /\ got' = [d \in Dashboards |-> IF conn[d] = "open" THEN got[d] \o sent ELSE got[d]]
              /\ lastId' \in 1 .. Len(log) /\ lastId <= threshold /\ threshold < lastId'
              /\ \A j, k \in DOMAIN sent : j < k => sent[j] < sent[k]
              /\ \A k \in DOMAIN sent : sent[k] \in threshold + 1 .. lastId' /\ log[sent[k]] = "event"
              /\ \A n \in threshold + 1 .. lastId' :
                    n \in gone \/ log[n] = "foreign" \/ \E k \in DOMAIN sent : sent[k] = n
        BY <1>5, HandleFacts
    <2>2. /\ lastId \in Nat /\ threshold \in Nat /\ lastId' \in Nat
          /\ lastId = Latest \/ threshold = lastId
        BY <1>1, <1>2, <2>1, Numbers DEF ReplyInv
    <2>3. ASSUME NEW d \in Dashboards
          PROVE  /\ got'[d] \in Seq(0 .. Len(log)) /\ Len(got'[d]) >= Len(got[d])
                 /\ conn[d] # "open" => got'[d] = got[d]
                 /\ \A i \in 2 .. Len(got[d]) : i \in 2 .. Len(got'[d]) /\ got'[d][i] = got[d][i]
                 /\ \A i \in 2 .. Len(got'[d]) :
                       \/ i \in 2 .. Len(got[d])
                       \/ /\ conn[d] = "open" /\ i - Len(got[d]) \in DOMAIN sent
                          /\ got'[d][i] = sent[i - Len(got[d])]
                          /\ \A j \in 2 .. Len(got[d]) : j < i
                 /\ conn[d] = "open" =>
                       \A k \in DOMAIN sent : \E i \in 2 .. Len(got'[d]) : got'[d][i] = sent[k]
        <3>1. /\ got[d] \in Seq(0 .. Len(log)) /\ Len(got[d]) \in Nat
              /\ DOMAIN sent = 1 .. Len(sent) /\ Len(sent) \in Nat
              /\ sent \in Seq(0 .. Len(log))
            <4>1. 1 .. Len(log) \subseteq 0 .. Len(log)
                BY <1>1, Numbers
            <4> QED BY <1>1, <4>1, Numbers, SeqWider
        <3>2. CASE conn[d] # "open"
            BY <2>1, <3>1, <3>2
        <3>3. CASE conn[d] = "open"
            <4>1. got'[d] = got[d] \o sent
                BY <2>1, <3>3
            <4>2. Len(got[d]) >= 1
                BY <1>1, <3>1, <3>3 DEF DeliveredInv
            <4> DEFINE all == got[d] \o sent
            <4>3. /\ all \in Seq(0 .. Len(log)) /\ Len(all) >= Len(got[d])
                  /\ \A i \in 2 .. Len(got[d]) : i \in 2 .. Len(all) /\ all[i] = got[d][i]
                BY <3>1, <4>2, FeedGrows
            <4>4. \A i \in 2 .. Len(all) :
                     \/ i \in 2 .. Len(got[d])
                     \/ /\ i - Len(got[d]) \in DOMAIN sent /\ all[i] = sent[i - Len(got[d])]
                        /\ \A j \in 2 .. Len(got[d]) : j < i
                BY <3>1, <4>2, FeedGrows
            <4>5. ASSUME NEW k \in DOMAIN sent
                  PROVE  k + Len(got[d]) \in 2 .. Len(all) /\ all[k + Len(got[d])] = sent[k]
                <5>1. k \in 1 .. Len(sent)
                    BY <3>1
                <5>2. /\ Len(all) = Len(got[d]) + Len(sent)
                      /\ \A i \in 1 .. Len(got[d]) + Len(sent) :
                            all[i] = IF i <= Len(got[d]) THEN got[d][i] ELSE sent[i - Len(got[d])]
                    BY <3>1
                <5> HIDE DEF all
                <5> DEFINE i == k + Len(got[d])
                <5>3. i \in 2 .. Len(all) /\ i \in 1 .. Len(got[d]) + Len(sent)
                      /\ ~(i <= Len(got[d])) /\ i - Len(got[d]) = k
                    BY <3>1, <4>2, <5>1, <5>2
                <5> HIDE DEF i
                <5>4. all[i] = sent[i - Len(got[d])]
                    BY <5>2, <5>3
                <5>5. all[i] = sent[k]
                    BY <5>3, <5>4
                <5> QED BY <5>3, <5>5 DEF i
            <4> HIDE DEF all
            <4>6. got'[d] = all
                BY <4>1 DEF all
            <4> QED BY <3>3, <4>3, <4>4, <4>5, <4>6
        <3> QED BY <3>2, <3>3
    <2>4. \A d \in Dashboards : \A i \in 2 .. Len(got[d]) :
             got[d][i] \in 1 .. lastId /\ got[d][i] <= threshold /\ log[got[d][i]] = "event" /\ i \in Int
        BY <1>1, <2>1, <2>2 DEF DeliveredInv
    <2>5. \A k \in DOMAIN sent : sent[k] \in 1 .. lastId' /\ sent[k] > threshold /\ sent[k] > lastId
        BY <2>1, <2>2
    <2>6. ASSUME NEW d \in Dashboards, NEW i \in 2 .. Len(got'[d]), i \notin 2 .. Len(got[d])
           PROVE  /\ conn[d] = "open"
                  /\ \E k \in DOMAIN sent : got'[d][i] = sent[k]
                  /\ got'[d][i] > threshold
        <3> DEFINE k == i - Len(got[d])
        <3>1. conn[d] = "open" /\ k \in DOMAIN sent /\ got'[d][i] = sent[k]
            BY <2>3, <2>6
        <3> HIDE DEF k
        <3> QED BY <2>5, <3>1
    <2>7. ASSUME NEW d \in Dashboards, conn[d] = "open", NEW k \in DOMAIN sent
           PROVE  \E i \in 2 .. Len(got'[d]) : got'[d][i] = sent[k]
        BY <2>3, <2>7
    <2>8. TypeOK'
        <3>1. got' \in [Dashboards -> Seq(0 .. Len(log))]
            BY <2>1, <2>3
        <3>2. lastId' \in 0 .. Len(log)
            BY <1>1, <2>1, Numbers
        <3> QED BY <1>1, <1>2, <1>3, <3>1, <3>2 DEF TypeOK
    <2>9. DeliveredInv'
        <3>1. \A d \in Dashboards : conn[d] = "open" => got'[d] # <<>>
            <4> SUFFICES ASSUME NEW d \in Dashboards, conn[d] = "open" PROVE got'[d] # <<>>
                OBVIOUS
            <4>1. Len(got[d]) >= 1
                BY <1>1, Numbers DEF DeliveredInv
            <4>2. Len(got'[d]) >= 1
                BY <1>1, <2>3, <4>1, Numbers
            <4> QED BY <4>2
        <3>2. ASSUME NEW d \in Dashboards, NEW i \in 2 .. Len(got'[d])
              PROVE  got'[d][i] \in 1 .. lastId' /\ log[got'[d][i]] = "event"
            <4>1. CASE i \in 2 .. Len(got[d])
                BY <2>1, <2>2, <2>3, <2>4, <4>1
            <4>2. CASE i \notin 2 .. Len(got[d])
                BY <2>1, <2>3, <2>5, <4>2
            <4> QED BY <4>1, <4>2
        <3> QED BY <1>2, <3>1, <3>2 DEF DeliveredInv
    <2>10. OrderInv'
        <3> SUFFICES ASSUME NEW d \in Dashboards, NEW i \in 2 .. Len(got'[d]), NEW j \in 2 .. Len(got'[d]),
                            i < j
                     PROVE  got'[d][i] < got'[d][j]
            BY DEF OrderInv
        <3>1. CASE i \in 2 .. Len(got[d]) /\ j \in 2 .. Len(got[d])
            BY <2>3, <3>1 DEF IInv, OrderInv
        <3>2. CASE i \in 2 .. Len(got[d]) /\ j \notin 2 .. Len(got[d])
            <4>1. got'[d][i] = got[d][i] /\ got[d][i] <= threshold /\ got[d][i] \in Int
                BY <2>3, <2>4, <3>2
            <4>2. got'[d][j] > threshold /\ got'[d][j] \in Int
                BY <2>1, <2>2, <2>3, <2>5, <3>2
            <4> QED BY <2>2, <4>1, <4>2
        <3>3. CASE i \notin 2 .. Len(got[d])
            <4>1. Len(got[d]) \in Nat /\ j \notin 2 .. Len(got[d])
                BY <1>1, <3>3, Numbers
            <4> DEFINE k == i - Len(got[d])
                       l == j - Len(got[d])
            <4>2. /\ k \in DOMAIN sent /\ got'[d][i] = sent[k]
                  /\ l \in DOMAIN sent /\ got'[d][j] = sent[l]
                BY <2>3, <3>3, <4>1
            <4>3. k < l
                BY <4>1
            <4> HIDE DEF k, l
            <4> QED BY <2>1, <4>2, <4>3
        <3> QED BY <3>1, <3>2, <3>3
    <2>11. CompleteInv'
        <3> SUFFICES ASSUME NEW d \in Dashboards, NEW i \in 2 .. Len(got'[d]),
                            NEW n \in got'[d][i] + 1 .. lastId'
                     PROVE  \/ conn[d] # "open" /\ \A k \in 2 .. Len(got'[d]) : got'[d][k] < n
                            \/ n \in gone \/ log[n] = "foreign"
                            \/ \E k \in 2 .. Len(got'[d]) : got'[d][k] = n
            BY <1>2 DEF CompleteInv
        <3>1. n \in Int /\ n > got'[d][i] /\ n <= lastId' /\ got'[d][i] \in Int
            BY <2>2, <2>9 DEF DeliveredInv
        <3>2. ASSUME i \in 2 .. Len(got[d]), n <= lastId
              PROVE  \/ conn[d] # "open" /\ \A k \in 2 .. Len(got[d]) : got[d][k] < n
                     \/ n \in gone \/ log[n] = "foreign"
                     \/ \E k \in 2 .. Len(got[d]) : got[d][k] = n
            <4>1. n \in got[d][i] + 1 .. lastId
                BY <2>2, <2>3, <3>1, <3>2
            <4> QED BY <3>2, <4>1 DEF IInv, CompleteInv
        <3>3. CASE conn[d] # "open"
            <4>1. got'[d] = got[d] /\ i \in 2 .. Len(got[d])
                BY <2>3, <3>3
            <4>2. CASE n <= lastId
                BY <3>2, <4>1, <4>2
            <4>3. CASE ~(n <= lastId)
                <5>1. \A k \in 2 .. Len(got[d]) : got[d][k] < n
                    BY <2>2, <2>4, <3>1, <4>3
                <5> QED BY <3>3, <4>1, <5>1
            <4> QED BY <4>2, <4>3
        <3>4. CASE conn[d] = "open" /\ n > threshold
            <4>1. n \in threshold + 1 .. lastId'
                BY <2>2, <3>1, <3>4
            <4>2. n \in gone \/ log[n] = "foreign" \/ \E k \in DOMAIN sent : sent[k] = n
                BY <2>1, <4>1
            <4> QED BY <2>7, <3>4, <4>2
        <3>5. CASE conn[d] = "open" /\ ~(n > threshold)
            <4>1. i \in 2 .. Len(got[d])
                <5> SUFFICES ASSUME i \notin 2 .. Len(got[d]) PROVE FALSE
                    OBVIOUS
                <5>1. got'[d][i] > threshold
                    BY <2>6
                <5> QED BY <2>2, <3>1, <3>5, <5>1
            <4>2. lastId = threshold
                <5>1. got[d][i] \in 1 .. lastId
                    BY <2>4, <4>1
                <5> QED BY <2>2, <5>1 DEF Latest
            <4>3. n <= lastId
                BY <2>2, <3>1, <3>5, <4>2
            <4> QED BY <2>3, <3>2, <3>5, <4>1, <4>3
        <3> QED BY <3>3, <3>4, <3>5
    <2>12. TogetherInv'
        <3> SUFFICES ASSUME NEW d \in Dashboards, NEW e \in Dashboards,
                            NEW i \in 2 .. Len(got'[d]), NEW j \in 2 .. Len(got'[e]),
                            got'[e][j] <= got'[d][i],
                            conn[e] = "open" \/ \E k \in 2 .. Len(got'[e]) : got'[d][i] <= got'[e][k]
                     PROVE  \E k \in 2 .. Len(got'[e]) : got'[e][k] = got'[d][i]
            BY <1>2 DEF TogetherInv
        <3>1. CASE i \notin 2 .. Len(got[d])
            <4>1. PICK k \in DOMAIN sent : got'[d][i] = sent[k]
                BY <2>6, <3>1
            <4>2. conn[e] = "open"
                <5> SUFFICES ASSUME conn[e] # "open",
                                    NEW l \in 2 .. Len(got'[e]), sent[k] <= got'[e][l]
                             PROVE  FALSE
                    BY <4>1
                <5>1. l \in 2 .. Len(got[e]) /\ got'[e][l] = got[e][l]
                    BY <2>3
                <5>2. got[e][l] <= threshold /\ got[e][l] \in Int /\ sent[k] > threshold /\ sent[k] \in Int
                    BY <2>1, <2>2, <2>4, <2>5, <5>1
                <5> QED BY <2>2, <5>1, <5>2
            <4> QED BY <2>7, <4>1, <4>2
        <3>2. CASE i \in 2 .. Len(got[d])
            <4>1. got'[d][i] = got[d][i] /\ got[d][i] <= threshold /\ got[d][i] \in Int
                BY <2>3, <2>4, <3>2
            <4>2. j \in 2 .. Len(got[e]) /\ got'[e][j] = got[e][j]
                <5>1. j \in 2 .. Len(got[e])
                    <6> SUFFICES ASSUME j \notin 2 .. Len(got[e]) PROVE FALSE
                        OBVIOUS
                    <6>1. got'[e][j] > threshold /\ got'[e][j] \in Int
                        BY <2>1, <2>2, <2>3, <2>5
                    <6> QED BY <2>2, <4>1, <6>1
                <5> QED BY <2>3, <5>1
            <4>3. conn[e] = "open" \/ \E k \in 2 .. Len(got[e]) : got[d][i] <= got[e][k]
                BY <2>3, <4>1
            <4>4. \E k \in 2 .. Len(got[e]) : got[e][k] = got[d][i]
                BY <3>2, <4>1, <4>2, <4>3 DEF IInv, TogetherInv
            <4> QED BY <2>3, <4>1, <4>4
        <3> QED BY <3>1, <3>2
    <2> QED BY <1>3, <2>8, <2>9, <2>10, <2>11, <2>12 DEF IInv
<1> QED BY <1>4, <1>5

-----------------------------------------------------------------------------
LEMMA InitIInv == Init => IInv
<1> SUFFICES ASSUME Init PROVE IInv
    OBVIOUS
<1>1. /\ log = <<>> /\ gone = {} /\ lastId = 0 /\ threshold = 0 /\ reply = <<>> /\ xread = "issued"
      /\ link \in {"up", "down"} /\ faults = 0
      /\ conn = [d \in Dashboards |-> "idle"] /\ got = [d \in Dashboards |-> <<>>]
      /\ alive = [d \in Dashboards |-> TRUE] /\ unanswered = [d \in Dashboards |-> 0]
      /\ since = [d \in Dashboards |-> 0]
    BY DEF Init, Latest
<1>2. DOMAIN log = {} /\ Len(log) = 0 /\ DOMAIN reply = {}
    BY <1>1
<1>3. \A S : <<>> \in Seq(S)
    OBVIOUS
<1>4. got \in [Dashboards -> Seq(0 .. Len(log))]
    BY <1>1, <1>3
<1>5. TypeOK
    BY <1>1, <1>2, <1>3, <1>4, FanoutAssumption DEF TypeOK
<1>6. ReplyInv /\ BeatInv
    BY <1>1, <1>2 DEF ReplyInv, BeatInv
<1>7. \A d \in Dashboards : conn[d] # "open" /\ 2 .. Len(got[d]) = {}
    BY <1>1
<1>8. DeliveredInv /\ OrderInv /\ CompleteInv /\ TogetherInv
    BY <1>7 DEF DeliveredInv, OrderInv, CompleteInv, TogetherInv
<1> QED BY <1>5, <1>6, <1>8 DEF IInv

LEMMA NextIInv == IInv /\ [Next]_vars => IInv'
<1> SUFFICES ASSUME IInv, [Next]_vars PROVE IInv'
    OBVIOUS
<1>1. CASE \E kind \in {"event", "foreign"} : Add(kind)
    BY <1>1, AddStep
<1>2. CASE Lose \/ BlockTimeout \/ ReadFails \/ Retry \/ Break \/ Reconnect
    BY <1>2, QuietStep
<1>3. CASE Serve
    BY <1>3, ServeStep
<1>4. CASE Handle
    BY <1>4, HandleStep
<1>5. CASE \E d \in Dashboards : Connect(d) \/ Disconnect(d) \/ Heartbeat(d) \/ Pong(d)
    BY <1>5, ConnStep
<1>6. CASE UNCHANGED vars
    BY <1>6 DEF vars, beat, IInv, TypeOK, ReplyInv, BeatInv, DeliveredInv, OrderInv, CompleteInv,
                TogetherInv
<1> QED BY <1>1, <1>2, <1>3, <1>4, <1>5, <1>6 DEF Next

LEMMA Invariance == Spec => []IInv
    BY InitIInv, NextIInv, PTL DEF Spec

\* Every variable of the reader and of the dashboards has its type.
THEOREM TypeCorrect == Spec => []TypeOK
<1>1. IInv => TypeOK
    BY DEF IInv
<1> QED BY <1>1, Invariance, PTL

\* startHeartbeat: a dashboard that answers is never ended, and one that does not
\* is sent no second ping.
THEOREM OnlyTheSilentEnd == Spec => []TerminatedIsSilent
<1>1. IInv => TerminatedIsSilent
    <2> SUFFICES ASSUME IInv, NEW d \in Dashboards
                 PROVE  /\ unanswered[d] <= 1
                        /\ conn[d] = "terminated" => unanswered[d] = 1
        BY DEF TerminatedIsSilent
    <2>1. unanswered[d] \in 0 .. 1
        BY DEF IInv, TypeOK
    <2>2. conn[d] = "terminated" => unanswered[d] # 0
        BY Zenon DEF IInv, BeatInv
    <2> QED BY <2>1, <2>2
<1> QED BY <1>1, Invariance, PTL

\* Whatever breaks, fails or is sent again: between two entries a dashboard got
\* only what Redis dropped or what is no event is missing, and none comes twice.
THEOREM FeedHasNoGap == Spec => []NoGapNoRepeat
<1>1. IInv => NoGapNoRepeat
    <2> SUFFICES ASSUME IInv, NEW d \in Dashboards, NEW i \in 2 .. Len(got[d]) - 1
                 PROVE  /\ got[d][i] < got[d][i + 1]
                        /\ \A n \in got[d][i] + 1 .. got[d][i + 1] - 1 : n \in gone \/ log[n] = "foreign"
        BY DEF NoGapNoRepeat
    <2>1. /\ Len(got[d]) \in Nat /\ lastId \in Nat
          /\ \A j \in 2 .. Len(got[d]) : got[d][j] \in Nat /\ got[d][j] <= lastId
        BY Numbers DEF IInv, DeliveredInv
    <2>2. i \in 2 .. Len(got[d]) /\ i + 1 \in 2 .. Len(got[d]) /\ i < i + 1
        BY <2>1
    <2>3. got[d][i] < got[d][i + 1]
        BY <2>2 DEF IInv, OrderInv
    <2>4. ASSUME NEW n \in got[d][i] + 1 .. got[d][i + 1] - 1
          PROVE  n \in gone \/ log[n] = "foreign"
        <3>1. n \in Int /\ got[d][i] < n /\ n < got[d][i + 1] /\ n \in got[d][i] + 1 .. lastId
            BY <2>1, <2>2
        <3>2. ~ \A k \in 2 .. Len(got[d]) : got[d][k] < n
            BY <2>1, <2>2, <3>1
        <3>3. ASSUME NEW k \in 2 .. Len(got[d]), got[d][k] = n
              PROVE  FALSE
            <4>1. k < i \/ k = i \/ k = i + 1 \/ i + 1 < k
                BY <2>1
            <4>2. k < i => got[d][k] < got[d][i]
                BY <2>2 DEF IInv, OrderInv
            <4>3. i + 1 < k => got[d][i + 1] < got[d][k]
                BY <2>2 DEF IInv, OrderInv
            <4> QED BY <2>1, <2>2, <3>1, <3>3, <4>1, <4>2, <4>3
        <3> QED BY <2>2, <3>1, <3>2, <3>3 DEF IInv, CompleteInv
    <2> QED BY <2>3, <2>4
<1> QED BY <1>1, Invariance, PTL

\* Two dashboards agree on every stretch of the log both have seen.
THEOREM FeedsAgree == Spec => []SameFeed
<1>1. IInv => SameFeed
    <2> SUFFICES ASSUME IInv, NEW d \in Dashboards, NEW e \in Dashboards, NEW i \in 2 .. Len(got[d]),
                        NEW j \in 2 .. Len(got[e]), NEW k \in 2 .. Len(got[e]),
                        got[e][j] <= got[d][i], got[d][i] <= got[e][k]
                 PROVE  got[d][i] \in ToSet(got[e])
        BY DEF SameFeed
    <2>1. PICK l \in 2 .. Len(got[e]) : got[e][l] = got[d][i]
        BY DEF IInv, TogetherInv
    <2>2. l \in DOMAIN got[e]
        BY Numbers DEF IInv
    <2> QED BY <2>1, <2>2 DEF ToSet
<1> QED BY <1>1, Invariance, PTL

-----------------------------------------------------------------------------
\* Handling an answer passes on one stretch of the log, or nothing.
LEMMA HandleDelivers ==
    ASSUME IInv, Handle
    PROVE  Feed!F_Deliver \/ UNCHANGED Feed!feed_vars
<1> DEFINE mapped == [d \in Dashboards |-> IF conn[d] = "terminated" THEN "closed" ELSE conn[d]]
<1>1. UNCHANGED <<log, gone, conn>> /\ TypeOK
    BY DEF Handle, stream, IInv
<1>2. CASE reply = <<>>
    <2>1. UNCHANGED <<got, lastId>>
        BY <1>2, HandleNothing
    <2> QED BY <1>1, <2>1 DEF Feed!feed_vars
<1>3. CASE reply # <<>>
    <2>1. PICK sent \in Seq(1 .. Len(log)) :
              /\ got' = [d \in Dashboards |-> IF conn[d] = "open" THEN got[d] \o sent ELSE got[d]]
              /\ lastId' \in 1 .. Len(log) /\ lastId <= threshold /\ threshold < lastId'
              /\ \A j, k \in DOMAIN sent : j < k => sent[j] < sent[k]
              /\ \A k \in DOMAIN sent : sent[k] \in threshold + 1 .. lastId' /\ log[sent[k]] = "event"
              /\ \A n \in threshold + 1 .. lastId' :
                    n \in gone \/ log[n] = "foreign" \/ \E k \in DOMAIN sent : sent[k] = n
        BY <1>3, HandleFacts
    <2> DEFINE ids == {n \in threshold + 1 .. lastId' : \E k \in DOMAIN sent : sent[k] = n}
    <2>2. /\ threshold + 1 \in DOMAIN log /\ lastId' \in DOMAIN log /\ threshold + 1 <= lastId'
          /\ ids \in SUBSET (threshold + 1 .. lastId')
          /\ ids \in SUBSET (1 .. Len(log))
          /\ lastId # 0 => threshold + 1 = lastId + 1
        BY <1>1, <2>1, Numbers DEF IInv, ReplyInv, Handle, Latest
    <2>3. \A n \in threshold + 1 .. lastId' :
             \/ n \in ids /\ log[n] = "event"
             \/ n \notin ids /\ (n \in gone \/ log[n] = "foreign")
        BY <2>1
    <2>4. sent = Ascending(ids)
        <3>1. \A k \in DOMAIN sent : sent[k] \in ids
            BY <2>1
        <3>2. sent \in Seq(ids)
            BY <3>1
        <3>3. \A n \in ids : \E k \in DOMAIN sent : sent[k] = n
            OBVIOUS
        <3> HIDE DEF ids
        <3> QED BY <1>1, <2>1, <2>2, <3>2, <3>3, AscendingUnique, Numbers
    <2>5. Feed!Ascending(ids) = Ascending(ids)
        <3>1. \A S : Feed!Cardinality(S) = Cardinality(S)
            BY DEF Feed!Cardinality, Cardinality
        <3> HIDE DEF ids
        <3>2. \A S, i : Feed!UpTo(S, i) = UpTo(S, i)
            BY DEF Feed!UpTo, UpTo
        <3>3. \A S, i : Feed!Place(S, i) = Place(S, i)
            BY <3>1, <3>2 DEF Feed!Place, Place
        <3>4. \A k : (CHOOSE i \in ids : Feed!Place(ids, i) = k) = (CHOOSE i \in ids : Place(ids, i) = k)
            BY <3>3
        <3> QED BY <3>1, <3>4 DEF Feed!Ascending, Ascending
    <2> HIDE DEF ids
    <2>6. got' = [d \in Dashboards |-> IF mapped[d] = "open" THEN got[d] \o Feed!Ascending(ids) ELSE got[d]]
        BY <2>1, <2>4, <2>5
    <2> QED BY <1>1, <2>2, <2>3, <2>6 DEF Feed!F_Deliver
<1> QED BY <1>2, <1>3

\* Every step of the reader, of Redis and of the dashboards is a step of the
\* feed or none.
LEMMA StepImplements ==
    ASSUME IInv, [Next]_vars
    PROVE  [Feed!F_Next]_(Feed!feed_vars)
<1>1. ASSUME NEW kind \in {"event", "foreign"}, Add(kind) PROVE Feed!F_Add
    BY <1>1 DEF Add, Feed!F_Add
<1>2. CASE Lose
    <2>1. gone' \in SUBSET DOMAIN log /\ gone \subseteq gone' /\ UNCHANGED <<log, lastId, conn, got>>
        BY <1>2 DEF Lose, reader, IInv, TypeOK
    <2> QED BY <2>1 DEF Feed!F_Lose, Feed!F_Next
<1>3. CASE Serve \/ BlockTimeout \/ ReadFails \/ Retry \/ Break \/ Reconnect
    BY <1>3 DEF Serve, BlockTimeout, ReadFails, Retry, Break, Reconnect, stream, Feed!feed_vars
<1>4. CASE Handle
    BY <1>4, HandleDelivers DEF Feed!F_Next
<1>5. ASSUME NEW d \in Dashboards, Connect(d) PROVE Feed!F_Join(d)
    <2>1. conn \in [Dashboards -> {"idle", "open", "closed", "terminated"}]
        BY DEF IInv, TypeOK
    <2> QED BY <1>5, <2>1 DEF Connect, stream, reader, Feed!F_Join, Feed!Handshake, Handshake
<1>6. ASSUME NEW d \in Dashboards, Disconnect(d) \/ Heartbeat(d)
      PROVE  Feed!F_Leave(d) \/ UNCHANGED Feed!feed_vars
    <2>1. conn \in [Dashboards -> {"idle", "open", "closed", "terminated"}]
        BY DEF IInv, TypeOK
    <2> QED BY <1>6, <2>1 DEF Disconnect, Heartbeat, stream, reader, Feed!F_Leave, Feed!feed_vars
<1>7. ASSUME NEW d \in Dashboards, Pong(d) PROVE UNCHANGED Feed!feed_vars
    BY <1>7 DEF Pong, stream, reader, Feed!feed_vars
<1>8. CASE UNCHANGED vars
    BY <1>8 DEF vars, Feed!feed_vars
<1> QED BY <1>1, <1>2, <1>3, <1>4, <1>5, <1>6, <1>7, <1>8 DEF Next, Feed!F_Next

\* The reader, its XREADs, breaks and resends implement one position that moves
\* over the log and one feed to every open dashboard.
THEOREM ReaderImplementsFeed == Spec => ImplementsFeed
<1>1. Init => Feed!F_Init
    BY DEF Init, Latest, Feed!F_Init
<1>2. IInv /\ [Next]_vars => [Feed!F_Next]_(Feed!feed_vars)
    BY StepImplements
<1> QED BY <1>1, <1>2, Invariance, PTL DEF Spec, ImplementsFeed, Feed!F_Spec

=============================================================================

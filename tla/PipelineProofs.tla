--------------------------- MODULE PipelineProofs ---------------------------
(***************************************************************************)
(* Theorems about the gateway (Ingest), and about Pipeline, which extends   *)
(* it.  Of the gateway, for all sets of requests, clients and messages and  *)
(* every bound that meets IngestAssumption: whatever breaks, is sent again, *)
(* flushed or hung up in between, an acknowledgement means a stored event,  *)
(* a rejection means one that never is, and acknowledgements of one         *)
(* connection keep the order of its events.                                 *)
(*                                                                          *)
(* Every step of the composition is a step of the gateway or leaves it      *)
(* alone, and the same of the reader, so that what is shown here and in     *)
(* StreamFanoutProofs of each holds of both together; the end-to-end        *)
(* properties follow from the two invariants and from a count of the copies *)
(* a message has in the stream.                                             *)
(***************************************************************************)
EXTENDS Pipeline, SubsequenceProofs, TLAPS

\* A connection that was not used has made no call; a call in an inbox or in
\* the stream is not idle.
FreshInv ==
    /\ \A r \in Requests : sockets[r] = "idle" => stage[r] = "idle"
    /\ \A s \in Sockets : sockets[s] = "idle" => inbox[s] = <<>>
    /\ \A s \in Sockets : \A p \in DOMAIN inbox[s] : stage[inbox[s][p]] # "idle"
    /\ \A n \in DOMAIN log : stage[log[n]] # "idle"

\* Every pending XADD belongs to one handler that awaits it and came over one
\* connection.
PendingInv ==
    /\ \A i \in DOMAIN pending : stage[pending[i]] = "publishing"
    /\ \A i, j \in DOMAIN pending : i # j => pending[i] # pending[j]
    /\ \A i \in DOMAIN pending :
          \E s \in Sockets : \E p \in DOMAIN inbox[s] : inbox[s][p] = pending[i]

\* Replies that have not been read are lost with the connection.
LinkInv == link = "down" => results = <<>>

\* What was answered is over.
AnsweredInv ==
    \A s \in Sockets : \A i \in DOMAIN replies[s] : stage[replies[s][i].call] = "done"

\* Ids come back in the order Redis gave them, after all that were passed on.
IdOrder ==
    /\ \A i, j \in DOMAIN results :
          i < j /\ results[i] # Failed /\ results[j] # Failed => results[i] < results[j]
    /\ \A s \in Sockets : \A i \in DOMAIN replies[s] : \A j \in DOMAIN results :
          replies[s][i].kind = "ok" /\ results[j] # Failed => replies[s][i].id < results[j]

\* XADDs are pending in the order the events of a connection came, after all
\* that were acknowledged to it.
InboxOrder ==
    \A s \in Sockets : \A p, q \in DOMAIN inbox[s] : \A j \in DOMAIN pending :
        inbox[s][q] = pending[j] =>
            /\ \A i \in DOMAIN pending : i < j /\ inbox[s][p] = pending[i] => p < q
            /\ \A i \in DOMAIN replies[s] :
                  replies[s][i].kind = "ok" /\ inbox[s][p] = replies[s][i].call => p < q

\* An answer is found where its call came in.
OwnReplies ==
    \A s \in Sockets : \A i \in DOMAIN replies[s] :
        \E p \in DOMAIN inbox[s] : inbox[s][p] = replies[s][i].call

IInv ==
    /\ TypeOK /\ FreshInv /\ PendingInv /\ LinkInv /\ RepliesPaired
    /\ AnsweredInv /\ AnsweredOnce /\ OwnReplies /\ AckMeansStored /\ RejectedNeverStored
    /\ IdOrder /\ InboxOrder /\ AcksInOrder

-----------------------------------------------------------------------------
\* A pending call came in on the connection it will be answered on.
LEMMA SocketOfPending ==
    ASSUME TypeOK, PendingInv, NEW i \in DOMAIN pending
    PROVE  /\ SocketOf(pending[i]) \in Sockets
           /\ \E p \in DOMAIN inbox[SocketOf(pending[i])] :
                 inbox[SocketOf(pending[i])][p] = pending[i]
<1>1. \E s \in Sockets : \E p \in DOMAIN inbox[s] : inbox[s][p] = pending[i]
    BY DEF PendingInv
<1> QED BY <1>1 DEF SocketOf

\* Sending answers adds to a connection's replies some of the answers to its
\* own calls, in their order, and closes REST connections at most.
LEMMA SendFacts ==
    ASSUME TypeOK, NEW answers \in Seq(Answer), Send(answers)
    PROVE  /\ replies' \in [Sockets -> Seq(Answer)]
           /\ \A s \in Sockets : \A i \in DOMAIN replies[s] :
                 i \in DOMAIN replies'[s] /\ replies'[s][i] = replies[s][i]
           /\ \A s \in Sockets : \A i \in DOMAIN replies'[s] :
                 \/ i \in DOMAIN replies[s]
                 \/ /\ \A j \in DOMAIN replies[s] : j < i
                    /\ \E n \in DOMAIN answers :
                          replies'[s][i] = answers[n] /\ SocketOf(answers[n].call) = s
           /\ \A s \in Sockets : \A i, j \in DOMAIN replies'[s] :
                 i < j /\ i \notin DOMAIN replies[s] =>
                     \E m, n \in DOMAIN answers :
                         m < n /\ replies'[s][i] = answers[m] /\ replies'[s][j] = answers[n]
           /\ sockets' \in [Sockets -> {"idle", "open", "closed"}]
           /\ \A s \in Sockets : sockets'[s] = "idle" => sockets[s] = "idle"
           /\ stage' = [x \in Calls |->
                           IF \E n \in DOMAIN answers : answers[n].call = x
                           THEN "done" ELSE stage[x]]
<1> DEFINE mine(s) == {i \in DOMAIN answers : SocketOf(answers[i].call) = s}
<1>1. DOMAIN answers = 1 .. Len(answers) /\ Len(answers) \in Nat
    OBVIOUS
<1>2. ASSUME NEW s \in Sockets
      PROVE  /\ To(s, answers) \in Seq(Answer)
             /\ \A k \in DOMAIN To(s, answers) :
                   \E n \in mine(s) : To(s, answers)[k] = answers[n]
             /\ \A j, k \in DOMAIN To(s, answers) : j < k =>
                   \E m, n \in mine(s) : m < n /\ To(s, answers)[j] = answers[m]
                                               /\ To(s, answers)[k] = answers[n]
    <2>1. mine(s) \in SUBSET (1 .. Len(answers))
        BY <1>1
    <2>2. To(s, answers) = Picked(answers, mine(s))
        BY DEF To
    <2>3. Picked(answers, mine(s)) \in Seq(Answer)
        BY <2>1, PickedFacts
    <2>4. DOMAIN Picked(answers, mine(s)) = 1 .. Len(Picked(answers, mine(s)))
        BY <2>3
    <2> HIDE DEF mine
    <2>5. \A k \in 1 .. Len(Picked(answers, mine(s))) :
             \E n \in mine(s) : Picked(answers, mine(s))[k] = answers[n]
        BY <2>1, PickedFacts
    <2>6. \A j, k \in 1 .. Len(Picked(answers, mine(s))) : j < k =>
             \E m, n \in mine(s) : /\ m < n
                                   /\ Picked(answers, mine(s))[j] = answers[m]
                                   /\ Picked(answers, mine(s))[k] = answers[n]
        BY <2>1, PickedFacts
    <2> QED BY <2>2, <2>3, <2>4, <2>5, <2>6
<1>3. ASSUME NEW s \in Sockets
      PROVE  /\ replies'[s] \in Seq(Answer)
             /\ \A i \in DOMAIN replies[s] : i \in DOMAIN replies'[s] /\ replies'[s][i] = replies[s][i]
             /\ \A i \in DOMAIN replies'[s] :
                   \/ i \in DOMAIN replies[s]
                   \/ /\ i - Len(replies[s]) \in DOMAIN To(s, answers)
                      /\ replies'[s][i] = To(s, answers)[i - Len(replies[s])]
                      /\ \A j \in DOMAIN replies[s] : j < i
    <2>1. replies[s] \in Seq(Answer)
        BY DEF TypeOK
    <2>2. CASE sockets[s] = "open"
        <3>1. replies'[s] = replies[s] \o To(s, answers)
            BY <2>2 DEF Send
        <3> QED BY <1>2, <2>1, <3>1, ConcatFacts
    <2>3. CASE sockets[s] # "open"
        BY <2>1, <2>3 DEF Send
    <2> QED BY <2>2, <2>3
<1>4. ASSUME NEW s \in Sockets, NEW i \in DOMAIN replies'[s], i \notin DOMAIN replies[s]
      PROVE  /\ \A j \in DOMAIN replies[s] : j < i
             /\ \E n \in DOMAIN answers :
                   replies'[s][i] = answers[n] /\ SocketOf(answers[n].call) = s
    BY <1>2, <1>3, <1>4
<1>5. ASSUME NEW s \in Sockets, NEW i \in DOMAIN replies'[s], NEW j \in DOMAIN replies'[s],
             i < j, i \notin DOMAIN replies[s]
      PROVE  \E m, n \in DOMAIN answers :
                 m < n /\ replies'[s][i] = answers[m] /\ replies'[s][j] = answers[n]
    <2>1. /\ replies[s] \in Seq(Answer) /\ replies'[s] \in Seq(Answer)
          /\ Len(replies[s]) \in Nat /\ i \in Int /\ j \in Int
        <3>1. replies[s] \in Seq(Answer) /\ replies'[s] \in Seq(Answer)
            BY <1>3 DEF TypeOK
        <3> QED BY <3>1
    <2>2. j \notin DOMAIN replies[s]
        BY <1>3, <1>5, <2>1
    <2> DEFINE k == i - Len(replies[s])
               l == j - Len(replies[s])
    <2>3. /\ k \in DOMAIN To(s, answers) /\ replies'[s][i] = To(s, answers)[k]
          /\ l \in DOMAIN To(s, answers) /\ replies'[s][j] = To(s, answers)[l]
        BY <1>3, <1>5, <2>2
    <2>4. k < l
        BY <1>5, <2>1
    <2> HIDE DEF k, l
    <2> QED BY <1>2, <2>3, <2>4
<1>6. sockets' \in [Sockets -> {"idle", "open", "closed"}]
    BY DEF Send, TypeOK
<1>7. \A s \in Sockets : sockets'[s] = "idle" => sockets[s] = "idle"
    BY DEF Send, TypeOK
<1>8. \A x : (\E a \in ToSet(answers) : a.call = x) <=> \E n \in DOMAIN answers : answers[n].call = x
    BY DEF ToSet
<1>9. replies' \in [Sockets -> Seq(Answer)]
    BY <1>3 DEF Send
<1>10. stage' = [x \in Calls |-> IF \E n \in DOMAIN answers : answers[n].call = x
                                 THEN "done" ELSE stage[x]]
    BY <1>8 DEF Send
<1> QED BY <1>3, <1>4, <1>5, <1>6, <1>7, <1>9, <1>10

-----------------------------------------------------------------------------
\* What both handlers do with a call x that came in over s.
Joins(s, x) ==
    /\ s \in Sockets /\ x \in Calls
    /\ stage[x] = "idle" /\ stage'[x] # "idle"
    /\ \A c \in Calls \ {x} : stage'[c] = stage[c]
    /\ x \in Requests => x = s
    /\ inbox' = [inbox EXCEPT ![s] = Append(@, x)]
    /\ sockets'[s] # "idle"
    /\ \A y \in Sockets \ {s} : sockets'[y] = sockets[y]
    /\ UNCHANGED <<link, results, log>>

\* They refuse it at once ...
Refused(s, x) ==
    /\ Joins(s, x)
    /\ stage'[x] = "done"
    /\ \E kind \in Kinds \ {"ok"} :
          replies' = [replies EXCEPT ![s] = Append(@, Reply(x, kind, Failed))]
    /\ UNCHANGED pending

\* ... or leave it waiting for its XADD.
Published(s, x) ==
    /\ Joins(s, x)
    /\ stage'[x] = "publishing"
    /\ pending' = Append(pending, x)
    /\ UNCHANGED replies

\* A call that comes in is new everywhere, and last in its inbox.
LEMMA JoinFacts ==
    ASSUME IInv, NEW s, NEW x, Joins(s, x)
    PROVE  /\ \A y \in Sockets : \A p \in DOMAIN inbox[y] :
                 /\ inbox[y][p] # x
                 /\ p \in DOMAIN inbox'[y] /\ inbox'[y][p] = inbox[y][p]
           /\ \A y \in Sockets : \A p \in DOMAIN inbox'[y] :
                 \/ p \in DOMAIN inbox[y]
                 \/ y = s /\ inbox'[y][p] = x /\ \A i \in DOMAIN inbox[y] : i < p
           /\ \E p \in DOMAIN inbox'[s] : inbox'[s][p] = x
           /\ \A n \in DOMAIN log : log[n] # x
           /\ \A i \in DOMAIN pending : pending[i] # x
           /\ \A y \in Sockets : \A i \in DOMAIN replies[y] : replies[y][i].call # x
           /\ \A c \in Calls \ {x} : stage'[c] = stage[c]
           /\ FreshInv'
<1>1. TypeOK /\ FreshInv /\ PendingInv /\ AnsweredInv
    BY DEF IInv
<1>2. \A y \in Sockets : \A p \in DOMAIN inbox[y] : inbox[y][p] # x
    BY <1>1 DEF Joins, FreshInv
<1>3. /\ \A n \in DOMAIN log : log[n] # x
      /\ \A i \in DOMAIN pending : pending[i] # x
      /\ \A y \in Sockets : \A i \in DOMAIN replies[y] : replies[y][i].call # x
    BY <1>1 DEF Joins, FreshInv, PendingInv, AnsweredInv
<1>4. ASSUME NEW y \in Sockets
      PROVE  /\ \A p \in DOMAIN inbox[y] : p \in DOMAIN inbox'[y] /\ inbox'[y][p] = inbox[y][p]
             /\ \A p \in DOMAIN inbox'[y] :
                   \/ p \in DOMAIN inbox[y]
                   \/ y = s /\ inbox'[y][p] = x /\ \A i \in DOMAIN inbox[y] : i < p
             /\ y = s => \E p \in DOMAIN inbox'[y] : inbox'[y][p] = x
    <2>1. inbox[y] \in Seq(Calls) /\ x \in Calls
        BY <1>1 DEF Joins, TypeOK
    <2>2. CASE y = s
        <3>1. inbox'[y] = Append(inbox[y], x)
            BY <1>1, <2>2 DEF Joins, TypeOK
        <3> QED BY <2>1, <2>2, <3>1, AppendFacts
    <2>3. CASE y # s
        <3>1. inbox'[y] = inbox[y]
            BY <1>1, <2>3 DEF Joins, TypeOK
        <3> QED BY <2>3, <3>1
    <2> QED BY <2>2, <2>3
<1>5. \A c \in Calls \ {x} : stage'[c] = stage[c]
    BY <1>1 DEF Joins, TypeOK
<1>6. FreshInv'
    <2>1. \A r \in Requests : sockets'[r] = "idle" => stage'[r] = "idle"
        <3> SUFFICES ASSUME NEW r \in Requests, sockets'[r] = "idle"
                     PROVE  stage'[r] = "idle"
            OBVIOUS
        <3>1. r \in Sockets /\ r \in Calls
            BY DEF Sockets, Calls
        <3>2. r # s /\ sockets[r] = "idle"
            BY <3>1 DEF Joins
        <3>3. r # x
            BY <3>2 DEF Joins
        <3> QED BY <1>1, <1>5, <3>1, <3>2, <3>3 DEF FreshInv
    <2>2. \A y \in Sockets : sockets'[y] = "idle" => inbox'[y] = <<>>
        <3> SUFFICES ASSUME NEW y \in Sockets, sockets'[y] = "idle"
                     PROVE  inbox'[y] = <<>>
            OBVIOUS
        <3>1. y # s /\ sockets[y] = "idle"
            BY DEF Joins
        <3> QED BY <1>1, <3>1 DEF Joins, FreshInv, TypeOK
    <2>3. \A y \in Sockets : \A p \in DOMAIN inbox'[y] : stage'[inbox'[y][p]] # "idle"
        <3> SUFFICES ASSUME NEW y \in Sockets, NEW p \in DOMAIN inbox'[y]
                     PROVE  stage'[inbox'[y][p]] # "idle"
            OBVIOUS
        <3>1. CASE p \in DOMAIN inbox[y]
            <4>1. inbox[y][p] \in Calls
                BY <1>1, <3>1 DEF TypeOK
            <4> QED BY <1>1, <1>2, <1>4, <1>5, <3>1, <4>1 DEF FreshInv
        <3>2. CASE p \notin DOMAIN inbox[y]
            BY <1>4, <3>2 DEF Joins
        <3> QED BY <3>1, <3>2
    <2>4. \A n \in DOMAIN log' : stage'[log'[n]] # "idle"
        <3>1. \A n \in DOMAIN log : log[n] \in Calls
            BY <1>1 DEF TypeOK
        <3> QED BY <1>1, <1>3, <1>5, <3>1 DEF Joins, FreshInv
    <2> QED BY <2>1, <2>2, <2>3, <2>4 DEF FreshInv
<1> QED BY <1>2, <1>3, <1>4, <1>5, <1>6 DEF Joins

\* A refused call keeps the invariant: it is answered once and never stored.
LEMMA RefusedStep ==
    ASSUME IInv, TypeOK', NEW s, NEW x, Refused(s, x)
    PROVE  IInv'
<1>1. TypeOK /\ FreshInv /\ PendingInv /\ LinkInv /\ RepliesPaired
    BY DEF IInv
<1>2. PICK kind \in Kinds \ {"ok"} :
          replies' = [replies EXCEPT ![s] = Append(@, Reply(x, kind, Failed))]
    BY DEF Refused
<1>3. /\ Joins(s, x) /\ stage'[x] = "done" /\ s \in Sockets /\ x \in Calls
      /\ UNCHANGED <<pending, link, results, log>>
    BY DEF Refused, Joins
<1> DEFINE a == Reply(x, kind, Failed)
<1>4. a \in Answer /\ a.call = x /\ a.kind = kind /\ a.kind # "ok"
    BY <1>3 DEF Reply, Answer, Failed
<1> HIDE DEF a
<1>5. ASSUME NEW y \in Sockets
      PROVE  /\ \A i \in DOMAIN replies[y] :
                   i \in DOMAIN replies'[y] /\ replies'[y][i] = replies[y][i]
             /\ \A i \in DOMAIN replies'[y] :
                   \/ i \in DOMAIN replies[y]
                   \/ /\ y = s /\ replies'[y][i] = a
                      /\ i = Len(replies[y]) + 1
    <2>1. replies[y] \in Seq(Answer)
        BY <1>1 DEF TypeOK
    <2>2. CASE y = s
        <3>1. replies'[y] = Append(replies[y], a)
            BY <1>1, <1>2, <2>2 DEF TypeOK, a
        <3> QED BY <1>4, <2>1, <2>2, <3>1, AppendFacts
    <2>3. CASE y # s
        <3>1. replies'[y] = replies[y]
            BY <1>1, <1>2, <2>3 DEF TypeOK
        <3> QED BY <2>3, <3>1
    <2> QED BY <2>2, <2>3
<1>6. \A y \in Sockets : \A i \in DOMAIN replies[y] : replies[y][i].call \in Calls
    <2> SUFFICES ASSUME NEW y \in Sockets, NEW i \in DOMAIN replies[y]
                 PROVE  replies[y][i].call \in Calls
        OBVIOUS
    <2>1. replies[y] \in Seq(Answer)
        BY <1>1 DEF TypeOK
    <2>2. replies[y][i] \in Answer
        BY <2>1
    <2> QED BY <2>2 DEF Answer
<1>7. FreshInv'
    BY <1>3, JoinFacts
<1>8. PendingInv'
    <2>1. \A i \in DOMAIN pending : pending[i] \in Calls
        BY <1>1 DEF TypeOK
    <2> QED BY <1>1, <1>3, <2>1, JoinFacts DEF PendingInv
<1>9. LinkInv' /\ RepliesPaired'
    BY <1>1, <1>3 DEF LinkInv, RepliesPaired
<1>10. AnsweredInv'
    BY <1>3, <1>4, <1>5, <1>6, JoinFacts DEF IInv, AnsweredInv
<1>11. AnsweredOnce'
    BY <1>3, <1>4, <1>5, JoinFacts DEF IInv, AnsweredOnce
<1>12. OwnReplies'
    BY <1>3, <1>4, <1>5, JoinFacts DEF IInv, OwnReplies
<1>13. AckMeansStored'
    BY <1>3, <1>4, <1>5 DEF IInv, AckMeansStored
<1>14. RejectedNeverStored'
    <2>1. x \notin ToSet(log)
        BY <1>3, JoinFacts DEF ToSet
    <2> QED BY <1>3, <1>4, <1>5, <2>1 DEF IInv, RejectedNeverStored, ToSet
<1>15. IdOrder'
    BY <1>3, <1>4, <1>5 DEF IInv, IdOrder
<1>16. InboxOrder'
    BY <1>3, <1>4, <1>5, JoinFacts DEF IInv, InboxOrder
<1>17. AcksInOrder'
    <2> SUFFICES ASSUME NEW y \in Sockets, NEW i \in DOMAIN replies'[y], NEW j \in DOMAIN replies'[y],
                        i < j, replies'[y][i].kind = "ok", replies'[y][j].kind = "ok"
                 PROVE  /\ replies'[y][i].id < replies'[y][j].id
                        /\ \E p, q \in DOMAIN inbox'[y] :
                              /\ p < q /\ inbox'[y][p] = replies'[y][i].call
                              /\ inbox'[y][q] = replies'[y][j].call
        BY DEF AcksInOrder
    <2>1. /\ i \in DOMAIN replies[y] /\ replies'[y][i] = replies[y][i]
          /\ j \in DOMAIN replies[y] /\ replies'[y][j] = replies[y][j]
        BY <1>4, <1>5
    <2>2. /\ replies[y][i].id < replies[y][j].id
          /\ \E p, q \in DOMAIN inbox[y] :
                p < q /\ inbox[y][p] = replies[y][i].call /\ inbox[y][q] = replies[y][j].call
        BY <2>1 DEF IInv, AcksInOrder
    <2> QED BY <1>3, <2>1, <2>2, JoinFacts
<1> QED BY <1>7, <1>8, <1>9, <1>10, <1>11, <1>12, <1>13, <1>14, <1>15, <1>16, <1>17 DEF IInv

\* A published call keeps the invariant: it is the last of its connection's
\* and the last to be sent.
LEMMA PublishedStep ==
    ASSUME IInv, TypeOK', NEW s, NEW x, Published(s, x)
    PROVE  IInv'
<1>1. TypeOK /\ FreshInv /\ PendingInv /\ LinkInv /\ RepliesPaired
    BY DEF IInv
<1>2. /\ Joins(s, x) /\ stage'[x] = "publishing" /\ s \in Sockets /\ x \in Calls
      /\ pending' = Append(pending, x)
      /\ UNCHANGED <<replies, link, results, log>>
    BY DEF Published, Joins
<1>3. /\ \A i \in DOMAIN pending : i \in DOMAIN pending' /\ pending'[i] = pending[i]
      /\ \A i \in DOMAIN pending' :
            \/ i \in DOMAIN pending
            \/ i = Len(pending) + 1 /\ pending'[i] = x /\ \A j \in DOMAIN pending : j < i
    <2>1. pending \in Seq(Calls)
        BY <1>1 DEF TypeOK
    <2> QED BY <1>2, <2>1, AppendFacts
<1>4. \A i \in DOMAIN pending : pending[i] \in Calls
    BY <1>1 DEF TypeOK
<1>5. FreshInv'
    BY <1>2, JoinFacts
<1>6. PendingInv'
    BY <1>1, <1>2, <1>3, <1>4, JoinFacts DEF PendingInv
<1>7. LinkInv' /\ RepliesPaired'
    <2>1. Len(pending') = Len(pending) + 1 /\ Len(pending) \in Nat /\ Len(results) \in Nat
        BY <1>1, <1>2 DEF TypeOK
    <2>2. DOMAIN results \subseteq DOMAIN pending
        BY <1>1, <2>1 DEF RepliesPaired, TypeOK
    <2> QED BY <1>1, <1>2, <1>3, <2>1, <2>2 DEF LinkInv, RepliesPaired
<1>8. AnsweredInv'
    <2> SUFFICES ASSUME NEW y \in Sockets, NEW i \in DOMAIN replies[y]
                 PROVE  stage'[replies[y][i].call] = "done"
        BY <1>2 DEF AnsweredInv
    <2>1. replies[y] \in Seq(Answer)
        BY <1>1 DEF TypeOK
    <2>2. replies[y][i] \in Answer
        BY <2>1
    <2>3. replies[y][i].call \in Calls \ {x}
        BY <1>2, <2>2, JoinFacts DEF Answer
    <2> QED BY <1>2, <2>3, JoinFacts DEF IInv, AnsweredInv
<1>9. AnsweredOnce' /\ AckMeansStored' /\ RejectedNeverStored' /\ IdOrder'
    BY <1>2 DEF IInv, AnsweredOnce, AckMeansStored, RejectedNeverStored, IdOrder
<1>10. OwnReplies'
    BY <1>2, JoinFacts DEF IInv, OwnReplies
<1>11. InboxOrder'
    <2> SUFFICES ASSUME NEW y \in Sockets, NEW p \in DOMAIN inbox'[y], NEW q \in DOMAIN inbox'[y],
                        NEW j \in DOMAIN pending', inbox'[y][q] = pending'[j]
                 PROVE  /\ \A i \in DOMAIN pending' :
                              i < j /\ inbox'[y][p] = pending'[i] => p < q
                        /\ \A i \in DOMAIN replies[y] :
                              replies[y][i].kind = "ok" /\ inbox'[y][p] = replies[y][i].call
                                  => p < q
        BY <1>2 DEF InboxOrder
    <2>1. CASE j \in DOMAIN pending
        <3>1. q \in DOMAIN inbox[y] /\ inbox[y][q] = pending[j]
            BY <1>2, <1>3, <2>1, JoinFacts
        <3>2. \A i \in DOMAIN pending' : i < j => i \in DOMAIN pending
            <4>1. pending \in Seq(Calls)
                BY <1>1 DEF TypeOK
            <4>2. DOMAIN pending = 1 .. Len(pending) /\ Len(pending) \in Nat
                BY <4>1
            <4>3. DOMAIN pending' = 1 .. Len(pending) + 1
                BY <1>2, <4>1
            <4> QED BY <2>1, <4>2, <4>3
        <3> QED BY <1>1, <1>2, <1>3, <2>1, <3>1, <3>2, JoinFacts DEF IInv, InboxOrder
    <2>2. CASE j \notin DOMAIN pending
        <3>1. pending'[j] = x /\ j = Len(pending) + 1
            BY <1>3, <2>2
        <3>2. q \notin DOMAIN inbox[y] /\ \A i \in DOMAIN inbox[y] : i < q
            BY <1>2, <3>1, JoinFacts
        <3>3. \A i \in DOMAIN pending' : i < j => pending'[i] # x
            BY <1>2, <1>3, <3>1, JoinFacts
        <3>4. inbox'[y][p] # x => p \in DOMAIN inbox[y]
            BY <1>2, JoinFacts
        <3> QED BY <1>2, <3>2, <3>3, <3>4, JoinFacts
    <2> QED BY <2>1, <2>2
<1>12. AcksInOrder'
    <2> SUFFICES ASSUME NEW y \in Sockets, NEW i \in DOMAIN replies[y], NEW j \in DOMAIN replies[y],
                        i < j, replies[y][i].kind = "ok", replies[y][j].kind = "ok"
                 PROVE  /\ replies[y][i].id < replies[y][j].id
                        /\ \E p, q \in DOMAIN inbox'[y] :
                              /\ p < q /\ inbox'[y][p] = replies[y][i].call
                              /\ inbox'[y][q] = replies[y][j].call
        BY <1>2 DEF AcksInOrder
    <2>1. /\ replies[y][i].id < replies[y][j].id
          /\ \E p, q \in DOMAIN inbox[y] :
                p < q /\ inbox[y][p] = replies[y][i].call /\ inbox[y][q] = replies[y][j].call
        BY DEF IInv, AcksInOrder
    <2> QED BY <1>2, <2>1, JoinFacts
<1> QED BY <1>5, <1>6, <1>7, <1>8, <1>9, <1>10, <1>11, <1>12 DEF IInv

-----------------------------------------------------------------------------
\* Redis takes or refuses an XADD: the reply it queues is the XADD's own, and
\* its id is above all that were given out.
LEMMA RedisStep ==
    ASSUME IInv, Execute \/ ExecuteFails
    PROVE  IInv'
<1>1. TypeOK /\ FreshInv /\ PendingInv /\ LinkInv /\ RepliesPaired
    BY DEF IInv
<1>2. /\ UNCHANGED <<gateway, pending, link, attempts, breaks>>
      /\ link = "up" /\ Len(results) < Len(pending)
    BY DEF Execute, ExecuteFails
<1>3. UNCHANGED <<stage, sockets, inbox, replies, tokens, process>>
    BY <1>2 DEF gateway
<1> DEFINE n == Len(results) + 1
<1>4. /\ n \in DOMAIN pending /\ pending[n] \in Calls /\ stage[pending[n]] = "publishing"
      /\ Len(results) \in Nat /\ Len(pending) \in Nat /\ Len(log) \in Nat
    BY <1>1, <1>2 DEF TypeOK, PendingInv
<1>5. PICK id \in Nat :
        /\ results' = Append(results, id)
        /\ \/ id = Failed /\ log' = log
           \/ id = Len(log) + 1 /\ log' = Append(log, pending[n])
    BY <1>2, <1>4 DEF Execute, ExecuteFails, Failed
<1>6. /\ results' \in Seq(Nat) /\ Len(results') = n /\ n \in DOMAIN results' /\ results'[n] = id
      /\ \A i \in DOMAIN results : i \in DOMAIN results' /\ results'[i] = results[i]
      /\ \A i \in DOMAIN results' : i \in DOMAIN results \/ (i = n /\ \A j \in DOMAIN results : j < i)
    BY <1>1, <1>5, AppendFacts DEF TypeOK
<1>7. /\ log' \in Seq(Calls)
      /\ \A i \in DOMAIN log : i \in DOMAIN log' /\ log'[i] = log[i]
      /\ \A i \in DOMAIN log' : i \in DOMAIN log \/ log'[i] = pending[n]
      /\ id # Failed => id \in DOMAIN log' /\ log'[id] = pending[n] /\ \A i \in DOMAIN log : i < id
    <2>1. log \in Seq(Calls)
        BY <1>1 DEF TypeOK
    <2>2. CASE id = Failed /\ log' = log
        BY <2>1, <2>2
    <2>3. CASE id = Len(log) + 1 /\ log' = Append(log, pending[n])
        <3>1. DOMAIN log = 1 .. Len(log)
            BY <2>1
        <3> HIDE DEF n
        <3> QED BY <1>4, <2>1, <2>3, <3>1, AppendFacts
    <2> QED BY <1>5, <2>2, <2>3
<1>8. TypeOK'
    BY <1>1, <1>2, <1>3, <1>6, <1>7 DEF TypeOK
<1>9. FreshInv'
    BY <1>1, <1>3, <1>4, <1>7 DEF FreshInv
<1>10. PendingInv' /\ LinkInv' /\ AnsweredInv' /\ AnsweredOnce' /\ OwnReplies'
    BY <1>2, <1>3 DEF IInv, PendingInv, LinkInv, AnsweredInv, AnsweredOnce, OwnReplies
<1>11. RepliesPaired'
    BY <1>1, <1>2, <1>4, <1>6, <1>7 DEF RepliesPaired
<1>12. AckMeansStored'
    BY <1>3, <1>7 DEF IInv, AckMeansStored
<1>13. RejectedNeverStored'
    <2> SUFFICES ASSUME NEW s \in Sockets, NEW i \in DOMAIN replies[s],
                        replies[s][i].kind \in Rejections
                 PROVE  replies[s][i].call \notin ToSet(log')
        BY <1>3 DEF RejectedNeverStored
    <2>1. replies[s][i].call # pending[n]
        BY <1>4 DEF IInv, AnsweredInv
    <2>2. replies[s][i].call \notin ToSet(log)
        BY DEF IInv, RejectedNeverStored
    <2> QED BY <1>7, <2>1, <2>2 DEF ToSet
<1>14. IdOrder'
    <2>1. \A j \in DOMAIN results : results[j] # Failed => results[j] \in DOMAIN log
        BY <1>1 DEF RepliesPaired
    <2>2. \A s \in Sockets : \A i \in DOMAIN replies[s] :
             replies[s][i].kind = "ok" => replies[s][i].id \in DOMAIN log
        BY DEF IInv, AckMeansStored
    <2>3. \A i, j \in DOMAIN results' :
             i < j /\ results'[i] # Failed /\ results'[j] # Failed => results'[i] < results'[j]
        <3> SUFFICES ASSUME NEW i \in DOMAIN results', NEW j \in DOMAIN results', i < j,
                            results'[i] # Failed, results'[j] # Failed
                     PROVE  results'[i] < results'[j]
            OBVIOUS
        <3>1. i \in DOMAIN results
            BY <1>1, <1>4, <1>6 DEF TypeOK
        <3> QED BY <1>6, <1>7, <2>1, <3>1 DEF IInv, IdOrder
    <2>4. \A s \in Sockets : \A i \in DOMAIN replies[s] : \A j \in DOMAIN results' :
             replies[s][i].kind = "ok" /\ results'[j] # Failed => replies[s][i].id < results'[j]
        BY <1>6, <1>7, <2>2 DEF IInv, IdOrder
    <2> QED BY <1>3, <2>3, <2>4 DEF IdOrder
<1>15. InboxOrder' /\ AcksInOrder'
    BY <1>2, <1>3 DEF IInv, InboxOrder, AcksInOrder
<1> QED BY <1>8, <1>9, <1>10, <1>11, <1>12, <1>13, <1>14, <1>15 DEF IInv

-----------------------------------------------------------------------------
\* The first k XADDs are answered and leave the queue, with Redis's replies to
\* them; only a reply that was read can be an acknowledgement.
Answers(k, answers) ==
    /\ Send(answers)
    /\ answers \in Seq(Answer) /\ k \in Nat /\ DOMAIN answers = 1 .. k /\ 1 .. k \subseteq DOMAIN pending
    /\ \A n \in 1 .. k : answers[n].call = pending[n] /\ answers[n].kind \in {"ok", "internal_error"}
    /\ \A n \in 1 .. k : answers[n].kind = "ok" =>
          n = 1 /\ 1 \in DOMAIN results /\ results[1] # Failed /\ answers[n].id = results[1]
    /\ \A j \in DOMAIN pending' : j + k \in DOMAIN pending /\ pending'[j] = pending[j + k]
    /\ \A j \in DOMAIN results' : j + k \in DOMAIN results /\ results'[j] = results[j + k]
    /\ Len(results') <= Len(pending')
    /\ UNCHANGED <<inbox, link, log>>

\* An answering step touches only the calls it answers, which were publishing.
LEMMA AnswerFacts ==
    ASSUME IInv, TypeOK', NEW k, NEW answers, Answers(k, answers)
    PROVE  /\ \A x \in Calls : stage[x] # "publishing" => stage'[x] = stage[x]
           /\ \A x \in Calls : stage[x] # "idle" => stage'[x] # "idle"
           /\ \A n \in 1 .. k : /\ pending[n] \in Calls /\ stage[pending[n]] = "publishing"
                                /\ stage'[pending[n]] = "done"
           /\ \A j \in DOMAIN pending' : stage'[pending'[j]] = "publishing"
           /\ \A s \in Sockets : \A i \in DOMAIN replies[s] :
                 /\ i \in DOMAIN replies'[s] /\ replies'[s][i] = replies[s][i]
                 /\ replies[s][i].call \in Calls
           /\ \A s \in Sockets : \A i \in DOMAIN replies'[s] :
                 \/ i \in DOMAIN replies[s]
                 \/ /\ \A j \in DOMAIN replies[s] : j < i
                    /\ \E n \in 1 .. k :
                          replies'[s][i] = answers[n] /\ SocketOf(answers[n].call) = s
           /\ \A s \in Sockets : \A i, j \in DOMAIN replies'[s] :
                 i < j /\ i \notin DOMAIN replies[s] =>
                     \E m, n \in 1 .. k :
                         m < n /\ replies'[s][i] = answers[m] /\ replies'[s][j] = answers[n]
<1>1. TypeOK /\ PendingInv
    BY DEF IInv
<1>2. /\ Send(answers) /\ answers \in Seq(Answer) /\ k \in Nat /\ DOMAIN answers = 1 .. k
      /\ 1 .. k \subseteq DOMAIN pending
      /\ \A n \in 1 .. k : answers[n].call = pending[n]
      /\ \A j \in DOMAIN pending' : j + k \in DOMAIN pending /\ pending'[j] = pending[j + k]
    BY DEF Answers
<1>3. stage' = [x \in Calls |-> IF \E n \in 1 .. k : pending[n] = x THEN "done" ELSE stage[x]]
    <2>1. stage' = [x \in Calls |-> IF \E n \in DOMAIN answers : answers[n].call = x
                                    THEN "done" ELSE stage[x]]
        BY <1>1, <1>2, SendFacts
    <2> QED BY <1>2, <2>1
<1>4. \A i \in DOMAIN pending : pending[i] \in Calls /\ stage[pending[i]] = "publishing" /\ i \in Int
    <2>1. pending \in Seq(Calls)
        BY <1>1 DEF TypeOK
    <2> QED BY <1>1, <2>1 DEF PendingInv
<1>5. /\ \A x \in Calls : stage[x] # "publishing" => stage'[x] = stage[x]
      /\ \A x \in Calls : stage[x] # "idle" => stage'[x] # "idle"
      /\ \A n \in 1 .. k : stage'[pending[n]] = "done"
    BY <1>2, <1>3, <1>4
<1>6. ASSUME NEW j \in DOMAIN pending'
      PROVE  stage'[pending'[j]] = "publishing"
    <2>1. j \in Int /\ j >= 1
        <3>1. pending' \in Seq(Calls)
            BY DEF TypeOK
        <3> QED BY <3>1
    <2>2. j + k \in DOMAIN pending /\ pending'[j] = pending[j + k]
        BY <1>2
    <2>3. \A n \in 1 .. k : n # j + k
        BY <1>2, <2>1
    <2>4. \A n \in 1 .. k : pending[n] # pending[j + k]
        BY <1>1, <1>2, <2>2, <2>3 DEF PendingInv
    <2> QED BY <1>3, <1>4, <2>2, <2>4
<1>7. \A s \in Sockets : \A i \in DOMAIN replies[s] :
         /\ i \in DOMAIN replies'[s] /\ replies'[s][i] = replies[s][i]
         /\ replies[s][i].call \in Calls
    <2> SUFFICES ASSUME NEW s \in Sockets, NEW i \in DOMAIN replies[s]
                 PROVE  /\ i \in DOMAIN replies'[s] /\ replies'[s][i] = replies[s][i]
                        /\ replies[s][i].call \in Calls
        OBVIOUS
    <2>1. replies[s] \in Seq(Answer)
        BY <1>1 DEF TypeOK
    <2>2. replies[s][i] \in Answer
        BY <2>1
    <2>3. i \in DOMAIN replies'[s] /\ replies'[s][i] = replies[s][i]
        BY <1>1, <1>2, SendFacts
    <2> QED BY <2>2, <2>3 DEF Answer
<1>8. \A s \in Sockets : \A i \in DOMAIN replies'[s] :
         \/ i \in DOMAIN replies[s]
         \/ /\ \A j \in DOMAIN replies[s] : j < i
            /\ \E n \in DOMAIN answers : replies'[s][i] = answers[n] /\ SocketOf(answers[n].call) = s
    BY <1>1, <1>2, SendFacts
<1>9. \A s \in Sockets : \A i, j \in DOMAIN replies'[s] :
         i < j /\ i \notin DOMAIN replies[s] =>
             \E m, n \in DOMAIN answers :
                 m < n /\ replies'[s][i] = answers[m] /\ replies'[s][j] = answers[n]
    BY <1>1, <1>2, SendFacts
<1> QED BY <1>2, <1>4, <1>5, <1>6, <1>7, <1>8, <1>9

\* An answering step keeps the invariant.
LEMMA AnswersStep ==
    ASSUME IInv, TypeOK', NEW k, NEW answers, Answers(k, answers)
    PROVE  IInv'
<1>1. TypeOK /\ FreshInv /\ PendingInv /\ LinkInv /\ RepliesPaired
    BY DEF IInv
<1>2. /\ k \in Nat /\ 1 .. k \subseteq DOMAIN pending
      /\ \A n \in 1 .. k : answers[n].call = pending[n] /\ answers[n].kind \in {"ok", "internal_error"}
      /\ \A n \in 1 .. k : answers[n].kind = "ok" =>
            n = 1 /\ 1 \in DOMAIN results /\ results[1] # Failed /\ answers[n].id = results[1]
      /\ \A j \in DOMAIN pending' : j + k \in DOMAIN pending /\ pending'[j] = pending[j + k]
      /\ \A j \in DOMAIN results' : j + k \in DOMAIN results /\ results'[j] = results[j + k]
      /\ Len(results') <= Len(pending')
      /\ UNCHANGED <<inbox, link, log>>
    BY DEF Answers
<1>3. /\ pending \in Seq(Calls) /\ pending' \in Seq(Calls)
      /\ results \in Seq(Nat) /\ results' \in Seq(Nat)
      /\ log \in Seq(Calls)
    BY <1>1 DEF TypeOK
<1>4. \A j \in DOMAIN pending' : j \in Int /\ j >= 1
    BY <1>3
<1>5. \A j \in DOMAIN results' : j \in Int /\ j >= 1 /\ j \in DOMAIN pending'
    BY <1>2, <1>3
<1>6. FreshInv'
    <2>1. ASSUME NEW r \in Requests, sockets'[r] = "idle"
          PROVE  stage'[r] = "idle"
        <3>1. sockets[r] = "idle" /\ r \in Calls
            BY <1>1, <2>1, SendFacts DEF Answers, Calls, Sockets
        <3> QED BY <1>1, <3>1, AnswerFacts DEF FreshInv
    <2>2. \A s \in Sockets : sockets'[s] = "idle" => sockets[s] = "idle"
        BY <1>1, SendFacts DEF Answers
    <2>3. \A s \in Sockets : \A p \in DOMAIN inbox[s] : inbox[s][p] \in Calls
        <3>1. \A s \in Sockets : inbox[s] \in Seq(Calls)
            BY <1>1 DEF TypeOK
        <3> QED BY <3>1
    <2>4. \A n \in DOMAIN log : log[n] \in Calls
        BY <1>3
    <2> QED BY <1>1, <1>2, <2>1, <2>2, <2>3, <2>4, AnswerFacts DEF FreshInv
<1>7. PendingInv'
    <2>1. \A i \in DOMAIN pending' : stage'[pending'[i]] = "publishing"
        BY AnswerFacts
    <2>2. \A i, j \in DOMAIN pending' : i # j => pending'[i] # pending'[j]
        <3>1. \A i, j \in DOMAIN pending' : i # j => i + k # j + k
            BY <1>2, <1>4
        <3> QED BY <1>1, <1>2, <3>1 DEF PendingInv
    <2>3. \A i \in DOMAIN pending' :
             \E s \in Sockets : \E p \in DOMAIN inbox[s] : inbox[s][p] = pending'[i]
        BY <1>1, <1>2 DEF PendingInv
    <2> QED BY <1>2, <2>1, <2>2, <2>3 DEF PendingInv
<1>8. LinkInv'
    <2>1. results = <<>> => DOMAIN results' = {}
        BY <1>2
    <2>2. DOMAIN results' = {} => results' = <<>>
        BY <1>3
    <2> QED BY <1>1, <1>2, <2>1, <2>2 DEF LinkInv
<1>9. RepliesPaired'
    <2>1. \A i \in DOMAIN results' :
             results'[i] # Failed => results'[i] \in DOMAIN log /\ log[results'[i]] = pending'[i]
        BY <1>1, <1>2, <1>5 DEF RepliesPaired
    <2> QED BY <1>2, <2>1 DEF RepliesPaired
<1>10. AnsweredInv'
    <2> SUFFICES ASSUME NEW s \in Sockets, NEW i \in DOMAIN replies'[s]
                 PROVE  stage'[replies'[s][i].call] = "done"
        BY DEF AnsweredInv
    <2>1. CASE i \in DOMAIN replies[s]
        BY <2>1, AnswerFacts DEF IInv, AnsweredInv
    <2>2. CASE i \notin DOMAIN replies[s]
        BY <1>2, <2>2, AnswerFacts
    <2> QED BY <2>1, <2>2
<1>11. AnsweredOnce'
    <2>1. ASSUME NEW s \in Sockets, NEW i \in DOMAIN replies'[s], NEW j \in DOMAIN replies'[s], i < j
          PROVE  replies'[s][i].call # replies'[s][j].call
        <3>1. CASE i \in DOMAIN replies[s] /\ j \in DOMAIN replies[s]
            <4>1. i # j
                BY <2>1, <1>1 DEF TypeOK
            <4> QED BY <3>1, <4>1, AnswerFacts DEF IInv, AnsweredOnce
        <3>2. CASE i \in DOMAIN replies[s] /\ j \notin DOMAIN replies[s]
            <4>1. stage[replies'[s][i].call] = "done"
                BY <3>2, AnswerFacts DEF IInv, AnsweredInv
            <4>2. stage[replies'[s][j].call] = "publishing"
                BY <1>2, <3>2, AnswerFacts
            <4> QED BY <4>1, <4>2
        <3>3. CASE i \notin DOMAIN replies[s]
            <4>1. PICK m \in 1 .. k, n \in 1 .. k :
                     m < n /\ replies'[s][i] = answers[m] /\ replies'[s][j] = answers[n]
                BY <2>1, <3>3, AnswerFacts
            <4>2. m # n /\ pending[m] # pending[n]
                BY <1>1, <1>2, <4>1 DEF PendingInv
            <4> QED BY <1>2, <4>1, <4>2
        <3> QED BY <3>1, <3>2, <3>3
    <2>2. \A s \in Sockets : \A i \in DOMAIN replies'[s] : i \in Int
        <3>1. \A s \in Sockets : replies'[s] \in Seq(Answer)
            BY DEF TypeOK
        <3> QED BY <3>1
    <2>3. \A s \in Sockets : \A i, j \in DOMAIN replies'[s] : i # j => i < j \/ j < i
        BY <2>2
    <2> QED BY <2>1, <2>3 DEF AnsweredOnce
<1>12. OwnReplies'
    <2> SUFFICES ASSUME NEW s \in Sockets, NEW i \in DOMAIN replies'[s]
                 PROVE  \E p \in DOMAIN inbox[s] : inbox[s][p] = replies'[s][i].call
        BY <1>2 DEF OwnReplies
    <2>1. CASE i \in DOMAIN replies[s]
        BY <2>1, AnswerFacts DEF IInv, OwnReplies
    <2>2. CASE i \notin DOMAIN replies[s]
        <3>1. PICK n \in 1 .. k : replies'[s][i] = answers[n] /\ SocketOf(answers[n].call) = s
            BY <2>2, AnswerFacts
        <3> QED BY <1>1, <1>2, <3>1, SocketOfPending
    <2> QED BY <2>1, <2>2
<1>13. ASSUME NEW s \in Sockets, NEW i \in DOMAIN replies'[s], i \notin DOMAIN replies[s],
              replies'[s][i].kind = "ok"
       PROVE  /\ 1 \in DOMAIN results /\ results[1] # Failed /\ replies'[s][i].id = results[1]
              /\ 1 \in DOMAIN pending /\ replies'[s][i].call = pending[1] /\ k >= 1
              /\ \E p \in DOMAIN inbox[s] : inbox[s][p] = pending[1]
    <2>1. PICK n \in 1 .. k : replies'[s][i] = answers[n] /\ SocketOf(answers[n].call) = s
        BY <1>13, AnswerFacts
    <2>2. /\ n = 1 /\ 1 \in DOMAIN results /\ results[1] # Failed /\ answers[n].id = results[1]
          /\ 1 \in DOMAIN pending /\ answers[n].call = pending[1]
        BY <1>2, <1>13, <2>1
    <2>3. k >= 1
        BY <1>2, <2>2
    <2>4. \E p \in DOMAIN inbox[s] : inbox[s][p] = pending[1]
        BY <1>1, <2>1, <2>2, SocketOfPending
    <2> QED BY <2>1, <2>2, <2>3, <2>4
<1>14. AckMeansStored'
    <2> SUFFICES ASSUME NEW s \in Sockets, NEW i \in DOMAIN replies'[s], replies'[s][i].kind = "ok"
                 PROVE  replies'[s][i].id \in DOMAIN log /\ log[replies'[s][i].id] = replies'[s][i].call
        BY <1>2 DEF AckMeansStored
    <2>1. CASE i \in DOMAIN replies[s]
        BY <2>1, AnswerFacts DEF IInv, AckMeansStored
    <2>2. CASE i \notin DOMAIN replies[s]
        BY <1>1, <1>13, <2>2 DEF RepliesPaired
    <2> QED BY <2>1, <2>2
<1>15. RejectedNeverStored'
    <2> SUFFICES ASSUME NEW s \in Sockets, NEW i \in DOMAIN replies'[s],
                        replies'[s][i].kind \in Rejections
                 PROVE  replies'[s][i].call \notin ToSet(log)
        BY <1>2 DEF RejectedNeverStored
    <2>1. i \in DOMAIN replies[s]
        BY <1>2, AnswerFacts DEF Rejections
    <2> QED BY <2>1, AnswerFacts DEF IInv, RejectedNeverStored
<1>16. IdOrder'
    <2>1. \A i, j \in DOMAIN results' :
             i < j /\ results'[i] # Failed /\ results'[j] # Failed => results'[i] < results'[j]
        <3>1. \A i, j \in DOMAIN results' : i < j => i + k < j + k
            BY <1>2, <1>5
        <3> QED BY <1>2, <3>1 DEF IInv, IdOrder
    <2>2. ASSUME NEW s \in Sockets, NEW i \in DOMAIN replies'[s], NEW j \in DOMAIN results',
                 replies'[s][i].kind = "ok", results'[j] # Failed
          PROVE  replies'[s][i].id < results'[j]
        <3>1. CASE i \in DOMAIN replies[s]
            BY <1>2, <2>2, <3>1, AnswerFacts DEF IInv, IdOrder
        <3>2. CASE i \notin DOMAIN replies[s]
            <4>1. 1 < j + k
                BY <1>2, <1>5, <1>13, <2>2, <3>2
            <4>2. results[1] < results[j + k]
                BY <1>2, <1>13, <2>2, <3>2, <4>1 DEF IInv, IdOrder
            <4> QED BY <1>2, <1>13, <2>2, <3>2, <4>2
        <3> QED BY <3>1, <3>2
    <2> QED BY <2>1, <2>2 DEF IdOrder
<1>17. InboxOrder'
    <2> SUFFICES ASSUME NEW s \in Sockets, NEW p \in DOMAIN inbox[s], NEW q \in DOMAIN inbox[s],
                        NEW j \in DOMAIN pending', inbox[s][q] = pending'[j]
                 PROVE  /\ \A i \in DOMAIN pending' : i < j /\ inbox[s][p] = pending'[i] => p < q
                        /\ \A i \in DOMAIN replies'[s] :
                              replies'[s][i].kind = "ok" /\ inbox[s][p] = replies'[s][i].call => p < q
        BY <1>2 DEF InboxOrder
    <2>1. j + k \in DOMAIN pending /\ inbox[s][q] = pending[j + k]
        BY <1>2
    <2>2. ASSUME NEW i \in DOMAIN pending', i < j, inbox[s][p] = pending'[i]
          PROVE  p < q
        <3>1. i + k \in DOMAIN pending /\ i + k < j + k /\ inbox[s][p] = pending[i + k]
            BY <1>2, <1>4, <2>2
        <3> QED BY <2>1, <3>1 DEF IInv, InboxOrder
    <2>3. ASSUME NEW i \in DOMAIN replies'[s], replies'[s][i].kind = "ok",
                 inbox[s][p] = replies'[s][i].call
          PROVE  p < q
        <3>1. CASE i \in DOMAIN replies[s]
            BY <2>1, <2>3, <3>1, AnswerFacts DEF IInv, InboxOrder
        <3>2. CASE i \notin DOMAIN replies[s]
            <4>1. 1 < j + k
                BY <1>2, <1>4, <1>13, <2>3, <3>2
            <4> QED BY <1>13, <2>1, <2>3, <3>2, <4>1 DEF IInv, InboxOrder
        <3> QED BY <3>1, <3>2
    <2> QED BY <2>2, <2>3
<1>18. AcksInOrder'
    <2> SUFFICES ASSUME NEW s \in Sockets, NEW i \in DOMAIN replies'[s], NEW j \in DOMAIN replies'[s],
                        i < j, replies'[s][i].kind = "ok", replies'[s][j].kind = "ok"
                 PROVE  /\ replies'[s][i].id < replies'[s][j].id
                        /\ \E p, q \in DOMAIN inbox[s] :
                              /\ p < q /\ inbox[s][p] = replies'[s][i].call
                              /\ inbox[s][q] = replies'[s][j].call
        BY <1>2 DEF AcksInOrder
    <2>1. i \in DOMAIN replies[s]
        <3> SUFFICES ASSUME i \notin DOMAIN replies[s]
                     PROVE  FALSE
            OBVIOUS
        <3>1. PICK m \in 1 .. k, n \in 1 .. k :
                 m < n /\ replies'[s][i] = answers[m] /\ replies'[s][j] = answers[n]
            BY AnswerFacts
        <3>2. m = 1 /\ n = 1
            BY <1>2, <3>1
        <3> QED BY <3>1, <3>2
    <2>2. replies'[s][i] = replies[s][i]
        BY <2>1, AnswerFacts
    <2>3. CASE j \in DOMAIN replies[s]
        <3>1. replies'[s][j] = replies[s][j]
            BY <2>3, AnswerFacts
        <3> QED BY <2>1, <2>2, <2>3, <3>1 DEF IInv, AcksInOrder
    <2>4. CASE j \notin DOMAIN replies[s]
        <3>1. PICK p \in DOMAIN inbox[s] : inbox[s][p] = replies[s][i].call
            BY <2>1 DEF IInv, OwnReplies
        <3>2. PICK q \in DOMAIN inbox[s] : inbox[s][q] = pending[1]
            BY <1>13, <2>4
        <3>3. p < q
            BY <1>13, <2>1, <2>2, <2>4, <3>1, <3>2 DEF IInv, InboxOrder
        <3>4. replies[s][i].id < results[1]
            BY <1>13, <2>1, <2>2, <2>4 DEF IInv, IdOrder
        <3> QED BY <1>13, <2>2, <2>4, <3>1, <3>2, <3>3, <3>4
    <2> QED BY <2>3, <2>4
<1> QED BY <1>6, <1>7, <1>8, <1>9, <1>10, <1>11, <1>12, <1>14, <1>15, <1>16, <1>17, <1>18 DEF IInv

\* The stage an answer leaves a call in is one of the three.
LEMMA SendTypes ==
    ASSUME TypeOK, NEW answers \in Seq(Answer), Send(answers)
    PROVE  /\ stage' \in [Calls -> {"idle", "publishing", "done"}]
           /\ sockets' \in [Sockets -> {"idle", "open", "closed"}]
           /\ replies' \in [Sockets -> Seq(Answer)]
<1>1. stage \in [Calls -> {"idle", "publishing", "done"}]
    BY DEF TypeOK
<1>2. stage' = [x \in Calls |-> IF \E n \in DOMAIN answers : answers[n].call = x
                                THEN "done" ELSE stage[x]]
    BY SendFacts
<1> QED BY <1>1, <1>2, SendFacts

\* The oldest XADD settles.
LEMMA SettleStep ==
    ASSUME IInv, Settle
    PROVE  IInv'
<1>1. TypeOK /\ RepliesPaired
    BY DEF IInv
<1> DEFINE kind == IF Head(results) = Failed THEN "internal_error" ELSE "ok"
           a == Reply(Head(pending), kind, Head(results))
<1>2. /\ results # <<>> /\ results' = Tail(results) /\ pending' = Tail(pending)
      /\ Send(<<a>>)
      /\ UNCHANGED <<inbox, tokens, process, link, attempts, breaks, log>>
    BY DEF Settle
<1>3. results \in Seq(Nat) /\ pending \in Seq(Calls)
    BY <1>1 DEF TypeOK
<1>4. pending # <<>> /\ Len(results) <= Len(pending)
    BY <1>1, <1>2, <1>3 DEF RepliesPaired
<1>5. /\ 1 \in DOMAIN results /\ Head(results) = results[1] /\ results[1] \in Nat
      /\ Tail(results) \in Seq(Nat) /\ Len(Tail(results)) = Len(results) - 1
      /\ \A j \in DOMAIN Tail(results) : j + 1 \in DOMAIN results /\ Tail(results)[j] = results[j + 1]
    BY <1>2, <1>3, TailFacts
<1>6. /\ 1 \in DOMAIN pending /\ Head(pending) = pending[1] /\ pending[1] \in Calls
      /\ Tail(pending) \in Seq(Calls) /\ Len(Tail(pending)) = Len(pending) - 1
      /\ \A j \in DOMAIN Tail(pending) : j + 1 \in DOMAIN pending /\ Tail(pending)[j] = pending[j + 1]
    BY <1>3, <1>4, TailFacts
<1>7. /\ a \in Answer /\ a.call = pending[1] /\ a.id = results[1]
      /\ a.kind \in {"ok", "internal_error"} /\ (a.kind = "ok" => results[1] # Failed)
    BY <1>5, <1>6 DEF Reply, Answer, Kinds
<1> HIDE DEF a
<1>8. <<a>> \in Seq(Answer) /\ DOMAIN <<a>> = 1 .. 1 /\ <<a>>[1] = a /\ 1 .. 1 = {1}
    BY <1>7
<1>9. TypeOK'
    BY <1>1, <1>2, <1>5, <1>6, <1>8, SendTypes DEF TypeOK
<1>10. Answers(1, <<a>>)
    <2>1. Len(Tail(results)) <= Len(Tail(pending))
        BY <1>3, <1>4, <1>5, <1>6
    <2> QED BY <1>2, <1>5, <1>6, <1>7, <1>8, <2>1 DEF Answers
<1> QED BY <1>9, <1>10, AnswersStep

\* A failed attempt to reconnect counts, and every so often gives up on all
\* that is pending.
LEMMA ReconnectFailsStep ==
    ASSUME IInv, ReconnectFails
    PROVE  IInv'
<1>1. TypeOK /\ LinkInv
    BY DEF IInv
<1>2. /\ link = "down" /\ attempts' = (attempts + 1) % (MaxRetries + 1)
      /\ UNCHANGED <<inbox, tokens, process, link, breaks, results, log>>
    BY DEF ReconnectFails
<1>3. attempts' \in 0 .. MaxRetries
    BY <1>1, <1>2, IngestAssumption DEF TypeOK
<1>4. results = <<>>
    BY <1>1, <1>2 DEF LinkInv
<1>5. CASE attempts' = 0
    <2> DEFINE answers == [i \in DOMAIN pending |-> Reply(pending[i], "internal_error", Failed)]
    <2>1. pending' = <<>> /\ Send(answers)
        BY <1>5 DEF ReconnectFails
    <2>2. pending \in Seq(Calls) /\ results \in Seq(Nat)
        BY <1>1 DEF TypeOK
    <2>3. Len(pending) \in Nat /\ DOMAIN pending = 1 .. Len(pending)
        BY <2>2
    <2>4. \A i \in DOMAIN pending : Reply(pending[i], "internal_error", Failed) \in Answer
        BY <2>2 DEF Reply, Answer, Kinds, Failed
    <2>5. answers \in Seq(Answer) /\ DOMAIN answers = 1 .. Len(pending)
        BY <2>3, <2>4
    <2>6. \A n \in 1 .. Len(pending) :
             answers[n].call = pending[n] /\ answers[n].kind = "internal_error"
        BY <2>3 DEF Reply
    <2> HIDE DEF answers
    <2>7. TypeOK'
        BY <1>1, <1>2, <1>3, <2>1, <2>5, SendTypes DEF TypeOK
    <2>8. Answers(Len(pending), answers)
        <3>1. DOMAIN pending' = {} /\ DOMAIN results' = {} /\ Len(results') <= Len(pending')
            BY <1>2, <1>4, <2>1
        <3> QED BY <1>2, <2>1, <2>3, <2>5, <2>6, <3>1 DEF Answers
    <2> QED BY <2>7, <2>8, AnswersStep
<1>6. CASE attempts' # 0
    <2>1. UNCHANGED <<pending, replies, sockets, stage>>
        BY <1>6 DEF ReconnectFails
    <2> QED BY <1>2, <1>3, <2>1
            DEF IInv, TypeOK, FreshInv, PendingInv, LinkInv, RepliesPaired, AnsweredInv, AnsweredOnce,
                OwnReplies, AckMeansStored, RejectedNeverStored, IdOrder, InboxOrder, AcksInOrder
<1> QED BY <1>5, <1>6

\* The connection breaks, with the replies that were on their way, or is
\* there again.
LEMMA LinkStep ==
    ASSUME IInv, Break \/ Reconnect
    PROVE  IInv'
<1>1. TypeOK
    BY DEF IInv
<1>2. /\ UNCHANGED <<stage, sockets, inbox, replies, tokens, process, pending, log>>
      /\ link' \in {"up", "down"} /\ (link' = "down" => results' = <<>>)
      /\ results' = results \/ results' = <<>>
      /\ attempts' \in 0 .. MaxRetries /\ breaks' \in 0 .. MaxBreaks
    BY <1>1, IngestAssumption DEF Break, Reconnect, TypeOK, gateway
<1>3. TypeOK'
    <2>1. results' \in Seq(Nat)
        <3>1. <<>> \in Seq(Nat) /\ results \in Seq(Nat)
            BY <1>1 DEF TypeOK
        <3> QED BY <1>2, <3>1
    <2> QED BY <1>1, <1>2, <2>1 DEF TypeOK
<1>4. LinkInv'
    BY <1>2 DEF LinkInv
<1>5. RepliesPaired' /\ IdOrder'
    <2>1. CASE results' = results
        BY <1>2, <2>1 DEF IInv, RepliesPaired, IdOrder
    <2>2. CASE results' = <<>>
        <3>1. DOMAIN results' = {} /\ Len(results') = 0 /\ Len(pending) \in Nat
            BY <1>1, <2>2 DEF TypeOK
        <3> QED BY <1>2, <3>1 DEF RepliesPaired, IdOrder
    <2> QED BY <1>2, <2>1, <2>2
<1>6. FreshInv' /\ PendingInv' /\ AnsweredInv' /\ AnsweredOnce' /\ OwnReplies' /\ AckMeansStored'
      /\ RejectedNeverStored' /\ InboxOrder' /\ AcksInOrder'
    BY <1>2 DEF IInv, FreshInv, PendingInv, AnsweredInv, AnsweredOnce, OwnReplies, AckMeansStored,
                RejectedNeverStored, InboxOrder, AcksInOrder
<1> QED BY <1>3, <1>4, <1>5, <1>6 DEF IInv

\* Connections that open and close, tokens and signals disturb nothing.
LEMMA OutsideStep ==
    ASSUME IInv,
           \/ \E c \in Clients : WsConnect(c)
           \/ \E s \in Sockets : Hangup(s)
           \/ \E l \in {"rest", "ws"} : Refill(l)
           \/ Sigterm \/ Exit
    PROVE  IInv'
<1>1. TypeOK
    BY DEF IInv
<1>2. /\ UNCHANGED <<stage, inbox, replies, pending, link, attempts, breaks, results, log>>
      /\ sockets' \in [Sockets -> {"idle", "open", "closed"}]
      /\ \A s \in Sockets : sockets'[s] = "idle" => sockets[s] = "idle"
    BY <1>1 DEF WsConnect, Hangup, Refill, Sigterm, Exit, TypeOK, redis
<1>3. tokens' \in [{"rest", "ws"} -> 0 .. Burst]
    <2>1. tokens \in [{"rest", "ws"} -> 0 .. Burst] /\ Burst \in Nat
        BY <1>1, IngestAssumption DEF TypeOK
    <2>2. CASE UNCHANGED tokens
        BY <2>1, <2>2
    <2>3. CASE \E l \in {"rest", "ws"} : Refill(l)
        <3>1. PICK l \in {"rest", "ws"} : Refill(l)
            BY <2>3
        <3>2. tokens[l] + 1 \in 0 .. Burst
            BY <2>1, <3>1 DEF Refill
        <3> QED BY <2>1, <3>1, <3>2 DEF Refill
    <2> QED BY <2>2, <2>3 DEF WsConnect, Hangup, Sigterm, Exit
<1>4. process' \in {"running", "closing", "exited"}
    BY <1>1 DEF WsConnect, Hangup, Refill, Sigterm, Exit, TypeOK
<1>5. TypeOK'
    BY <1>1, <1>2, <1>3, <1>4 DEF TypeOK
<1>6. FreshInv'
    <2>1. Requests \subseteq Sockets
        BY DEF Sockets
    <2> QED BY <1>2, <2>1 DEF IInv, FreshInv
<1>7. PendingInv' /\ LinkInv' /\ RepliesPaired' /\ AnsweredInv' /\ AnsweredOnce' /\ OwnReplies'
      /\ AckMeansStored' /\ RejectedNeverStored' /\ IdOrder' /\ InboxOrder' /\ AcksInOrder'
    BY <1>2 DEF IInv, PendingInv, LinkInv, RepliesPaired, AnsweredInv, AnsweredOnce, OwnReplies,
                AckMeansStored, RejectedNeverStored, IdOrder, InboxOrder, AcksInOrder
<1> QED BY <1>5, <1>6, <1>7 DEF IInv

-----------------------------------------------------------------------------
\* A call that is refused or published leaves every variable in its type.
LEMMA RefusalTypes ==
    ASSUME IInv, NEW s, NEW x, Refused(s, x),
           UNCHANGED <<process, attempts, breaks>>, tokens' \in [{"rest", "ws"} -> 0 .. Burst],
           stage' \in [Calls -> {"idle", "publishing", "done"}],
           sockets' \in [Sockets -> {"idle", "open", "closed"}]
    PROVE  TypeOK'
<1>1. TypeOK /\ s \in Sockets /\ x \in Calls
    BY DEF IInv, Refused, Joins
<1>2. inbox' = [inbox EXCEPT ![s] = Append(@, x)] /\ inbox' \in [Sockets -> Seq(Calls)]
    BY <1>1 DEF Refused, Joins, TypeOK
<1>3. PICK kind \in Kinds \ {"ok"} :
         replies' = [replies EXCEPT ![s] = Append(@, Reply(x, kind, Failed))]
    BY DEF Refused
<1>4. Reply(x, kind, Failed) \in Answer
    BY <1>1 DEF Reply, Answer, Failed
<1>5. replies' \in [Sockets -> Seq(Answer)]
    BY <1>1, <1>3, <1>4 DEF TypeOK
<1> QED BY <1>1, <1>2, <1>5 DEF TypeOK, Refused, Joins

LEMMA PublishTypes ==
    ASSUME IInv, NEW s, NEW x, Published(s, x),
           UNCHANGED <<process, attempts, breaks>>, tokens' \in [{"rest", "ws"} -> 0 .. Burst],
           stage' \in [Calls -> {"idle", "publishing", "done"}],
           sockets' \in [Sockets -> {"idle", "open", "closed"}]
    PROVE  TypeOK'
<1>1. TypeOK /\ s \in Sockets /\ x \in Calls
    BY DEF IInv, Published, Joins
<1>2. inbox' = [inbox EXCEPT ![s] = Append(@, x)] /\ inbox' \in [Sockets -> Seq(Calls)]
    BY <1>1 DEF Published, Joins, TypeOK
<1>3. pending' \in Seq(Calls)
    BY <1>1 DEF Published, TypeOK
<1> QED BY <1>1, <1>2, <1>3 DEF TypeOK, Published, Joins

\* The limiter's level stays between empty and full.
LEMMA LimiterTypes ==
    ASSUME TypeOK, NEW l \in {"rest", "ws"}, Limited(l) \/ Admitted(l) \/ UNCHANGED tokens
    PROVE  tokens' \in [{"rest", "ws"} -> 0 .. Burst]
<1>1. tokens \in [{"rest", "ws"} -> 0 .. Burst] /\ Burst \in Nat
    BY IngestAssumption DEF TypeOK
<1>2. CASE UNCHANGED tokens
    BY <1>1, <1>2
<1>3. CASE Admitted(l)
    <2>1. tokens[l] - 1 \in 0 .. Burst
        BY <1>1, <1>3 DEF Admitted
    <2> QED BY <1>1, <1>3, <2>1 DEF Admitted
<1> QED BY <1>2, <1>3 DEF Limited

\* A request comes in on a connection that made no other.
LEMMA RestStep ==
    ASSUME IInv, NEW r \in Requests, NEW b \in Bodies, RestEvent(r, b)
    PROVE  IInv'
<1>1. /\ TypeOK /\ FreshInv
      /\ r \in Sockets /\ r \in Calls /\ sockets[r] = "idle"
    BY DEF IInv, RestEvent, Sockets, Calls
<1>2. stage[r] = "idle" /\ inbox[r] = <<>>
    BY <1>1 DEF FreshInv
<1>3. inbox' = [inbox EXCEPT ![r] = Append(@, r)]
    <2>1. Append(<<>>, r) = <<r>>
        OBVIOUS
    <2> QED BY <1>1, <1>2, <2>1 DEF RestEvent, TypeOK
<1>4. UNCHANGED <<process, link, attempts, breaks, results, log>>
    BY DEF RestEvent, redis
<1>5. tokens' \in [{"rest", "ws"} -> 0 .. Burst]
    <2>1. Limited("rest") \/ Admitted("rest") \/ UNCHANGED tokens
        BY DEF RestEvent
    <2> QED BY <1>1, <2>1, LimiterTypes
<1>6. /\ stage \in [Calls -> {"idle", "publishing", "done"}]
      /\ sockets \in [Sockets -> {"idle", "open", "closed"}]
    BY <1>1 DEF TypeOK
<1>7. CASE /\ \E kind \in Kinds \ {"ok"} : Refusal(r, r, kind)
           /\ sockets' = [sockets EXCEPT ![r] = "closed"]
    <2>1. /\ stage' = [stage EXCEPT ![r] = "done"] /\ UNCHANGED pending
          /\ \E kind \in Kinds \ {"ok"} :
                replies' = [replies EXCEPT ![r] = Append(@, Reply(r, kind, Failed))]
        BY <1>7 DEF Refusal
    <2>2. Refused(r, r)
        BY <1>1, <1>2, <1>3, <1>4, <1>6, <1>7, <2>1 DEF Refused, Joins
    <2>3. /\ stage' \in [Calls -> {"idle", "publishing", "done"}]
          /\ sockets' \in [Sockets -> {"idle", "open", "closed"}]
        BY <1>6, <1>7, <2>1
    <2>4. TypeOK'
        BY <1>4, <1>5, <2>2, <2>3, RefusalTypes
    <2> QED BY <2>2, <2>4, RefusedStep
<1>8. CASE Publish(r) /\ sockets' = [sockets EXCEPT ![r] = "open"] /\ UNCHANGED replies
    <2>1. stage' = [stage EXCEPT ![r] = "publishing"] /\ pending' = Append(pending, r)
        BY <1>8 DEF Publish
    <2>2. Published(r, r)
        BY <1>1, <1>2, <1>3, <1>4, <1>6, <1>8, <2>1 DEF Published, Joins
    <2>3. /\ stage' \in [Calls -> {"idle", "publishing", "done"}]
          /\ sockets' \in [Sockets -> {"idle", "open", "closed"}]
        BY <1>6, <1>8, <2>1
    <2>4. TypeOK'
        BY <1>4, <1>5, <2>2, <2>3, PublishTypes
    <2> QED BY <2>2, <2>4, PublishedStep
<1>9. {"internal_error", "rate_limited", "validation_failed"} \subseteq Kinds \ {"ok"}
    BY DEF Kinds, Rejections
<1> QED BY <1>7, <1>8, <1>9 DEF RestEvent

\* A message comes in on an open WebSocket.
LEMMA WsStep ==
    ASSUME IInv, NEW c \in Clients, NEW m \in Messages, NEW b \in Bodies, WsEvent(c, m, b)
    PROVE  IInv'
<1>1. /\ TypeOK /\ c \in Sockets /\ m \in Calls
      /\ m \notin Requests
      /\ sockets[c] = "open" /\ stage[m] = "idle" /\ UNCHANGED sockets
      /\ inbox' = [inbox EXCEPT ![c] = Append(@, m)]
      /\ UNCHANGED <<process, link, attempts, breaks, results, log>>
    BY IngestAssumption DEF IInv, WsEvent, Sockets, Calls, redis
<1>2. tokens' \in [{"rest", "ws"} -> 0 .. Burst]
    <2>1. Limited("ws") \/ Admitted("ws") \/ UNCHANGED tokens
        BY DEF WsEvent
    <2> QED BY <1>1, <2>1, LimiterTypes
<1>3. /\ stage \in [Calls -> {"idle", "publishing", "done"}]
      /\ sockets \in [Sockets -> {"idle", "open", "closed"}]
    BY <1>1 DEF TypeOK
<1>4. CASE \E kind \in Kinds \ {"ok"} : Refusal(c, m, kind)
    <2>1. /\ stage' = [stage EXCEPT ![m] = "done"] /\ UNCHANGED pending
          /\ \E kind \in Kinds \ {"ok"} :
                replies' = [replies EXCEPT ![c] = Append(@, Reply(m, kind, Failed))]
        BY <1>4 DEF Refusal
    <2>2. Refused(c, m)
        BY <1>1, <1>3, <2>1 DEF Refused, Joins
    <2>3. /\ stage' \in [Calls -> {"idle", "publishing", "done"}]
          /\ sockets' \in [Sockets -> {"idle", "open", "closed"}]
        BY <1>1, <1>3, <2>1
    <2>4. TypeOK'
        BY <1>1, <1>2, <2>2, <2>3, RefusalTypes
    <2> QED BY <2>2, <2>4, RefusedStep
<1>5. CASE Publish(m) /\ UNCHANGED replies
    <2>1. stage' = [stage EXCEPT ![m] = "publishing"] /\ pending' = Append(pending, m)
        BY <1>5 DEF Publish
    <2>2. Published(c, m)
        BY <1>1, <1>3, <1>5, <2>1 DEF Published, Joins
    <2>3. /\ stage' \in [Calls -> {"idle", "publishing", "done"}]
          /\ sockets' \in [Sockets -> {"idle", "open", "closed"}]
        BY <1>1, <1>3, <2>1
    <2>4. TypeOK'
        BY <1>1, <1>2, <2>2, <2>3, PublishTypes
    <2> QED BY <2>2, <2>4, PublishedStep
<1>6. {"rate_limited", "invalid_json", "validation_failed"} \subseteq Kinds \ {"ok"}
    BY DEF Kinds, Rejections
<1> QED BY <1>4, <1>5, <1>6 DEF WsEvent

-----------------------------------------------------------------------------
LEMMA InitIInv == Init => IInv
<1> SUFFICES ASSUME Init PROVE IInv
    OBVIOUS
<1>1. /\ stage = [x \in Calls |-> "idle"] /\ sockets = [s \in Sockets |-> "idle"]
      /\ inbox = [s \in Sockets |-> <<>>] /\ replies = [s \in Sockets |-> <<>>]
      /\ tokens = [l \in {"rest", "ws"} |-> Burst] /\ process = "running" /\ pending = <<>>
      /\ link \in {"up", "down"} /\ attempts = 0 /\ breaks = 0 /\ results = <<>> /\ log = <<>>
    BY DEF Init
<1>2. TypeOK
    BY <1>1, IngestAssumption DEF TypeOK
<1>3. /\ \A s \in Sockets : DOMAIN inbox[s] = {} /\ DOMAIN replies[s] = {}
      /\ DOMAIN pending = {} /\ DOMAIN results = {} /\ DOMAIN log = {}
      /\ Len(results) = 0 /\ Len(pending) = 0
    BY <1>1
<1>4. FreshInv
    BY <1>1, <1>3 DEF FreshInv, Calls
<1>5. PendingInv /\ LinkInv /\ RepliesPaired /\ AnsweredInv /\ AnsweredOnce /\ OwnReplies
      /\ AckMeansStored /\ RejectedNeverStored /\ IdOrder /\ InboxOrder /\ AcksInOrder
    BY <1>1, <1>3 DEF PendingInv, LinkInv, RepliesPaired, AnsweredInv, AnsweredOnce, OwnReplies,
                      AckMeansStored, RejectedNeverStored, IdOrder, InboxOrder, AcksInOrder
<1> QED BY <1>2, <1>4, <1>5 DEF IInv

LEMMA NextIInv == IInv /\ [Next]_vars => IInv'
<1> SUFFICES ASSUME IInv, [Next]_vars PROVE IInv'
    OBVIOUS
<1>1. CASE \E r \in Requests, b \in Bodies : RestEvent(r, b)
    BY <1>1, RestStep
<1>2. CASE \E c \in Clients, m \in Messages, b \in Bodies : WsEvent(c, m, b)
    BY <1>2, WsStep
<1>3. CASE \/ \E c \in Clients : WsConnect(c)
           \/ \E s \in Sockets : Hangup(s)
           \/ \E l \in {"rest", "ws"} : Refill(l)
           \/ Sigterm \/ Exit
    BY <1>3, OutsideStep
<1>4. CASE Execute \/ ExecuteFails
    BY <1>4, RedisStep
<1>5. CASE Settle
    BY <1>5, SettleStep
<1>6. CASE ReconnectFails
    BY <1>6, ReconnectFailsStep
<1>7. CASE Break \/ Reconnect
    BY <1>7, LinkStep
<1>8. CASE UNCHANGED vars
    BY <1>8 DEF vars, IInv, TypeOK, FreshInv, PendingInv, LinkInv, RepliesPaired, AnsweredInv,
                AnsweredOnce, OwnReplies, AckMeansStored, RejectedNeverStored, IdOrder, InboxOrder,
                AcksInOrder
<1> QED BY <1>1, <1>2, <1>3, <1>4, <1>5, <1>6, <1>7, <1>8 DEF Next

LEMMA Invariance == Spec => []IInv
    BY InitIInv, NextIInv, PTL DEF Spec

\* Every variable of the gateway has its type in every state.
THEOREM TypeCorrect == Spec => []TypeOK
<1>1. IInv => TypeOK
    BY DEF IInv
<1> QED BY <1>1, Invariance, PTL

\* Redis's unread replies belong to the oldest pending XADDs: no reconnection
\* pairs a promise with the id of another event.
THEOREM PairingHolds == Spec => []RepliesPaired
<1>1. IInv => RepliesPaired
    BY DEF IInv
<1> QED BY <1>1, Invariance, PTL

\* Whatever breaks in between, an acknowledged event is in the stream under the
\* id its client was given.
THEOREM AcksAreTrue == Spec => []AckMeansStored
<1>1. IInv => AckMeansStored
    BY DEF IInv
<1> QED BY <1>1, Invariance, PTL

\* A rejected event is never in the stream.
THEOREM RejectionsAreFinal == Spec => []RejectedNeverStored
<1>1. IInv => RejectedNeverStored
    BY DEF IInv
<1> QED BY <1>1, Invariance, PTL

\* A flush and a late reply never answer the same call.
THEOREM NoSecondAnswer == Spec => []AnsweredOnce
<1>1. IInv => AnsweredOnce
    BY DEF IInv
<1> QED BY <1>1, Invariance, PTL

\* The acknowledgements of a connection follow the order of its events, with
\* growing ids.
THEOREM AcksKeepOrder == Spec => []AcksInOrder
<1>1. IInv => AcksInOrder
    BY DEF IInv
<1> QED BY <1>1, Invariance, PTL

-----------------------------------------------------------------------------
\* The theorems about the reader, for the stream as the pipeline's reader sees
\* it.  The definitions they are about are those of F.
FP == INSTANCE StreamFanoutProofs WITH
        log <- [i \in DOMAIN log |-> "event"],
        link <- readerLink

\* A connection makes every call once.
InboxOnce ==
    \A s \in Sockets : \A p, q \in DOMAIN inbox[s] : inbox[s][p] = inbox[s][q] => p = q

Copies(x) == {n \in DOMAIN log : log[n] = x}

\* A message has at most one entry in the stream more than the connection broke,
\* and none for the last break yet while Redis has still to execute its XADD.
CopiesInv ==
    \A x \in Calls :
        /\ Cardinality(Copies(x)) <= 1 + breaks
        /\ (\E i \in DOMAIN pending : Len(results) < i /\ pending[i] = x)
              => Cardinality(Copies(x)) <= breaks

-----------------------------------------------------------------------------
\* Copies are positions of the log.
LEMMA CopiesFinite ==
    ASSUME TypeOK, NEW x
    PROVE  /\ IsFiniteSet(Copies(x)) /\ Cardinality(Copies(x)) \in Nat
           /\ Copies(x) \in SUBSET (1 .. Len(log))
<1>1. Len(log) \in Nat /\ DOMAIN log = 1 .. Len(log)
    BY DEF TypeOK
<1>2. Copies(x) \in SUBSET (1 .. Len(log))
    BY <1>1 DEF Copies
<1> QED BY <1>1, <1>2, IndicesFinite

\* Steps of the gateway that leave the inboxes alone or add a call that was
\* idle keep every call single.
LEMMA InboxStep ==
    ASSUME IInv, InboxOnce, [Next]_vars
    PROVE  InboxOnce'
<1>1. \A s \in Sockets : inbox[s] \in Seq(Calls)
    BY DEF IInv, TypeOK
<1>2. ASSUME NEW r \in Requests, NEW b \in Bodies, RestEvent(r, b)
      PROVE  InboxOnce'
    <2>1. inbox' = [inbox EXCEPT ![r] = <<r>>]
        BY <1>2 DEF RestEvent
    <2>2. inbox \in [Sockets -> Seq(Calls)]
        BY DEF IInv, TypeOK
    <2> QED BY <2>1, <2>2 DEF InboxOnce
<1>3. ASSUME NEW c \in Clients, NEW m \in Messages, NEW b \in Bodies, WsEvent(c, m, b)
      PROVE  InboxOnce'
    <2>1. inbox' = [inbox EXCEPT ![c] = Append(@, m)] /\ stage[m] = "idle"
        BY <1>3 DEF WsEvent
    <2>2. inbox \in [Sockets -> Seq(Calls)] /\ c \in Sockets /\ m \in Calls
        BY DEF IInv, TypeOK, Sockets, Calls
    <2>3. \A p \in DOMAIN inbox[c] : inbox[c][p] # m
        BY <2>1, <2>2 DEF IInv, FreshInv
    <2>4. \A s \in Sockets : s # c => inbox'[s] = inbox[s]
        BY <2>1, <2>2
    <2>5. inbox'[c] = Append(inbox[c], m)
        BY <2>1, <2>2
    <2>6. \A p \in DOMAIN inbox'[c] :
             \/ p \in DOMAIN inbox[c] /\ inbox'[c][p] = inbox[c][p]
             \/ p = Len(inbox[c]) + 1 /\ inbox'[c][p] = m
        BY <1>1, <2>2, <2>5, AppendFacts
    <2>7. \A p, q \in DOMAIN inbox'[c] : inbox'[c][p] = inbox'[c][q] => p = q
        BY <2>2, <2>3, <2>6 DEF InboxOnce
    <2> QED BY <2>4, <2>7 DEF InboxOnce
<1>4. CASE UNCHANGED inbox
    BY <1>4 DEF InboxOnce
<1>5. \/ \E r \in Requests, b \in Bodies : RestEvent(r, b)
      \/ \E c \in Clients, m \in Messages, b \in Bodies : WsEvent(c, m, b)
      \/ UNCHANGED inbox
    BY DEF Next, vars, gateway, WsConnect, Hangup, Refill, Execute, ExecuteFails, Settle, Break,
           Reconnect, ReconnectFails, Sigterm, Exit
<1> QED BY <1>2, <1>3, <1>4, <1>5

\* What a handler does with a call: it answers at once, or its XADD joins the
\* queue of a call that has no entry yet.
LEMMA HandlerKeepsCopies ==
    ASSUME IInv, CopiesInv, UNCHANGED <<log, results, breaks>>,
           \/ UNCHANGED pending
           \/ \E x \in Calls : stage[x] = "idle" /\ pending' = Append(pending, x)
    PROVE  CopiesInv'
<1>1. \A x \in Calls : Copies(x)' = Copies(x)
    BY DEF Copies
<1>2. breaks \in Nat /\ pending \in Seq(Calls)
    BY IngestAssumption DEF IInv, TypeOK
<1>3. ASSUME NEW y \in Calls, stage[y] = "idle", pending' = Append(pending, y),
             NEW x \in Calls, NEW i \in DOMAIN pending', Len(results) < i, pending'[i] = x
      PROVE  Cardinality(Copies(x)) <= breaks
    <2>1. CASE i \in DOMAIN pending
        <3>1. pending[i] = x
            BY <1>2, <1>3, <2>1, AppendFacts
        <3> QED BY <1>3, <2>1, <3>1 DEF CopiesInv
    <2>2. CASE i \notin DOMAIN pending
        <3>1. x = y
            BY <1>2, <1>3, <2>2, AppendFacts
        <3>2. Copies(x) = {}
            BY <1>3, <3>1 DEF Copies, IInv, FreshInv
        <3>3. Cardinality(Copies(x)) = 0
            BY <3>2, FS_EmptySet
        <3> QED BY <1>2, <3>3
    <2> QED BY <2>1, <2>2
<1>4. CASE UNCHANGED pending
    BY <1>1, <1>4 DEF CopiesInv
<1>5. CASE \E y \in Calls : stage[y] = "idle" /\ pending' = Append(pending, y)
    <2>1. PICK y \in Calls : stage[y] = "idle" /\ pending' = Append(pending, y)
        BY <1>5
    <2>2. ASSUME NEW x \in Calls
          PROVE  /\ Cardinality(Copies(x)') <= 1 + breaks'
                 /\ (\E i \in DOMAIN pending' : Len(results') < i /\ pending'[i] = x)
                       => Cardinality(Copies(x)') <= breaks'
        <3>1. Cardinality(Copies(x)) <= 1 + breaks
            BY DEF CopiesInv
        <3> QED BY <1>1, <1>3, <2>1, <3>1
    <2> QED BY <2>2 DEF CopiesInv
<1> QED BY <1>4, <1>5

\* Redis executes an XADD that waits: it is one more copy, and waits no longer.
LEMMA ExecuteKeepsCopies ==
    ASSUME IInv, CopiesInv, Execute
    PROVE  CopiesInv'
<1>1. /\ pending \in Seq(Calls) /\ Len(pending) \in Nat /\ DOMAIN pending = 1 .. Len(pending)
      /\ results \in Seq(Nat) /\ Len(results) \in Nat
      /\ log \in Seq(Calls) /\ Len(log) \in Nat /\ DOMAIN log = 1 .. Len(log)
      /\ breaks \in Nat
    BY IngestAssumption DEF IInv, TypeOK
<1>2. PICK n \in DOMAIN pending, y \in Calls : n = Len(results) + 1 /\ y = pending[n]
    BY <1>1 DEF Execute
<1>3. /\ log' = Append(log, y) /\ Len(results') = n
      /\ pending' = pending /\ breaks' = breaks
    BY <1>1, <1>2 DEF Execute
<1>4. DOMAIN log' = 1 .. Len(log) + 1 /\ log'[Len(log) + 1] = y
      /\ \A i \in DOMAIN log : log'[i] = log[i]
    BY <1>1, <1>2, <1>3
<1>5. ASSUME NEW x \in Calls, x # y
      PROVE  Copies(x)' = Copies(x)
    BY <1>1, <1>4, <1>5 DEF Copies
<1>6. Copies(y)' = Copies(y) \cup {Len(log) + 1} /\ Len(log) + 1 \notin Copies(y)
    BY <1>1, <1>4 DEF Copies
<1>7. Cardinality(Copies(y)') <= 1 + breaks'
    <2>1. Cardinality(Copies(y)) <= breaks
        <3>1. Len(results) < n /\ pending[n] = y
            BY <1>1, <1>2
        <3> QED BY <1>2, <3>1 DEF CopiesInv
    <2>2. IsFiniteSet(Copies(y)) /\ Cardinality(Copies(y)) \in Nat
        BY CopiesFinite DEF IInv
    <2>3. Cardinality(Copies(y)') = Cardinality(Copies(y)) + 1
        BY <1>6, <2>2, FS_AddElement
    <2> QED BY <1>1, <1>3, <2>1, <2>2, <2>3
<1>8. ASSUME NEW x \in Calls
      PROVE  /\ Cardinality(Copies(x)') <= 1 + breaks'
             /\ (\E i \in DOMAIN pending' : Len(results') < i /\ pending'[i] = x)
                   => Cardinality(Copies(x)') <= breaks'
    <2>1. CASE x = y
        <3>1. ASSUME NEW i \in DOMAIN pending, n < i
              PROVE  pending[i] # y
            <4>1. PendingInv /\ i # n
                BY <1>1, <3>1 DEF IInv
            <4> QED BY <1>2, <4>1 DEF PendingInv
        <3> QED BY <1>3, <1>7, <2>1, <3>1
    <2>2. CASE x # y
        <3>1. Cardinality(Copies(x)') <= 1 + breaks'
            BY <1>3, <1>5, <2>2 DEF CopiesInv
        <3>2. ASSUME NEW i \in DOMAIN pending, n < i, pending[i] = x
              PROVE  Cardinality(Copies(x)') <= breaks'
            <4>1. Len(results) < i
                BY <1>1, <1>2, <3>2
            <4>2. Cardinality(Copies(x)) <= breaks
                BY <3>2, <4>1 DEF CopiesInv
            <4> QED BY <1>3, <1>5, <2>2, <4>2
        <3> QED BY <1>3, <3>1, <3>2
    <2> QED BY <2>1, <2>2
<1> QED BY <1>8 DEF CopiesInv

\* A reply that is read, an XADD that Redis refuses, a flush: none makes an
\* executed XADD wait again.
LEMMA RepliesKeepCopies ==
    ASSUME IInv, CopiesInv, Settle \/ ExecuteFails \/ ReconnectFails
    PROVE  CopiesInv'
<1>1. /\ pending \in Seq(Calls) /\ Len(pending) \in Nat /\ DOMAIN pending = 1 .. Len(pending)
      /\ results \in Seq(Nat) /\ Len(results) \in Nat
    BY DEF IInv, TypeOK
<1>2. log' = log /\ breaks' = breaks
    BY DEF Settle, ExecuteFails, ReconnectFails
<1>3. \A x \in Calls : Copies(x)' = Copies(x)
    BY <1>2 DEF Copies
<1>4. ASSUME NEW i \in DOMAIN pending', Len(results') < i
      PROVE  \E j \in DOMAIN pending : Len(results) < j /\ pending[j] = pending'[i]
    <2>1. CASE Settle
        <3>1. results # <<>> /\ pending' = Tail(pending) /\ results' = Tail(results)
            BY <2>1 DEF Settle
        <3>2. pending # <<>>
            BY <1>1, <3>1 DEF IInv, RepliesPaired
        <3>3. /\ i + 1 \in DOMAIN pending /\ pending'[i] = pending[i + 1] /\ i \in Int
            BY <1>1, <1>4, <3>1, <3>2, TailFacts
        <3>4. Len(results') = Len(results) - 1
            BY <1>1, <3>1, TailFacts
        <3> QED BY <1>1, <1>4, <3>3, <3>4
    <2>2. CASE ExecuteFails
        <3>1. pending' = pending /\ Len(results') = Len(results) + 1
            BY <1>1, <2>2 DEF ExecuteFails
        <3> QED BY <1>1, <1>4, <3>1
    <2>3. CASE ReconnectFails
        <3>1. results' = results /\ (pending' = pending \/ pending' = <<>>)
            BY <2>3 DEF ReconnectFails
        <3> QED BY <1>4, <3>1
    <2> QED BY <2>1, <2>2, <2>3
<1>5. ASSUME NEW x \in Calls
      PROVE  /\ Cardinality(Copies(x)') <= 1 + breaks'
             /\ (\E i \in DOMAIN pending' : Len(results') < i /\ pending'[i] = x)
                   => Cardinality(Copies(x)') <= breaks'
    <2>1. Cardinality(Copies(x)) <= 1 + breaks
        BY DEF CopiesInv
    <2>2. ASSUME NEW i \in DOMAIN pending', Len(results') < i, pending'[i] = x
          PROVE  Cardinality(Copies(x)) <= breaks
        BY <1>4, <2>2 DEF CopiesInv
    <2> QED BY <1>2, <1>3, <2>1, <2>2
<1> QED BY <1>5 DEF CopiesInv

\* A break lets every pending XADD be executed once more.
LEMMA BreakKeepsCopies ==
    ASSUME IInv, CopiesInv, Break
    PROVE  CopiesInv'
<1>1. breaks \in Nat /\ breaks' = breaks + 1 /\ log' = log
    BY IngestAssumption DEF Break, IInv, TypeOK
<1>2. ASSUME NEW x \in Calls
      PROVE  Cardinality(Copies(x)') <= breaks' /\ breaks' <= 1 + breaks'
    <2>1. Copies(x)' = Copies(x)
        BY <1>1 DEF Copies
    <2>2. Cardinality(Copies(x)) <= 1 + breaks
        BY DEF CopiesInv
    <2> QED BY <1>1, <2>1, <2>2
<1>3. ASSUME NEW x \in Calls
      PROVE  Cardinality(Copies(x)') <= 1 + breaks'
    <2>1. Copies(x)' = Copies(x)
        BY <1>1 DEF Copies
    <2>2. Cardinality(Copies(x)) <= 1 + breaks /\ Cardinality(Copies(x)) \in Nat
        BY CopiesFinite DEF CopiesInv, IInv
    <2> QED BY <1>1, <2>1, <2>2
<1> QED BY <1>2, <1>3 DEF CopiesInv

LEMMA CopiesStep ==
    ASSUME IInv, CopiesInv, [Next]_vars
    PROVE  CopiesInv'
<1>1. ASSUME NEW r \in Requests, NEW b \in Bodies, RestEvent(r, b)
      PROVE  CopiesInv'
    <2>1. r \in Calls /\ stage[r] = "idle"
        BY <1>1 DEF RestEvent, Calls, IInv, FreshInv
    <2>2. UNCHANGED <<log, results, breaks>>
        BY <1>1 DEF RestEvent, redis
    <2>3. UNCHANGED pending \/ pending' = Append(pending, r)
        BY <1>1 DEF RestEvent, Refusal, Publish
    <2> QED BY <2>1, <2>2, <2>3, HandlerKeepsCopies
<1>2. ASSUME NEW c \in Clients, NEW m \in Messages, NEW b \in Bodies, WsEvent(c, m, b)
      PROVE  CopiesInv'
    <2>1. m \in Calls /\ stage[m] = "idle"
        BY <1>2 DEF WsEvent, Calls
    <2>2. UNCHANGED <<log, results, breaks>>
        BY <1>2 DEF WsEvent, redis
    <2>3. UNCHANGED pending \/ pending' = Append(pending, m)
        BY <1>2 DEF WsEvent, Refusal, Publish
    <2> QED BY <2>1, <2>2, <2>3, HandlerKeepsCopies
<1>3. CASE Execute
    BY <1>3, ExecuteKeepsCopies
<1>4. CASE Settle \/ ExecuteFails \/ ReconnectFails
    BY <1>4, RepliesKeepCopies
<1>5. CASE Break
    BY <1>5, BreakKeepsCopies
<1>6. CASE UNCHANGED <<log, pending, results, breaks>>
    BY <1>6, HandlerKeepsCopies
<1>7. \/ \E r \in Requests, b \in Bodies : RestEvent(r, b)
      \/ \E c \in Clients, m \in Messages, b \in Bodies : WsEvent(c, m, b)
      \/ Execute \/ Settle \/ ExecuteFails \/ ReconnectFails \/ Break
      \/ UNCHANGED <<log, pending, results, breaks>>
    BY DEF Next, vars, gateway, redis, WsConnect, Hangup, Refill, Reconnect, Sigterm, Exit
<1> QED BY <1>1, <1>2, <1>3, <1>4, <1>5, <1>6, <1>7

-----------------------------------------------------------------------------
\* The composition runs the gateway as Ingest specifies it: with a reader on the
\* same stream it takes no step it could not take alone.
THEOREM GatewayRuns == P_Spec => Spec
<1>1. P_Init => Init
    BY DEF P_Init
<1>2. P_Next => [Next]_vars
    BY DEF P_Next, Next, Accept, Acknowledge, Refuse, LinkBreaks, LinkReturns, Store, Read, TimeOut,
           Deliver, Catch, Resume, ReaderBreaks, ReaderReturns, StreamLost, Visit, ingest, vars,
           gateway, redis
<1>3. UNCHANGED pipeline => UNCHANGED vars
    BY DEF pipeline, ingest, vars, gateway, redis
<1>4. [P_Next]_pipeline => [Next]_vars
    BY <1>2, <1>3
<1> QED BY <1>1, <1>4, PTL DEF P_Spec, Spec

\* The two copies of StreamFanout are the same.
LEMMA SameReader ==
    /\ F!Init => FP!Init
    /\ F!Next => FP!Next
    /\ UNCHANGED F!vars => UNCHANGED FP!vars
<1>1. F!Init => FP!Init
    BY DEF F!Init, FP!Init, F!Latest, FP!Latest
<1>2. ASSUME NEW kind, F!Add(kind)
      PROVE  FP!Add(kind)
    BY <1>2 DEF F!Add, FP!Add, F!beat, FP!beat
<1>3. F!Serve => FP!Serve
    BY DEF F!Serve, FP!Serve, F!Latest, FP!Latest, F!stream, FP!stream, F!beat, FP!beat,
           F!Ascending, FP!Ascending, F!Place, FP!Place, F!UpTo, FP!UpTo,
           F!Cardinality, FP!Cardinality
<1>4. F!Handle => FP!Handle
    BY DEF F!Handle, FP!Handle, F!Last, FP!Last, F!stream, FP!stream, F!beat, FP!beat,
           F!broadcast, FP!broadcast, F!Payloads, FP!Payloads, F!Picked, FP!Picked,
           F!Ascending, FP!Ascending, F!Place, FP!Place, F!UpTo, FP!UpTo,
           F!Cardinality, FP!Cardinality
<1>5. /\ F!Lose => FP!Lose
      /\ F!BlockTimeout => FP!BlockTimeout
      /\ F!ReadFails => FP!ReadFails
      /\ F!Retry => FP!Retry
      /\ F!Break => FP!Break
      /\ F!Reconnect => FP!Reconnect
    BY DEF F!Lose, FP!Lose, F!BlockTimeout, FP!BlockTimeout, F!ReadFails, FP!ReadFails,
           F!Retry, FP!Retry, F!Break, FP!Break, F!Reconnect, FP!Reconnect,
           F!stream, FP!stream, F!reader, FP!reader, F!beat, FP!beat
<1>6. ASSUME NEW d \in Dashboards
      PROVE  /\ F!Connect(d) => FP!Connect(d)
             /\ F!Disconnect(d) => FP!Disconnect(d)
             /\ F!Heartbeat(d) => FP!Heartbeat(d)
             /\ F!Pong(d) => FP!Pong(d)
    BY DEF F!Connect, FP!Connect, F!Disconnect, FP!Disconnect, F!Heartbeat, FP!Heartbeat,
           F!Pong, FP!Pong, F!Handshake, FP!Handshake,
           F!stream, FP!stream, F!reader, FP!reader, F!beat, FP!beat
<1>7. F!Next => FP!Next
    <2>1. CASE \E kind \in {"event", "foreign"} : F!Add(kind)
        BY <1>2, <2>1 DEF FP!Next
    <2>2. CASE F!Lose \/ F!Serve \/ F!BlockTimeout \/ F!Handle \/ F!ReadFails \/ F!Retry
               \/ F!Break \/ F!Reconnect
        BY <1>3, <1>4, <1>5, <2>2 DEF FP!Next
    <2>3. CASE \E d \in Dashboards : F!Connect(d) \/ F!Disconnect(d) \/ F!Heartbeat(d) \/ F!Pong(d)
        BY <1>6, <2>3 DEF FP!Next
    <2> QED BY <2>1, <2>2, <2>3 DEF F!Next
<1>8. UNCHANGED F!vars => UNCHANGED FP!vars
    BY DEF F!vars, FP!vars
<1> QED BY <1>1, <1>7, <1>8

\* It runs the reader as StreamFanout specifies it, whose stream is the one the
\* gateway's XADDs build.
THEOREM ReaderRuns == P_Spec => F!Spec
<1>1. P_Init => F!Init
    BY DEF P_Init
<1>2. UNCHANGED <<log, fanout>> => UNCHANGED F!vars
    BY DEF fanout, F!vars
<1>3. Accept \/ Acknowledge \/ Refuse \/ LinkBreaks \/ LinkReturns => UNCHANGED <<log, fanout>>
    BY DEF Accept, Acknowledge, Refuse, LinkBreaks, LinkReturns, WsConnect, WsEvent, Settle,
           ExecuteFails, Break, Reconnect, ReconnectFails, redis
<1>4. Store => F!Next
    BY DEF Store, F!Next
<1>5. Read \/ TimeOut \/ Deliver \/ Catch \/ Resume \/ ReaderBreaks \/ ReaderReturns \/ StreamLost
         \/ Visit => F!Next
    BY DEF Read, TimeOut, Deliver, Catch, Resume, ReaderBreaks, ReaderReturns, StreamLost, Visit,
           F!Next
<1>6. UNCHANGED pipeline => UNCHANGED <<log, fanout>>
    BY DEF pipeline, ingest, redis
<1>7. [P_Next]_pipeline => [F!Next]_(F!vars)
    BY <1>2, <1>3, <1>4, <1>5, <1>6 DEF P_Next
<1> QED BY <1>1, <1>7, PTL DEF P_Spec, F!Spec

\* What both components keep, and the two facts about calls.
LEMMA PipelineInvariance == P_Spec => [](IInv /\ InboxOnce /\ CopiesInv /\ FP!IInv)
<1>1. P_Spec => []IInv
    BY GatewayRuns, Invariance, PTL
<1>2. P_Spec => []FP!IInv
    <2>1. FP!FanoutAssumption
        BY PipelineAssumption DEF FP!FanoutAssumption
    <2>2. FP!Spec => []FP!IInv
        BY <2>1, FP!Invariance
    <2>3. F!Spec => FP!Spec
        <3>1. F!Init => FP!Init
            BY SameReader
        <3>2. [F!Next]_(F!vars) => [FP!Next]_(FP!vars)
            BY SameReader
        <3> QED BY <3>1, <3>2, PTL DEF F!Spec, FP!Spec
    <2> QED BY <2>2, <2>3, ReaderRuns, PTL
<1>3. Init => InboxOnce /\ CopiesInv
    <2>1. ASSUME Init, NEW x \in Calls
          PROVE  Cardinality(Copies(x)) = 0 /\ breaks = 0
        <3>1. Copies(x) = {} /\ breaks = 0
            BY <2>1 DEF Init, Copies
        <3> QED BY <3>1, FS_EmptySet
    <2>2. ASSUME Init
          PROVE  CopiesInv
        BY <2>1, <2>2 DEF CopiesInv
    <2>3. Init => InboxOnce
        BY DEF Init, InboxOnce
    <2> QED BY <2>2, <2>3
<1>4. IInv /\ InboxOnce /\ CopiesInv /\ [Next]_vars => (InboxOnce /\ CopiesInv)'
    BY InboxStep, CopiesStep
<1>5. Spec => [](InboxOnce /\ CopiesInv)
    BY <1>3, <1>4, Invariance, PTL DEF Spec
<1> QED BY <1>1, <1>2, <1>5, GatewayRuns, PTL

\* A dashboard shows acknowledged events in the order their sensor sent them,
\* through every break, resend, refusal and loss on either side.
THEOREM SendOrderIsShown == P_Spec => []ShownInSendOrder
<1>1. ASSUME IInv, InboxOnce, FP!IInv
      PROVE  ShownInSendOrder
    <2>1. SUFFICES ASSUME NEW c \in Clients, NEW i \in DOMAIN inbox[c], NEW j \in DOMAIN inbox[c],
                          NEW d \in Dashboards,
                          NEW p \in 2 .. Len(got[d]), NEW q \in 2 .. Len(got[d]),
                          i < j,
                          AckedAs(c, inbox[c][i], got[d][p]), AckedAs(c, inbox[c][j], got[d][q])
                   PROVE  p < q
        BY DEF ShownInSendOrder
    <2>2. c \in Sockets /\ replies[c] \in Seq(Answer) /\ inbox[c] \in Seq(Calls)
        BY <1>1 DEF IInv, TypeOK, Sockets
    <2>3. PICK k \in DOMAIN replies[c] : replies[c][k] = Reply(inbox[c][i], "ok", got[d][p])
        BY <2>1, <2>2 DEF AckedAs, ToSet
    <2>4. PICK l \in DOMAIN replies[c] : replies[c][l] = Reply(inbox[c][j], "ok", got[d][q])
        BY <2>1, <2>2 DEF AckedAs, ToSet
    <2>5. inbox[c][i] # inbox[c][j] /\ i \in Int /\ j \in Int /\ k \in Int /\ l \in Int
        BY <1>1, <2>1, <2>2 DEF InboxOnce
    <2>6. /\ replies[c][k].call = inbox[c][i] /\ replies[c][k].kind = "ok"
          /\ replies[c][k].id = got[d][p]
          /\ replies[c][l].call = inbox[c][j] /\ replies[c][l].kind = "ok"
          /\ replies[c][l].id = got[d][q]
        BY <2>3, <2>4 DEF Reply
    <2>7. k # l
        BY <2>5, <2>6
    <2>8. ~(l < k)
        <3>1. SUFFICES ASSUME l < k
                       PROVE  FALSE
            OBVIOUS
        <3>2. PICK a \in DOMAIN inbox[c], b \in DOMAIN inbox[c] :
                  a < b /\ inbox[c][a] = inbox[c][j] /\ inbox[c][b] = inbox[c][i]
            BY <1>1, <2>2, <2>6, <3>1 DEF IInv, AcksInOrder
        <3>3. a = j /\ b = i
            BY <1>1, <2>2, <3>2 DEF InboxOnce
        <3> QED BY <2>1, <2>5, <3>2, <3>3
    <2>9. got[d][p] < got[d][q]
        <3>1. k < l
            BY <2>5, <2>7, <2>8
        <3> QED BY <1>1, <2>2, <2>6, <3>1 DEF IInv, AcksInOrder
    <2>10. p \in Int /\ q \in Int
        OBVIOUS
    <2>11. got[d][p] \in Int /\ got[d][q] \in Int
        BY <1>1 DEF FP!IInv, FP!DeliveredInv, FP!TypeOK
    <2>12. q < p => got[d][q] < got[d][p]
        BY <1>1 DEF FP!IInv, FP!OrderInv
    <2> QED BY <2>9, <2>10, <2>11, <2>12
<1> QED BY <1>1, PipelineInvariance, PTL

\* A dashboard is sent a message once, and once more at most for every break of
\* the gateway's connection, however often its reader's connection breaks.
THEOREM CopiesAreFromBreaks == P_Spec => []CopiesFromBreaks
<1>1. ASSUME IInv, CopiesInv, FP!IInv
      PROVE  CopiesFromBreaks
    <2>1. SUFFICES ASSUME NEW d \in Dashboards, NEW m \in Messages
                   PROVE  Cardinality({i \in 2 .. Len(got[d]) : log[got[d][i]] = m}) <= 1 + breaks
        BY DEF CopiesFromBreaks
    <2> DEFINE S == {i \in 2 .. Len(got[d]) : log[got[d][i]] = m}
               f == [i \in S |-> got[d][i]]
    <2>2. /\ Len(got[d]) \in Nat
          /\ \A i \in 2 .. Len(got[d]) : got[d][i] \in DOMAIN log /\ got[d][i] \in Int
        <3>1. Len(got[d]) \in Nat
            BY <1>1 DEF FP!IInv, FP!TypeOK
        <3>2. lastId \in 0 .. Len(log) /\ Len(log) \in Nat /\ DOMAIN log = 1 .. Len(log)
            BY <1>1 DEF FP!IInv, FP!TypeOK, IInv, TypeOK
        <3>3. \A i \in 2 .. Len(got[d]) : got[d][i] \in 1 .. lastId
            BY <1>1 DEF FP!IInv, FP!DeliveredInv
        <3> QED BY <3>1, <3>2, <3>3
    <2>3. S \in SUBSET (1 .. Len(got[d])) /\ S \subseteq Int
        BY <2>2
    <2>4. IsFiniteSet(S) /\ Cardinality(S) \in Nat
        BY <2>2, <2>3, IndicesFinite
    <2>5. f \in Injection(S, Copies(m))
        <3>1. f \in [S -> Copies(m)]
            BY <2>2 DEF Copies
        <3>2. ASSUME NEW i \in S, NEW j \in S, got[d][i] = got[d][j]
              PROVE  i = j
            <4>1. i < j => got[d][i] < got[d][j]
                BY <1>1 DEF FP!IInv, FP!OrderInv
            <4>2. j < i => got[d][j] < got[d][i]
                BY <1>1 DEF FP!IInv, FP!OrderInv
            <4> QED BY <2>2, <2>3, <3>2, <4>1, <4>2
        <3> QED BY <3>1, <3>2, Fun_IsInj
    <2>6. m \in Calls
        BY DEF Calls
    <2>7. IsFiniteSet(Copies(m)) /\ Cardinality(Copies(m)) \in Nat
        BY <1>1, CopiesFinite DEF IInv
    <2>8. Cardinality(Copies(m)) <= 1 + breaks
        BY <1>1, <2>6 DEF CopiesInv
    <2>9. breaks \in Nat
        BY <1>1, IngestAssumption DEF IInv, TypeOK
    <2>10. Cardinality(S) <= Cardinality(Copies(m))
        BY <2>4, <2>5, <2>7, FS_Injection
    <2> HIDE DEF S, f
    <2>11. Cardinality(S) <= 1 + breaks
        BY <2>4, <2>7, <2>8, <2>9, <2>10
    <2> QED BY <2>11 DEF S
<1> QED BY <1>1, PipelineInvariance, PTL
=============================================================================

----------------------------- MODULE ThreatFeed -----------------------------
(***************************************************************************)
(* What a dashboard may rely on, with no Redis connection, no XREAD and no  *)
(* retry: one position moves over the log, and every open feed gets every   *)
(* event the position passes, in log order, except entries that Redis has   *)
(* dropped.  The position is unset until the first delivery, which may      *)
(* start anywhere.                                                          *)
(***************************************************************************)
EXTENDS Integers, Sequences, Subsequences

CONSTANTS Dashboards

VARIABLES
    log,    \* kinds of the stream's entries; their ids are 1, 2, ...
    gone,   \* ids Redis has dropped
    pos,    \* the last id passed, 0 before the first delivery
    conn,   \* each dashboard's connection
    got     \* what each dashboard received: 0 is the handshake, else an id

feed_vars == <<log, gone, pos, conn, got>>

Handshake == 0

F_Init ==
    /\ log = <<>> /\ gone = {} /\ pos = 0
    /\ conn = [d \in Dashboards |-> "idle"]
    /\ got = [d \in Dashboards |-> <<>>]

F_Add ==
    /\ \E kind \in {"event", "foreign"} : log' = Append(log, kind)
    /\ UNCHANGED <<gone, pos, conn, got>>

F_Lose ==
    /\ gone' \in SUBSET DOMAIN log
    /\ gone \subseteq gone'
    /\ UNCHANGED <<log, pos, conn, got>>

\* The position passes the entries from first to last; what is left out was
\* dropped or is no event.
F_Deliver ==
    \E first \in DOMAIN log, last \in DOMAIN log :
    \E ids \in SUBSET (first .. last) :
        /\ pos # 0 => first = pos + 1
        /\ first <= last
        /\ \A i \in first .. last :
              \/ i \in ids /\ log[i] = "event"
              \/ i \notin ids /\ (i \in gone \/ log[i] = "foreign")
        /\ pos' = last
        /\ got' = [d \in Dashboards |->
                      IF conn[d] = "open" THEN got[d] \o Ascending(ids) ELSE got[d]]
        /\ UNCHANGED <<log, gone, conn>>

F_Join(d) ==
    /\ conn[d] = "idle"
    /\ conn' = [conn EXCEPT ![d] = "open"]
    /\ got' = [got EXCEPT ![d] = <<Handshake>>]
    /\ UNCHANGED <<log, gone, pos>>

F_Leave(d) ==
    /\ conn[d] = "open"
    /\ conn' = [conn EXCEPT ![d] = "closed"]
    /\ UNCHANGED <<log, gone, pos, got>>

F_Next ==
    \/ F_Add \/ F_Lose \/ F_Deliver
    \/ \E d \in Dashboards : F_Join(d) \/ F_Leave(d)

F_Spec == F_Init /\ [][F_Next]_feed_vars
=============================================================================

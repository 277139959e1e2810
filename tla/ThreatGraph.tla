---------------------------- MODULE ThreatGraph ----------------------------
(***************************************************************************)
(* apps/dashboard/components/ThreatGraph.tsx: a node per address among the  *)
(* newest events, an edge from it to the node DEFEND, and the mouse on a    *)
(* node's circle.  The circles are made anew with every list, so that a     *)
(* click is the press and release of one that lived as long.  Positions,    *)
(* zoom and the tooltip, which nothing depends on, are left out.            *)
(***************************************************************************)
EXTENDS ThreatEvents

CONSTANT GraphWindow    \* events the graph is built from

\* The gateway takes no event whose address is none or whose severity is another.
ASSUME GraphAssumption ==
    /\ GraphWindow \in Nat \ {0}
    /\ \A kind \in Kinds : /\ kind.source_ip \notin {"", "DEFEND"}
                           /\ kind.severity \in Severities

VARIABLE pressed        \* the circle under a button held down, "" if none

Weight == [low |-> 10, medium |-> 35, high |-> 65, critical |-> 100]

NoEvents == [eventCount |-> 0, threatScore |-> 0]

\* A map with an entry more, or another one in its place.
Put(nodes, id, node) == [i \in DOMAIN nodes \union {id} |-> IF i = id THEN node ELSE nodes[i]]

\* As Counted, the newest weight taking the place of the one before.
CountedLatest(nodes, e) ==
    LET ip == e.kind.source_ip
        old == IF ip \in DOMAIN nodes THEN nodes[ip] ELSE NoEvents
    IN  Put(nodes, ip, [eventCount |-> old.eventCount + 1,
                        threatScore |-> Weight[e.kind.severity]])

\* One round of buildGraph's loop; an edge's connectionCount is the eventCount
\* of its source.
Counted(nodes, e) ==
    LET ip == e.kind.source_ip
        w == Weight[e.kind.severity]
        old == IF ip \in DOMAIN nodes THEN nodes[ip] ELSE NoEvents
    IN  Put(nodes, ip, [eventCount |-> old.eventCount + 1,
                        threatScore |-> IF w > old.threatScore THEN w ELSE old.threatScore])

\* The map after each round, and the node added at the end.
buildGraph(list) ==
    LET window == Newest(list, GraphWindow)
        nodes[i \in 0 .. Len(window)] ==
            IF i = 0 THEN <<>> ELSE Counted(nodes[i - 1], window[i])
    IN  Put(nodes[Len(window)], "DEFEND", NoEvents)

Graph == buildGraph(events)

\* The fill of a circle, by the severity whose colour it is.
fill(node) ==
    CASE node.threatScore >= 80 -> "critical"
      [] node.threatScore \in 50 .. 79 -> "high"
      [] node.threatScore \in 20 .. 49 -> "medium"
      [] OTHER -> "low"

GraphInit == pressed = ""

Press(id) ==
    /\ pressed = "" /\ id \in DOMAIN Graph
    /\ pressed' = id

\* As Rebuild, for circles that are kept and moved to the new list.
RebuildInPlace == UNCHANGED pressed

\* The effect on the nodes removes every circle, the pressed one as well.
Rebuild == pressed' = ""

\* Letting go where the button went down is a click; after a drag there is
\* none.  DEFEND is not selectable.
ClickedIP == IF pressed = "DEFEND" THEN "" ELSE pressed

Release == pressed # "" /\ pressed' = ""
=============================================================================

----------------------------- MODULE Dashboard -----------------------------
(***************************************************************************)
(* apps/dashboard/app/page.tsx with components/StatsSidebar.tsx: the page   *)
(* holds what is selected and gives every view the same list of events.     *)
(* The graph sets the address the feed is filtered by, the globe the event  *)
(* whose detail the sidebar shows.  The arcs of the globe have a module of  *)
(* their own; here it offers every event of the list.                       *)
(***************************************************************************)
EXTENDS EventFeed, ThreatGraph

CONSTANTS
    SidebarWindow,  \* events the severity breakdown counts
    MaxInputs       \* bound on what the operator does

ASSUME DashboardAssumption == SidebarWindow \in Nat \ {0} /\ MaxInputs \in Nat

VARIABLES
    up,             \* the page is rendered; an error in a render takes it away
    activeView, filterIP,
    selectedEvent,  \* the id of the event in the detail, 0 if none
    inputs          \* what the operator did so far

page == <<up, activeView, filterIP, selectedEvent>>
vars == <<events, arrivals, feed, pressed, page, inputs>>

Init ==
    /\ events = <<>> /\ arrivals = 0
    /\ FeedInit /\ GraphInit
    /\ up = TRUE /\ activeView = "globe" /\ filterIP = "" /\ selectedEvent = 0
    /\ inputs = 0

Input == up /\ inputs < MaxInputs /\ inputs' = inputs + 1

-----------------------------------------------------------------------------
\* The store's list grew and the page is rendered with it.
NewEvents(kind) ==
    /\ up
    /\ Arrive(kind)
    /\ Rebuild
    /\ UNCHANGED <<feed, page, inputs>>

Type(text) == Input /\ handleIpChange(text) /\ UNCHANGED <<events, arrivals, pressed, page>>
Toggle(s) == Input /\ toggleSeverity(s) /\ UNCHANGED <<events, arrivals, pressed, page>>
Choose(t) == Input /\ chooseTactic(t) /\ UNCHANGED <<events, arrivals, pressed, page>>
Debounced == up /\ TimerFires /\ UNCHANGED <<events, arrivals, pressed, page, inputs>>

\* setActiveView: the other view is unmounted, its circles with it.
SwitchView ==
    /\ Input
    /\ activeView' = IF activeView = "globe" THEN "graph" ELSE "globe"
    /\ Rebuild
    /\ UNCHANGED <<events, arrivals, feed, up, filterIP, selectedEvent>>

PressNode(id) ==
    /\ Input /\ activeView = "graph"
    /\ Press(id)
    /\ UNCHANGED <<events, arrivals, feed, page>>

\* handleSelectIP, if the release is a click on an address.
ReleaseNode ==
    /\ up
    /\ Release
    /\ \/ UNCHANGED filterIP
       \/ ClickedIP # "" /\ filterIP' = ClickedIP
    /\ UNCHANGED <<events, arrivals, feed, up, activeView, selectedEvent, inputs>>

\* StatsSidebar's detail formats the timestamp with toISOString, which throws
\* for an event without one.
DetailRenders(e) == e.kind.dated

\* No error boundary catches an error of the render.
handleSelectEvent(e) ==
    /\ Input
    /\ selectedEvent' = e.id
    /\ up' = DetailRenders(e)
    /\ UNCHANGED <<events, arrivals, feed, pressed, activeView, filterIP>>

\* What the globe may hand to it, of what it is given (Views says that it does).
SelectEvent(e) == activeView = "globe" /\ handleSelectEvent(e)

\* handleClearFilter, called by the filter's button and by the detail's.
ClearFilter ==
    /\ Input /\ (filterIP # "" \/ selectedEvent # 0)
    /\ filterIP' = "" /\ selectedEvent' = 0
    /\ UNCHANGED <<events, arrivals, feed, pressed, up, activeView>>

Next ==
    \/ \E kind \in Kinds : NewEvents(kind)
    \/ \E text \in Texts : Type(text)
    \/ \E s \in Severities : Toggle(s)
    \/ \E t \in Tactics \union {""} : Choose(t)
    \/ Debounced
    \/ SwitchView \/ (\E id \in DOMAIN Graph : PressNode(id)) \/ ReleaseNode
    \/ (\E e \in ToSet(events) : SelectEvent(e)) \/ ClearFilter

\* Spec with the browser running the timers it was given.
Spec == Init /\ [][Next]_vars /\ WF_vars(Debounced)

-----------------------------------------------------------------------------
\* StatsSidebar: the severity breakdown.
counts(s) ==
    Cardinality({i \in DOMAIN Newest(events, SidebarWindow) : events[i].kind.severity = s})

From(list, ip) == Picked(list, {i \in DOMAIN list : list[i].kind.source_ip = ip})

\* The views agree: a feed filtered by an address that was clicked shows what
\* the node counts, and older events only beyond it, whatever stands in the IP
\* field or is still waiting to; and a feed under one severity shows what the
\* sidebar counts.
CountsAgree ==
    /\ up /\ filterIP \in DOMAIN Graph /\ severityFilter = {} /\ tacticFilter = ""
        => /\ Newest(filtered(filterIP), Graph[filterIP].eventCount)
                  = From(Newest(events, GraphWindow), filterIP)
           /\ ToSet(filtered(filterIP)) \subseteq ToSet(From(events, filterIP))
    /\ \A s \in Severities :
        up /\ filterIP = "" /\ ipQuery = "" /\ severityFilter = {s} /\ tacticFilter = ""
            => LET rows == Len(filtered(""))
               IN  rows >= counts(s) /\ (Len(events) <= SidebarWindow => rows = counts(s))

\* A circle has the colour of the worst severity among the events of its
\* address that the graph was built from: weights and thresholds fit together
\* and no later event makes it milder.
ColourIsWorst ==
    \A ip \in DOMAIN Graph \ {"DEFEND"} :
        LET seen == {e.kind.severity : e \in ToSet(From(Newest(events, GraphWindow), ip))}
            worst == fill(Graph[ip])
        IN  worst \in seen /\ \A s \in seen : Weight[s] <= Weight[worst]

\* What a click on the graph selects is an address of the list, at the moment of
\* the click and not only when the button went down.
SelectionExists ==
    [][filterIP' # filterIP /\ filterIP' # "" => From(events, filterIP') # <<>>]_vars

\* docs/guides/how-it-works.md: "Filter changes are debounced".  The text that
\* reaches the filter is the one in the field: no timer of an earlier keystroke
\* is left to bring back an earlier text.
QueryIsLatest == [][ipQuery' # ipQuery => ipQuery' = input]_vars

\* And it does reach the filter, the empty text too, unless it is typed over.
FeedSettles ==
    \A text \in Texts : (up /\ input = text) ~> (~up \/ input # text \/ ipQuery = text)
=============================================================================

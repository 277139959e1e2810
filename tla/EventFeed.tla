----------------------------- MODULE EventFeed -----------------------------
(***************************************************************************)
(* apps/dashboard/components/EventFeed.tsx: the rows of the event feed and  *)
(* the controls that filter them.  The text of the IP field reaches the     *)
(* filter through a timer; the address the page filters by is a prop and    *)
(* goes before the text.  The rows' layout is left out.                     *)
(***************************************************************************)
EXTENDS ThreatEvents, Subsequences

CONSTANTS
    Texts,      \* what may stand in the IP field; "" is the empty field
    Tactics,    \* the options of the tactic menu but the first
    Includes    \* pairs of a text and an address it is part of

VARIABLES
    severityFilter, \* the severities switched on
    tacticFilter,   \* the option chosen, "" for all
    input,          \* what stands in the IP field
    ipQuery,        \* the text the rows are filtered by
    pending         \* timers that will set ipQuery, the oldest first

feed == <<severityFilter, tacticFilter, input, ipQuery, pending>>

FeedInit ==
    /\ severityFilter = {} /\ tacticFilter = ""
    /\ input = "" /\ ipQuery = "" /\ pending = <<>>

\* As handleIpChange, without the call of clearTimeout.
handleIpChangeKeepsTimers(val) ==
    /\ val # input
    /\ input' = val
    /\ pending' = Append(pending, val)
    /\ UNCHANGED <<severityFilter, tacticFilter, ipQuery>>

\* A keystroke takes the place of the one before that was still waiting.
handleIpChange(val) ==
    /\ val # input
    /\ input' = val
    /\ pending' = <<val>>
    /\ UNCHANGED <<severityFilter, tacticFilter, ipQuery>>

\* As TimerFires, taking no notice of a field that was emptied.
TimerFiresUnlessEmpty ==
    /\ pending # <<>>
    /\ ipQuery' = IF Head(pending) = "" THEN ipQuery ELSE Head(pending)
    /\ pending' = Tail(pending)
    /\ UNCHANGED <<severityFilter, tacticFilter, input>>

TimerFires ==
    /\ pending # <<>>
    /\ ipQuery' = Head(pending)
    /\ pending' = Tail(pending)
    /\ UNCHANGED <<severityFilter, tacticFilter, input>>

toggleSeverity(s) ==
    /\ severityFilter' = SymDiff(severityFilter, {s})
    /\ UNCHANGED <<tacticFilter, input, ipQuery, pending>>

chooseTactic(t) ==
    /\ t # tacticFilter
    /\ tacticFilter' = t
    /\ UNCHANGED <<severityFilter, input, ipQuery, pending>>

\* As OfAddress, with the text and the page's address both applied.
OfAddressAndText(ip, filterIP) ==
    /\ filterIP = "" \/ ip = filterIP
    /\ ipQuery = "" \/ <<ipQuery, ip>> \in Includes

\* The address filter: the page's address, or else the text.
OfAddress(ip, filterIP) ==
    \/ filterIP # "" /\ ip = filterIP
    \/ filterIP = "" /\ (ipQuery = "" \/ <<ipQuery, ip>> \in Includes)

\* The rows, newest first; filterIP "" is the page's undefined.
filtered(filterIP) ==
    LET Shown(e) ==
            /\ OfAddress(e.kind.source_ip, filterIP)
            /\ severityFilter = {} \/ e.kind.severity \in severityFilter
            /\ tacticFilter = "" \/ e.kind.mitre_tactic = tacticFilter
    IN  Picked(events, {i \in DOMAIN events : Shown(events[i])})
=============================================================================

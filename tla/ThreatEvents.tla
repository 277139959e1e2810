---------------------------- MODULE ThreatEvents ----------------------------
(***************************************************************************)
(* The list of events the views of the dashboard are given as a prop: the   *)
(* store's list (apps/dashboard/hooks/useEventStream.ts), newest first and  *)
(* capped.  An event is what lib/types.ts says, reduced to the fields the   *)
(* views decide on; id stands for the identity of the object.               *)
(***************************************************************************)
EXTENDS Integers, Sequences, SequencesExt, FiniteSets

CONSTANTS
    Kinds,      \* [source_ip, severity, mitre_tactic, dated]: what may arrive
    MaxEvents,  \* MAX_EVENTS
    MaxArrivals \* bound on the events that arrive

ASSUME EventsAssumption == MaxEvents \in Nat \ {0} /\ MaxArrivals \in Nat

VARIABLES
    events,     \* the prop of the views
    arrivals    \* history: how many events have come

Severities == {"low", "medium", "high", "critical"}

Newest(s, n) == SubSeq(s, 1, IF Len(s) < n THEN Len(s) ELSE n)

\* push() as far as the views see it: the next render gets the longer list.
Arrive(kind) ==
    /\ arrivals < MaxArrivals
    /\ arrivals' = arrivals + 1
    /\ events' = Newest(<<[id |-> arrivals + 1, kind |-> kind]>> \o events, MaxEvents)
=============================================================================

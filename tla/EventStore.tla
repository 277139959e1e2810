----------------------------- MODULE EventStore -----------------------------
(***************************************************************************)
(* createStore() of apps/dashboard/hooks/useEventStream.ts: push() puts an  *)
(* event in front of the list and recomputes the statistics, which stay as  *)
(* they are until the next push.  Two clocks meet here: the browser's       *)
(* Date.now(), in seconds, and the timestamps the senders wrote into their  *)
(* events, if they did.                                                     *)
(***************************************************************************)
EXTENDS Integers, Sequences, SequencesExt, FiniteSets

CONSTANTS
    Countries,    \* what geoForIP may say of an address
    MaxEvents,    \* MAX_EVENTS
    RateWindow,   \* seconds of the rolling rate
    ActiveWindow, \* seconds an event counts as active
    Ranked,       \* how many events topCountry is taken from
    Horizon,      \* bound on Date.now()
    MaxPushes,    \* bound on the events received
    Corrections   \* bound on how often Date.now() is set back

ASSUME StoreAssumption ==
    /\ MaxEvents \in Nat \ {0} /\ RateWindow \in Nat \ {0} /\ ActiveWindow \in Nat
    /\ Ranked \in Nat \ {0} /\ Horizon \in Nat /\ MaxPushes \in Nat /\ Corrections \in Nat

VARIABLES
    now,              \* Date.now()
    events,           \* the list, newest first
    recentTimestamps, \* when the pushes of the rolling window came
    eventsPerSec, activeThreats, topCountry,
    pushed,           \* history: when each event came, oldest first
    corrected,        \* history: how often the clock was set back
    since             \* history: the pushes before it was last set back

stats == <<eventsPerSec, activeThreats, topCountry>>
vars == <<now, events, recentTimestamps, stats, pushed, corrected, since>>

Absent == -1        \* no timestamp: undefined, which no comparison passes
Unknown == "-"      \* topCountry before the first event

Event == [severe : BOOLEAN, timestamp : 0 .. Horizon \cup {Absent}, country : Countries]

Init ==
    /\ now = 0
    /\ events = <<>>
    /\ recentTimestamps = <<>>
    /\ eventsPerSec = 0 /\ activeThreats = 0 /\ topCountry = Unknown
    /\ pushed = <<>>
    /\ corrected = 0 /\ since = 0

-----------------------------------------------------------------------------
Newest(s, n) == SubSeq(s, 1, IF Len(s) < n THEN Len(s) ELSE n)

\* Math.round(n / 5): halves go up.
Rounded(n) == (2 * n + RateWindow) \div (2 * RateWindow)

\* As Rolled, with <= for <: the stamps at the cutoff go as well.
RolledTooFar(stamps, t) == SelectSeq(stamps, LAMBDA x : x > t - RateWindow)

\* The stamps left when the leading ones before the cutoff are removed.  One
\* that is not old keeps those behind it.
Rolled(stamps, t) ==
    LET old == {i \in 0 .. Len(stamps) : \A j \in 1 .. i : stamps[j] < t - RateWindow}
    IN  SubSeq(stamps, 1 + CHOOSE i \in old : \A j \in old : j <= i, Len(stamps))

\* Severe events whose timestamp lies in the last ActiveWindow seconds before
\* t, or in the future.
Active(list, t) ==
    Cardinality({i \in DOMAIN list :
                    list[i].severe /\ list[i].timestamp # Absent
                                   /\ list[i].timestamp >= t - ActiveWindow})

\* The country met most often; on a tie the one met first (sort is stable and
\* keys keep their order).
Top(list) ==
    LET met(c) == {i \in DOMAIN list : list[i].country = c}
        best == {i \in DOMAIN list : \A j \in DOMAIN list :
                    Cardinality(met(list[j].country)) <= Cardinality(met(list[i].country))}
    IN  list[CHOOSE i \in best : \A j \in best : i <= j].country

\* As push, without the slice.
pushUncapped(e) ==
    /\ Len(pushed) < MaxPushes
    /\ events' = <<e>> \o events
    /\ recentTimestamps' = Rolled(Append(recentTimestamps, now), now)
    /\ eventsPerSec' = Rounded(Len(recentTimestamps'))
    /\ activeThreats' = Active(events', now)
    /\ topCountry' = Top(Newest(events', Ranked))
    /\ pushed' = Append(pushed, now)
    /\ UNCHANGED <<now, corrected, since>>

\* As push, counting active threats before the event is in the list.
pushCountsFirst(e) ==
    /\ Len(pushed) < MaxPushes
    /\ events' = Newest(<<e>> \o events, MaxEvents)
    /\ recentTimestamps' = Rolled(Append(recentTimestamps, now), now)
    /\ eventsPerSec' = Rounded(Len(recentTimestamps'))
    /\ activeThreats' = Active(events, now)
    /\ topCountry' = Top(Newest(events', Ranked))
    /\ pushed' = Append(pushed, now)
    /\ UNCHANGED <<now, corrected, since>>

\* push(event).
push(e) ==
    /\ Len(pushed) < MaxPushes
    /\ events' = Newest(<<e>> \o events, MaxEvents)
    /\ recentTimestamps' = Rolled(Append(recentTimestamps, now), now)
    /\ eventsPerSec' = Rounded(Len(recentTimestamps'))
    /\ activeThreats' = Active(events', now)
    /\ topCountry' = Top(Newest(events', Ranked))
    /\ pushed' = Append(pushed, now)
    /\ UNCHANGED <<now, corrected, since>>

Tick ==
    /\ now < Horizon
    /\ now' = now + 1
    /\ UNCHANGED <<events, recentTimestamps, stats, pushed, corrected, since>>

\* The browser's clock is set back.
SetBack(t) ==
    /\ corrected < Corrections
    /\ t < now
    /\ now' = t
    /\ corrected' = corrected + 1
    /\ since' = Len(pushed)
    /\ UNCHANGED <<events, recentTimestamps, stats, pushed>>

Next ==
    \/ \E e \in Event : push(e)
    \/ Tick
    \/ \E t \in 0 .. Horizon : SetBack(t)

Spec == Init /\ [][Next]_vars

-----------------------------------------------------------------------------
\* Every variable has its type; the list and the stamps are bounded.
TypeOK ==
    /\ now \in 0 .. Horizon
    /\ events \in Seq(Event) /\ Len(events) <= MaxEvents
    /\ recentTimestamps \in Seq(0 .. Horizon) /\ Len(recentTimestamps) <= Len(pushed)
    /\ eventsPerSec \in Nat /\ activeThreats \in 0 .. MaxEvents
    /\ topCountry \in Countries \cup {Unknown}
    /\ pushed \in Seq(0 .. Horizon)
    /\ corrected \in 0 .. Corrections /\ since \in 0 .. Len(pushed)

\* The rate was right when it was taken: it counts every push of the window
\* that ended with the last one, those from before the clock was set back
\* aside, and if it never was, no other.  Removing stamps only from the front
\* never loses one that still counts.
RateCoversWindow ==
    LET counted == {i \in since + 1 .. Len(pushed) : pushed[i] >= Last(pushed) - RateWindow}
    IN  /\ eventsPerSec >= Rounded(Cardinality(counted))
        /\ corrected = 0 => eventsPerSec = Rounded(Cardinality(counted))

\* Of the events in the list that say when they happened, the active threats are
\* never too few, and too many only by those whose 60 s have ended since the last
\* push: while the browser's clock was not set back the number only ages.  An
\* event without a timestamp is on neither side.  The documents give it the
\* server's time (README.md:635), schema.ts gives it none, and the sidebar leaves
\* it out however recent it is.
ActiveOnlyAges ==
    LET recent(t) == {i \in DOMAIN events :
                         /\ events[i].severe
                         /\ events[i].timestamp # Absent
                         /\ events[i].timestamp >= t - ActiveWindow}
    IN  /\ corrected = 0 => activeThreats >= Cardinality(recent(now))
        /\ pushed # <<>> => activeThreats <= Cardinality(recent(Last(pushed)))
=============================================================================

----------------------------- MODULE StoreHook -----------------------------
(***************************************************************************)
(* The two useSyncExternalStore calls at the end of                         *)
(* apps/dashboard/hooks/useEventStream.ts.  React renders, commits, and     *)
(* then compares by identity what each getter returns with what the render  *)
(* took from it; if that changed it renders again, at once, and gives up    *)
(* after NestedLimit times in a row.  React's part is external.             *)
(***************************************************************************)
EXTENDS Naturals

CONSTANTS
    MaxPushes,      \* bound on the calls of push
    NestedLimit     \* React's NESTED_UPDATE_LIMIT

VARIABLES
    version,    \* the list's identity: push makes a new array each time
    shown,      \* the list the page was last rendered with
    stats,      \* the stats it was rendered with
    phase,      \* "render" | "effects" | "idle": what React does next
    nested,     \* renders in a row that a check asked for
    up          \* the page is there

vars == <<version, shown, stats, phase, nested, up>>

\* An object made by the call that returns it is identical to no other.
NewObject == 0
Is(a, b) == a = b /\ a # NewObject

getSnapshot == version
getStats == NewObject

Init ==
    /\ version = 1 /\ shown = 0 /\ stats = NewObject
    /\ phase = "render" /\ nested = 0 /\ up = TRUE

\* push and notify.  React does not yield to a message between nested renders.
push ==
    /\ version <= MaxPushes
    /\ up /\ nested = 0
    /\ version' = version + 1
    /\ phase' = IF phase = "idle" THEN "render" ELSE phase
    /\ UNCHANGED <<shown, stats, nested, up>>

useEventStream ==
    /\ up /\ phase = "render"
    /\ shown' = getSnapshot /\ stats' = getStats
    /\ phase' = "effects"
    /\ UNCHANGED <<version, nested, up>>

\* The checks after the commit: both stores are as they were rendered.
Settled ==
    /\ up /\ phase = "effects"
    /\ Is(getSnapshot, shown) /\ Is(getStats, stats)
    /\ phase' = "idle" /\ nested' = 0
    /\ UNCHANGED <<version, shown, stats, up>>

\* One of them is not: React renders again, or throws, which ends the page.
Changed ==
    /\ up /\ phase = "effects"
    /\ ~Is(getSnapshot, shown) \/ ~Is(getStats, stats)
    /\ IF nested < NestedLimit
       THEN phase' = "render" /\ nested' = nested + 1 /\ UNCHANGED up
       ELSE up' = FALSE /\ UNCHANGED <<phase, nested>>
    /\ UNCHANGED <<version, shown, stats>>

Next == push \/ useEventStream \/ Settled \/ Changed

Spec == Init /\ [][Next]_vars /\ WF_vars(useEventStream) /\ WF_vars(Settled \/ Changed)

\* docs/guides/how-it-works.md:270: "When the store updates, React re-renders all
\* subscribers efficiently."  The page comes to rest with the store's list.
DocumentedRerender == (shown # version) ~> (phase = "idle" /\ shown = version)
=============================================================================

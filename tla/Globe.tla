------------------------------- MODULE Globe -------------------------------
(***************************************************************************)
(* apps/dashboard/components/Globe.tsx: an arc per event, advanced and      *)
(* packed into one InstancedMesh by every animation frame, and a click that *)
(* finds an arc back from the index of an instance.  The effect that        *)
(* rebuilds the arcs, the frames and the mouse are callbacks of their own;  *)
(* they meet in arcsRef and in the instances of the last frame.  Camera,    *)
(* scene and positions are left out: an instance is the point of an arc.    *)
(***************************************************************************)
EXTENDS ThreatEvents

CONSTANTS
    MaxArcs,    \* MAX_ARCS
    Segments,   \* ARC_SEGMENTS; an arc has one point more
    Trail,      \* particles behind the head of an arc
    Full,       \* progress 1, in units of the model
    Speeds,     \* what an arc may gain in a frame (0.008 and a random part)
    MaxMounts,  \* bound on the mounts
    MaxMouse    \* bound on the mouse events

ASSUME GlobeAssumption ==
    /\ {MaxArcs, Segments, Trail, Full} \subseteq Nat \ {0}
    /\ Trail + 1 <= Segments
    /\ Speeds \subseteq Nat \ {0}
    /\ MaxMounts \in Nat /\ MaxMouse \in Nat

VARIABLES
    mounts,     \* how often the globe was put on the page
    mounted,    \* is it there, with its frames and listeners
    arcs,       \* arcsRef.current: newest event first
    drawn,      \* instances of the last frame: the arc's event and a point
    dragging,   \* isDragging.current
    tilt,       \* rotation.current.x, in quarter turns of the model
    clicked,    \* history: the event under the last click that hit, and the
                \* one handed to onSelectEvent
    mouse       \* mouse events so far

view == <<mounts, mounted>>
hand == <<dragging, tilt, clicked, mouse>>
G_vars == <<events, arrivals, view, arcs, drawn, hand>>

NoClick == [hit |-> 0, selected |-> 0]

G_Init ==
    /\ events = <<>> /\ arrivals = 0
    /\ mounts = 0 /\ mounted = FALSE
    /\ arcs = <<>> /\ drawn = <<>>
    /\ dragging = FALSE /\ tilt = 0
    /\ clicked = NoClick /\ mouse = 0

-----------------------------------------------------------------------------
\* buildArc: every arc starts at progress 0 with a speed of its own.
buildArc(e, speed) == [event |-> e, progress |-> 0, speed |-> speed]

\* What the effect on [events] makes of a list: an arc per newest event.
Synced(list) ==
    {[i \in DOMAIN Newest(list, MaxArcs) |-> buildArc(list[i], speed[i])] :
        speed \in [1 .. MaxArcs -> Speeds]}

\* An arc after one more frame.
Advanced(arc) ==
    [arc EXCEPT !.progress = IF @ + arc.speed < Full THEN @ + arc.speed ELSE Full]

HeadPoint(arc) == (arc.progress * Segments) \div Full

\* As Trailing, without the tail following the head.
TrailingAll(arc) ==
    [i \in 1 .. HeadPoint(arc) + 1 |-> [id |-> arc.event.id, point |-> i - 1]]

\* The particles of an arc: its head and the points behind it, tail first.
Trailing(arc) ==
    LET tail == IF HeadPoint(arc) < Trail THEN 0 ELSE HeadPoint(arc) - Trail
    IN  [i \in 1 .. HeadPoint(arc) - tail + 1 |-> [id |-> arc.event.id, point |-> tail + i - 1]]

\* The loop over the arcs fills the instances as long as there are any.
Filled(list) ==
    LET filled[a \in 0 .. Len(list)] ==
            IF a = 0 THEN <<>>
            ELSE Newest(filled[a - 1] \o Trailing(list[a]), MaxArcs * Segments)
    IN  filled[Len(list)]

\* As animate, building the arcs anew before they advance.
animateRebuilt(list) ==
    /\ arcs' = [i \in DOMAIN list |-> Advanced([list[i] EXCEPT !.progress = 0])]
    /\ drawn' = Filled(arcs')

\* animate: every arc advances, and then its particles are where it is.
animate(list) ==
    /\ arcs' = [i \in DOMAIN list |-> Advanced(list[i])]
    /\ drawn' = Filled(arcs')

\* The two effects of a mount: the arcs, then the scene with its first frame.
Mount ==
    /\ ~mounted /\ mounts < MaxMounts
    /\ mounted' = TRUE
    /\ mounts' = mounts + 1
    /\ \E built \in Synced(events) : animate(built)
    /\ dragging' = FALSE /\ tilt' = 0
    /\ UNCHANGED <<events, arrivals, clicked, mouse>>

\* The cleanup: the frame is cancelled, the listeners and the canvas go.
Unmount ==
    /\ mounted
    /\ mounted' = FALSE
    /\ arcs' = <<>> /\ drawn' = <<>>
    /\ UNCHANGED <<events, arrivals, mounts, hand>>

\* A new list is rendered; its arcs are seen from the next frame on.
G_NewEvents(kind) ==
    /\ Arrive(kind)
    /\ IF mounted THEN arcs' \in Synced(events') ELSE UNCHANGED arcs
    /\ UNCHANGED <<view, drawn, hand>>

Frame ==
    /\ mounted
    /\ animate(arcs)
    /\ UNCHANGED <<events, arrivals, view, hand>>

-----------------------------------------------------------------------------
Moved == mounted /\ mouse < MaxMouse /\ mouse' = mouse + 1

MouseDown ==
    /\ Moved /\ ~dragging
    /\ dragging' = TRUE
    /\ UNCHANGED <<events, arrivals, view, arcs, drawn, tilt, clicked>>

\* onMouseMove: the tilt ends at the poles.
MouseMove(dy) ==
    /\ Moved /\ dragging
    /\ tilt' = IF tilt + dy \in -1 .. 1 THEN tilt + dy ELSE tilt
    /\ UNCHANGED <<events, arrivals, view, arcs, drawn, dragging, clicked>>

\* As ArcIndex, rounding up.
ArcIndexUp(instance) == (instance + Segments - 1) \div Segments

\* The arc an instance is taken to belong to.
ArcIndex(instance) == instance \div Segments

\* handleClick: the browser sends it after any press and release on the canvas,
\* a drag included.  The ray may meet any instance of the last frame, or none.
Click(instance) ==
    LET i == ArcIndex(instance)
    IN  IF i < Len(arcs)
        THEN clicked' = [hit |-> drawn[instance + 1].id, selected |-> arcs[i + 1].event.id]
        ELSE clicked' = [hit |-> drawn[instance + 1].id, selected |-> 0]

\* onMouseUp, over nothing or away from the canvas ...
MouseUp ==
    /\ Moved /\ dragging
    /\ dragging' = FALSE
    /\ UNCHANGED <<events, arrivals, view, arcs, drawn, tilt, clicked>>

\* ... or over an instance.
MouseUpOn(instance) ==
    /\ Moved /\ dragging
    /\ dragging' = FALSE
    /\ Click(instance)
    /\ UNCHANGED <<events, arrivals, view, arcs, drawn, tilt>>

G_Next ==
    \/ Mount \/ Unmount
    \/ \E kind \in Kinds : G_NewEvents(kind)
    \/ Frame
    \/ MouseDown \/ (\E dy \in {-1, 1} : MouseMove(dy)) \/ MouseUp
    \/ \E instance \in 0 .. Len(drawn) - 1 : MouseUpOn(instance)

G_Spec == G_Init /\ [][G_Next]_G_vars

-----------------------------------------------------------------------------
\* The instances are as many as the arcs need: no arc is missing from a frame
\* or cut by the MAX_ARCS * ARC_SEGMENTS of the mesh, however far the arcs are.
FullyDrawn ==
    LET Points(a) == {drawn[i].point : i \in {j \in DOMAIN drawn : drawn[j].id = a.event.id}}
    IN  mounted /\ (\E i \in DOMAIN drawn : drawn[i].id = arcs[1].event.id)
            => \A a \in ToSet(arcs) : HeadPoint(a) \in Points(a)

\* A click that hits an arc selects an event, and never an older one than the
\* one hit, whatever arrived between the frame that was clicked and the click
\* and although an arc has fewer particles than the index is divided by.
ClickNeverOlder == clicked.hit # 0 => clicked.selected >= clicked.hit

\* Events are finite here, and after the last one every arc gets to its end, or
\* the globe goes: again and again there is none on its way.
ArcsComplete == []<>(~mounted \/ \A a \in ToSet(arcs) : a.progress = Full)
=============================================================================

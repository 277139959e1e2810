------------------------------- MODULE Views -------------------------------
(***************************************************************************)
(* apps/dashboard/app/page.tsx with the globe in it: the page (Dashboard)   *)
(* and the globe (Globe) are given the same list, the globe is on the page  *)
(* as long as its view is the active one, and a click on one of its arcs    *)
(* calls the page's handleSelectEvent with the event of that arc.           *)
(***************************************************************************)
EXTENDS Dashboard, Globe

controls == <<feed, pressed, page, inputs>>
globe == <<mounts, mounted, arcs, drawn, dragging, tilt, clicked, mouse>>
views == <<events, arrivals, controls, globe>>

V_Init == Init /\ G_Init

-----------------------------------------------------------------------------
\* One render gives the list to both.
NewList(kind) == NewEvents(kind) /\ G_NewEvents(kind)

\* The code of the globe is there (dynamic), or its view was chosen again.
GlobeAppears ==
    /\ up /\ activeView = "globe"
    /\ Mount
    /\ UNCHANGED controls

\* As ChangeView, with the globe hidden and not unmounted.
ChangeViewHides == SwitchView /\ UNCHANGED globe

\* The other view takes the place of the globe.
ChangeView ==
    /\ SwitchView
    /\ IF mounted THEN Unmount ELSE UNCHANGED globe

\* React takes the whole tree away after an error of the render.
TakenAway ==
    /\ ~up
    /\ Unmount
    /\ UNCHANGED controls

\* A step of the globe that the page does not see: up is FALSE only until the
\* tree is taken away, and no event of the mouse comes in between.
Turn ==
    /\ \/ Frame
       \/ up /\ (MouseDown \/ (\E dy \in {-1, 1} : MouseMove(dy)) \/ MouseUp)
    /\ UNCHANGED controls

\* handleClick calls onSelectEvent, if the index it computed is one of an arc.
PickArc(instance) ==
    /\ up
    /\ MouseUpOn(instance)
    /\ LET i == ArcIndex(instance)
       IN  IF i < Len(arcs) THEN handleSelectEvent(arcs[i + 1].event)
           ELSE UNCHANGED controls

\* A step of the page that the globe does not see.
Control ==
    /\ \/ \E text \in Texts : Type(text)
       \/ \E s \in Severities : Toggle(s)
       \/ \E t \in Tactics \union {""} : Choose(t)
       \/ Debounced
       \/ (\E id \in DOMAIN Graph : PressNode(id)) \/ ReleaseNode
       \/ ClearFilter
    /\ UNCHANGED globe

V_Next ==
    \/ \E kind \in Kinds : NewList(kind)
    \/ GlobeAppears \/ ChangeView \/ TakenAway
    \/ Turn
    \/ \E instance \in 0 .. Len(drawn) - 1 : PickArc(instance)
    \/ Control

V_Spec == V_Init /\ [][V_Next]_views

\* The browser runs the animation frames it was asked for.
V_FairSpec == V_Spec /\ WF_views(Frame /\ UNCHANGED controls)

-----------------------------------------------------------------------------
\* With the globe in it the page does what Dashboard says: an event comes to
\* handleSelectEvent only while the globe is the active view, and it is one of
\* the list at that moment, although arcs and frames lag behind the list.
ImplementsPage == Init /\ [][Next]_vars

\* Every click that hits an arc selects the event that was hit or a newer one, and
\* the detail shows what the last such click selected, over new lists, frames and
\* remounts of the globe.
DetailIsClicked ==
    /\ ClickNeverOlder
    /\ selectedEvent # 0 => clicked.hit # 0 /\ selectedEvent = clicked.selected
=============================================================================

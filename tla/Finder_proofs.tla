---------------------------- MODULE Finder_proofs ----------------------------
(***************************************************************************)
(* Proofs about the node details, the search box and the menus as the page *)
(* composes them, for any hosts, queries and streams and any number of     *)
(* acts.  Outside the details the page only counts acts and asks for hosts *)
(* to be shown later, so each part has an invariant of its own:            *)
(*                                                                         *)
(*   DetailInv      the panel, its fetches and the focus: DetailTypes,     *)
(*                  PanelIsWanted, Looping (what is true while a           *)
(*                  continuation is due), Awaited (a panel without its     *)
(*                  detail has a call of its own)                          *)
(*   SearchInv      serverSearchId and payloadSearchId are those of the    *)
(*                  newest searches, and the popup is of a search          *)
(*   MenuInv        the menus, and what is in the stream window            *)
(*   DetailBounds   how large the counters of the details get              *)
(***************************************************************************)
EXTENDS Finder, FiniteSetTheorems, TLAPS

SightTypes ==
    /\ focus \in Host \cup {None} /\ keep \subseteq Host
    /\ pinned \in BOOLEAN /\ washed \in BOOLEAN

DetailTypes ==
    /\ meta \in [Host -> [loaded : BOOLEAN] \cup {None}]
    /\ births \in [Host -> Nat]
    /\ pending \subseteq Host
    /\ fetches \subseteq [node : Host, whose : {"panel", "tooltip"}]
    /\ panel \in Panel \cup {None}
    /\ {micro, hover} \subseteq Host \cup {None}
    /\ SightTypes

PanelIsWanted == PanelFollowsUser /\ detailsId = want

\* The continuation due is that of the panel's node, whose call somebody else began.
Looping ==
    micro # None => /\ StillOn(micro) /\ micro \in InView /\ micro \in pending
                    /\ ~meta[micro].loaded

\* Of this node, as it came into view.
Current == panel # None /\ panel.node \in InView /\ panel.birth = births[panel.node]

Awaited ==
    /\ (panel # None /\ panel.node \in Host) => panel.birth <= births[panel.node]
    /\ (micro = None /\ Current /\ ~panel.detail) =>
          \E f \in fetches : f.node = panel.node /\ f.whose = "panel"

DetailInv == /\ DetailTypes /\ PanelIsWanted /\ DimmedByFocus /\ PendingIsInFlight
             /\ Looping /\ Awaited /\ DetailReachesPanel

\* All of it but what is dimmed.
unseen == <<pending, fetches, panel, detailsId, micro, hover, want>>
dstate == <<meta, births, unseen, sight>>

-----------------------------------------------------------------------------
USE DetailsAssumption

LEMMA InitDetail == DetailsInit => DetailInv
<1> SUFFICES ASSUME DetailsInit PROVE DetailInv
  OBVIOUS
<1>1. DetailTypes
  <2>1. births \in [Host -> Nat]
    BY DEF DetailsInit
  <2>2. meta \in [Host -> [loaded : BOOLEAN] \cup {None}]
    BY DEF DetailsInit
  <2>3. pending = {} /\ fetches = {} /\ panel = None /\ micro = None /\ hover = None
        /\ focus = None /\ pinned = FALSE /\ keep = {} /\ washed = FALSE
    BY DEF DetailsInit
  <2> QED
    BY <2>1, <2>2, <2>3 DEF DetailTypes, SightTypes
<1>2. PanelIsWanted /\ DimmedByFocus /\ PendingIsInFlight
  BY DEF DetailsInit, PanelIsWanted, PanelFollowsUser, DimmedByFocus, PendingIsInFlight
<1>3. Looping /\ Awaited /\ DetailReachesPanel
  BY DEF DetailsInit, Looping, Awaited, Current, DetailReachesPanel
<1> QED
  BY <1>1, <1>2, <1>3 DEF DetailInv

\* What is drawn of a node is a panel that names it.
LEMMA RenderedPanel ==
    ASSUME DetailTypes, NEW n \in InView
    PROVE  /\ Rendered(n) \in Panel /\ Rendered(n) # None
           /\ Rendered(n).node = n /\ Rendered(n).birth = births[n]
           /\ Rendered(n).detail = meta[n].loaded
           /\ n \in Host /\ meta[n] \in [loaded : BOOLEAN]
  BY DEF DetailTypes, Rendered, Panel, InView

LEMMA FetchForKeeps ==
    ASSUME DetailTypes, PendingIsInFlight, NEW n \in Host, NEW whose \in {"panel", "tooltip"},
           FetchFor(n, whose)
    PROVE  /\ pending' \subseteq Host
           /\ fetches' \subseteq [node : Host, whose : {"panel", "tooltip"}]
           /\ PendingIsInFlight'
           /\ fetches \subseteq fetches' /\ pending \subseteq pending'
           /\ Begins(n) => [node |-> n, whose |-> whose] \in fetches'
<1>1. CASE Begins(n)
  <2>1. /\ pending' = pending \cup {n}
        /\ fetches' = fetches \cup {[node |-> n, whose |-> whose]}
        /\ \A f \in fetches : f.node # n
    BY <1>1 DEF FetchFor, Begins, PendingIsInFlight
  <2>2. pending' = {f.node : f \in fetches'}
    <3>1. \A x : x \in pending <=> \E f \in fetches : f.node = x
      BY DEF PendingIsInFlight
    <3>2. [node |-> n, whose |-> whose].node = n
      OBVIOUS
    <3>3. \A x : x \in pending' <=> \E f \in fetches' : f.node = x
      BY <2>1, <3>1, <3>2
    <3> QED
      BY <3>3
  <2>3. \A f, g \in fetches' : f.node = g.node => f = g
    BY <2>1 DEF PendingIsInFlight
  <2> QED
    BY <2>1, <2>2, <2>3 DEF DetailTypes, PendingIsInFlight
<1>2. CASE ~Begins(n)
  BY <1>2 DEF FetchFor, DetailTypes, PendingIsInFlight
<1> QED
  BY <1>1, <1>2

\* A call that is over leaves the node free to be fetched again.
LEMMA AnsweredKeeps ==
    ASSUME DetailTypes, PendingIsInFlight, NEW f \in fetches, Answered(f)
    PROVE  /\ pending' \subseteq Host
           /\ fetches' \subseteq [node : Host, whose : {"panel", "tooltip"}]
           /\ PendingIsInFlight'
           /\ \A g \in fetches : g.node # f.node => g \in fetches'
<1>1. pending' = pending \ {f.node} /\ fetches' = fetches \ {f}
  BY DEF Answered
<1>2. \A g \in fetches : g.node = f.node => g = f
  BY DEF PendingIsInFlight
<1> QED
  BY <1>1, <1>2 DEF DetailTypes, PendingIsInFlight

\* showNodeDetails.
LEMMA ShowNodeKeeps ==
    ASSUME DetailInv, NEW n \in Host, ShowNode(n), UNCHANGED <<meta, births, hover>>,
           want' = (IF n \in InView THEN n ELSE want),
           micro = None \/ (n = micro /\ n = want)
    PROVE  /\ pending' \subseteq Host
           /\ fetches' \subseteq [node : Host, whose : {"panel", "tooltip"}]
           /\ panel' \in Panel \cup {None} /\ micro' \in Host \cup {None}
           /\ PanelIsWanted' /\ PendingIsInFlight' /\ Looping' /\ Awaited' /\ DetailReachesPanel'
<1> USE DEF DetailInv
<1>0. InView' = InView
  BY DEF InView
<1>1. CASE n \notin InView
  <2>1. micro = None /\ micro' = None /\ UNCHANGED <<panel, detailsId, pending, fetches, want>>
    BY <1>1 DEF ShowNode, Looping
  <2> QED
    BY <1>0, <2>1 DEF DetailTypes, PanelIsWanted, PanelFollowsUser, PendingIsInFlight, Looping,
                      Awaited, Current, DetailReachesPanel
<1>2. CASE n \in InView
  <2>1. /\ detailsId' = n /\ want' = n /\ panel' = Rendered(n)
        /\ panel' \in Panel /\ panel' # None /\ panel'.node = n /\ panel'.birth = births[n]
        /\ panel'.detail = meta[n].loaded
    BY <1>2, RenderedPanel DEF ShowNode
  <2>2. PanelIsWanted' /\ DetailReachesPanel'
    BY <1>0, <2>1 DEF PanelIsWanted, PanelFollowsUser, DetailReachesPanel
  <2>3. panel'.birth <= births'[panel'.node]
    BY <2>1 DEF DetailTypes
  <2>4. CASE meta[n].loaded
    <3>1. micro' = None /\ UNCHANGED <<pending, fetches>>
      BY <1>2, <2>4 DEF ShowNode
    <3> QED
      BY <2>1, <2>2, <2>3, <2>4, <3>1
      DEF DetailTypes, PendingIsInFlight, Looping, Awaited, Current
  <2>5. CASE ~meta[n].loaded
    <3>1. FetchFor(n, "panel") /\ micro' = IF Begins(n) THEN None ELSE n
      BY <1>2, <2>5 DEF ShowNode
    <3>2. /\ pending' \subseteq Host
          /\ fetches' \subseteq [node : Host, whose : {"panel", "tooltip"}]
          /\ PendingIsInFlight' /\ pending \subseteq pending'
          /\ Begins(n) => [node |-> n, whose |-> "panel"] \in fetches'
      BY <3>1, FetchForKeeps
    <3>3. Looping'
      BY <1>0, <1>2, <2>1, <2>5, <3>1, <3>2 DEF Looping, StillOn, Begins
    <3>4. Awaited'
      BY <2>1, <2>3, <3>1, <3>2 DEF Awaited
    <3> QED
      BY <2>1, <2>2, <3>1, <3>2, <3>3, <3>4
  <2> QED
    BY <2>4, <2>5
<1> QED
  BY <1>1, <1>2

\* focusNode and unfocusNode.
LEMMA FocusKeeps ==
    ASSUME NEW n \in Host, NEW pin \in BOOLEAN, DimmedByFocus, SightTypes, InView' = InView,
           Focused(n, pin)
    PROVE  DimmedByFocus' /\ SightTypes'
<1>1. CASE n \in InView
  <2>1. Near(n) \subseteq Host
    BY DEF Near
  <2>2. /\ focus' = n /\ pinned' = pin /\ keep' = {n} \cup Near(n)
        /\ dimmed' = InView \ keep' /\ washed' = FALSE
    BY <1>1 DEF Focused
  <2>3. n # None /\ n \in keep'
    BY <2>2
  <2> QED
    BY <2>1, <2>2, <2>3 DEF DimmedByFocus, SightTypes
<1>2. CASE n \notin InView
  BY <1>2 DEF Focused, sight, DimmedByFocus, SightTypes
<1> QED
  BY <1>1, <1>2

LEMMA UnfocusedKeeps ==
    ASSUME DimmedByFocus, SightTypes, InView' = InView, UNCHANGED sight \/ Unfocused
    PROVE  DimmedByFocus' /\ SightTypes'
<1>1. CASE UNCHANGED sight
  BY <1>1 DEF sight, DimmedByFocus, SightTypes
<1>2. CASE Unfocused
  BY <1>2 DEF DimmedByFocus, Unfocused, SightTypes
<1> QED
  BY <1>1, <1>2

LEMMA ClickKeeps ==
    ASSUME DetailInv, NEW n \in Host, ClickNode(n)
    PROVE  DetailInv'
<1>1. /\ n \in InView /\ micro = None /\ ShowNode(n) /\ want' = n /\ Focused(n, TRUE)
      /\ UNCHANGED <<meta, births, hover>>
  BY DEF ClickNode, AskFor, Act
<1>2. InView' = InView
  BY <1>1 DEF InView
<1>3. DimmedByFocus' /\ SightTypes'
  BY <1>1, <1>2, FocusKeeps DEF DetailInv, DetailTypes
<1> QED
  BY <1>1, <1>3, ShowNodeKeeps DEF DetailInv, DetailTypes

LEMMA LaterKeeps ==
    ASSUME DetailInv, NEW n \in Host, ShowsLater(n)
    PROVE  DetailInv'
<1>1. /\ micro = None /\ ShowNode(n) /\ want' = IF n \in InView THEN n ELSE want
      /\ UNCHANGED <<meta, births, hover, sight>>
  BY DEF ShowsLater, AskFor, Event
<1>2. DimmedByFocus' /\ SightTypes'
  BY <1>1 DEF DetailInv, DetailTypes, DimmedByFocus, SightTypes, sight, InView
<1> QED
  BY <1>1, <1>2, ShowNodeKeeps DEF DetailInv, DetailTypes

LEMMA MicrotaskKeeps ==
    ASSUME DetailInv, Microtask
    PROVE  DetailInv'
<1>1. /\ micro # None /\ StillOn(micro) /\ micro \in InView /\ micro \in Host
      /\ ShowNode(micro) /\ micro = want
      /\ UNCHANGED <<meta, births, hover, sight, want>>
  BY DEF Microtask, DetailInv, Looping, StillOn, PanelIsWanted, DetailTypes
<1>2. DimmedByFocus' /\ SightTypes'
  BY <1>1 DEF DetailInv, DetailTypes, DimmedByFocus, SightTypes, sight, InView
<1> QED
  BY <1>1, <1>2, ShowNodeKeeps DEF DetailInv, DetailTypes

LEMMA HoverKeeps ==
    ASSUME DetailInv, NEW n \in Host, HoverNode(n)
    PROVE  DetailInv'
<1>1. /\ n \in InView /\ micro = None
      /\ IF meta[n].loaded THEN UNCHANGED <<pending, fetches>> ELSE FetchFor(n, "tooltip")
      /\ IF pinned THEN UNCHANGED sight ELSE Focused(n, FALSE)
      /\ UNCHANGED <<meta, births, panel, detailsId, micro, want>> /\ hover' = n
  BY DEF HoverNode, Act
<1>2. InView' = InView
  BY <1>1 DEF InView
<1>3. DimmedByFocus' /\ SightTypes'
  <2>1. CASE pinned
    BY <1>1, <1>2, <2>1 DEF DetailInv, DimmedByFocus, DetailTypes, SightTypes, sight
  <2>2. CASE ~pinned
    BY <1>1, <1>2, <2>2, FocusKeeps DEF DetailInv, DetailTypes
  <2> QED
    BY <2>1, <2>2
<1>4. /\ pending' \subseteq Host /\ fetches \subseteq fetches'
      /\ fetches' \subseteq [node : Host, whose : {"panel", "tooltip"}]
      /\ PendingIsInFlight'
  <2>1. CASE meta[n].loaded
    BY <1>1, <2>1 DEF DetailInv, DetailTypes, PendingIsInFlight
  <2>2. CASE ~meta[n].loaded
    BY <1>1, <2>2, FetchForKeeps DEF DetailInv
  <2> QED
    BY <2>1, <2>2
<1>5. DetailTypes' /\ PanelIsWanted' /\ Looping' /\ DetailReachesPanel'
  BY <1>1, <1>2, <1>3, <1>4
  DEF DetailInv, DetailTypes, PanelIsWanted, PanelFollowsUser, Looping, DetailReachesPanel
<1>6. Awaited'
  BY <1>1, <1>2, <1>4 DEF DetailInv, Awaited, Current
<1> QED
  BY <1>3, <1>4, <1>5, <1>6 DEF DetailInv

\* The panel is closed, or names an edge.
LEMMA ClosedKeeps ==
    ASSUME DetailInv, micro = None, detailsId' = None, want' = None,
           panel' = None \/ panel' = [node |-> None, birth |-> 0, detail |-> FALSE],
           UNCHANGED <<meta, births, pending, fetches, micro, hover>>,
           UNCHANGED sight \/ Unfocused
    PROVE  DetailInv'
<1>1. InView' = InView /\ None \notin InView
  BY DEF InView
<1>2. panel' \in Panel \cup {None} /\ PanelIsWanted'
  <2>1. [node |-> None, birth |-> 0, detail |-> FALSE] \in Panel
    BY DEF Panel
  <2>2. [node |-> None, birth |-> 0, detail |-> FALSE].node = None
    OBVIOUS
  <2>3. CASE panel' = None
    BY <2>3 DEF PanelIsWanted, PanelFollowsUser
  <2>4. CASE panel' = [node |-> None, birth |-> 0, detail |-> FALSE]
    BY <2>1, <2>2, <2>4 DEF PanelIsWanted, PanelFollowsUser
  <2> QED
    BY <2>3, <2>4
<1>3. panel' = None \/ panel'.node = None
  OBVIOUS
<1>4. DimmedByFocus' /\ SightTypes'
  BY <1>1, UnfocusedKeeps DEF DetailInv, DetailTypes
<1> QED
  BY <1>1, <1>2, <1>3, <1>4
  DEF DetailInv, DetailTypes, PendingIsInFlight, Looping, Awaited, Current, DetailReachesPanel

LEMMA BlurKeeps ==
    ASSUME DetailInv, BlurNode
    PROVE  DetailInv'
<1>1. /\ UNCHANGED <<meta, births, pending, fetches, panel, detailsId, micro, want>>
      /\ hover' = None
      /\ UNCHANGED sight \/ Unfocused
  BY DEF BlurNode
<1>2. InView' = InView
  BY <1>1 DEF InView
<1>3. DimmedByFocus' /\ SightTypes'
  BY <1>1, <1>2, UnfocusedKeeps DEF DetailInv, DetailTypes
<1> QED
  BY <1>1, <1>2, <1>3
  DEF DetailInv, DetailTypes, PanelIsWanted, PanelFollowsUser, PendingIsInFlight, Looping,
      StillOn, Awaited, Current, DetailReachesPanel

\* /api/node answers: the meta of a node in view has its detail from now on.
LEMMA ArrivesKeeps ==
    ASSUME DetailInv, NEW f \in fetches, DetailArrives(f)
    PROVE  DetailInv'
<1> DEFINE n == f.node
<1>1. /\ micro = None /\ micro' = None /\ Answered(f) /\ n \in Host
      /\ UNCHANGED <<births, detailsId, hover, sight, want>>
  BY DEF DetailArrives, Event, DetailInv, DetailTypes
<1>2. /\ pending' \subseteq Host
      /\ fetches' \subseteq [node : Host, whose : {"panel", "tooltip"}]
      /\ PendingIsInFlight'
      /\ \A g \in fetches : g.node # n => g \in fetches'
  BY <1>1, AnsweredKeeps DEF DetailInv
<1>3. CASE n \notin InView
  <2>1. UNCHANGED <<meta, panel>> /\ InView' = InView
    BY <1>3 DEF DetailArrives, InView
  <2>2. DetailTypes' /\ PanelIsWanted' /\ DimmedByFocus' /\ Looping' /\ DetailReachesPanel'
    BY <1>1, <1>2, <2>1
    DEF DetailInv, DetailTypes, PanelIsWanted, PanelFollowsUser, DimmedByFocus, SightTypes,
        sight, Looping,
        DetailReachesPanel
  <2>3. Awaited'
    BY <1>1, <1>2, <1>3, <2>1 DEF DetailInv, Awaited, Current
  <2> QED
    BY <1>2, <2>2, <2>3 DEF DetailInv
<1>4. CASE n \in InView
  <2>1. /\ meta' = [meta EXCEPT ![n].loaded = TRUE]
        /\ panel' = IF f.whose = "panel" /\ StillOn(n)
                    THEN [node |-> n, birth |-> births[n], detail |-> TRUE] ELSE panel
    BY <1>4 DEF DetailArrives
  <2>2. /\ meta' \in [Host -> [loaded : BOOLEAN] \cup {None}] /\ meta'[n].loaded
        /\ \A h \in Host : h # n => meta'[h] = meta[h]
        /\ meta[n] \in [loaded : BOOLEAN] /\ meta'[n] \in [loaded : BOOLEAN]
    BY <1>1, <1>4, <2>1 DEF DetailInv, DetailTypes, InView
  <2>3. InView' = InView
    BY <1>1, <1>4, <2>2 DEF InView
  <2>4. CASE f.whose = "panel" /\ StillOn(n)
    <3>1. births[n] \in Nat /\ want = n /\ detailsId = n
      BY <1>1, <2>4 DEF DetailInv, DetailTypes, PanelIsWanted, StillOn
    <3>2. panel' = [node |-> n, birth |-> births[n], detail |-> TRUE]
      BY <2>1, <2>4
    <3>3. panel' \in Panel /\ panel' # None
      <4>1. ASSUME NEW h \in Host, NEW b \in Nat
            PROVE  [node |-> h, birth |-> b, detail |-> TRUE] \in Panel
        BY DEF Panel
      <4> HIDE DEF n
      <4> QED
        BY <1>1, <3>1, <3>2, <4>1
    <3>4. panel'.node = n /\ panel'.birth = births[n] /\ panel'.detail
      BY <3>2
    <3>5. DetailTypes' /\ PanelIsWanted' /\ DimmedByFocus' /\ Looping'
      BY <1>1, <1>2, <2>2, <2>3, <3>1, <3>3, <3>4
      DEF DetailInv, DetailTypes, PanelIsWanted, PanelFollowsUser, DimmedByFocus, SightTypes,
        sight, Looping
    <3>6. Awaited'
      BY <1>1, <3>1, <3>4 DEF Awaited
    <3>7. DetailReachesPanel'
      <4>1. panel'.detail = TRUE /\ meta'[n].loaded = TRUE
        BY <2>2, <3>2
      <4> QED
        BY <3>4, <4>1 DEF DetailReachesPanel
    <3> QED
      BY <1>2, <3>5, <3>6, <3>7 DEF DetailInv
  <2>5. CASE ~(f.whose = "panel" /\ StillOn(n))
    <3>1. panel' = panel
      BY <2>1, <2>5
    <3>2. (Current /\ panel.node = n) => panel.detail
      <4> SUFFICES ASSUME Current, panel.node = n, ~panel.detail PROVE FALSE
        OBVIOUS
      <4>1. PICK g \in fetches : g.node = n /\ g.whose = "panel"
        BY <1>1 DEF DetailInv, Awaited
      <4>2. g = f
        BY <4>1 DEF DetailInv, PendingIsInFlight
      <4>3. StillOn(n)
        BY DEF Current, StillOn, DetailInv, PanelIsWanted, PanelFollowsUser
      <4> QED
        BY <2>5, <4>1, <4>2, <4>3
    <3>3. DetailReachesPanel'
      BY <1>1, <2>2, <2>3, <3>1, <3>2 DEF DetailInv, DetailReachesPanel, Current, InView, Panel, DetailTypes
    <3>4. Awaited'
      BY <1>1, <1>2, <2>3, <3>1, <3>2 DEF DetailInv, Awaited, Current
    <3> QED
      BY <1>1, <1>2, <2>2, <2>3, <3>1, <3>3, <3>4
      DEF DetailInv, DetailTypes, PanelIsWanted, PanelFollowsUser, DimmedByFocus, SightTypes,
        sight, Looping
  <2> QED
    BY <2>4, <2>5
<1> QED
  BY <1>3, <1>4

\* /api/node fails: the panel fetches again if it is still on a bare node.
LEMMA FailsKeeps ==
    ASSUME DetailInv, NEW f \in fetches, DetailFails(f)
    PROVE  DetailInv'
<1> DEFINE n == f.node
           again == f.whose = "panel" /\ StillOn(n) /\ n \in InView /\ ~meta[n].loaded
<1>1. /\ micro = None /\ micro' = None /\ n \in Host
      /\ UNCHANGED <<meta, births, detailsId, hover, sight, want>>
      /\ IF again THEN UNCHANGED <<pending, fetches>> ELSE Answered(f)
      /\ panel' = IF f.whose = "panel" /\ StillOn(n) /\ n \in InView THEN Rendered(n) ELSE panel
  BY DEF DetailFails, Event, DetailInv, DetailTypes
<1>2. /\ pending' \subseteq Host
      /\ fetches' \subseteq [node : Host, whose : {"panel", "tooltip"}]
      /\ PendingIsInFlight'
      /\ \A g \in fetches : (g.node # n \/ again) => g \in fetches'
  <2>1. CASE again
    BY <1>1, <2>1 DEF DetailInv, DetailTypes, PendingIsInFlight
  <2>2. CASE ~again
    BY <1>1, <2>2, AnsweredKeeps DEF DetailInv
  <2> QED
    BY <2>1, <2>2
<1>3. InView' = InView
  BY <1>1 DEF InView
<1>4. CASE f.whose = "panel" /\ StillOn(n) /\ n \in InView
  <2>1. /\ panel' \in Panel /\ panel' # None /\ panel'.node = n /\ panel'.detail = meta[n].loaded
        /\ panel'.birth = births[n] /\ births[n] \in Nat /\ want = n /\ detailsId = n
    BY <1>1, <1>4, RenderedPanel DEF DetailInv, DetailTypes, PanelIsWanted, StillOn
  <2>2. Awaited'
    BY <1>1, <1>2, <1>4, <2>1 DEF Awaited
  <2> QED
    BY <1>1, <1>2, <1>3, <2>1, <2>2
    DEF DetailInv, DetailTypes, PanelIsWanted, PanelFollowsUser, DimmedByFocus, SightTypes,
        sight, Looping,
        DetailReachesPanel
<1>5. CASE ~(f.whose = "panel" /\ StillOn(n) /\ n \in InView)
  <2>1. panel' = panel /\ ~again
    BY <1>1, <1>5
  <2>2. (Current /\ panel.node = n) => panel.detail
    <3> SUFFICES ASSUME Current, panel.node = n, ~panel.detail PROVE FALSE
      OBVIOUS
    <3>1. PICK g \in fetches : g.node = n /\ g.whose = "panel"
      BY <1>1 DEF DetailInv, Awaited
    <3>2. g = f
      BY <3>1 DEF DetailInv, PendingIsInFlight
    <3>3. StillOn(n) /\ n \in InView
      BY DEF Current, StillOn, DetailInv, PanelIsWanted, PanelFollowsUser
    <3> QED
      BY <1>5, <3>1, <3>2, <3>3
  <2>3. Awaited'
    BY <1>1, <1>2, <1>3, <2>1, <2>2 DEF DetailInv, Awaited, Current
  <2> QED
    BY <1>1, <1>2, <1>3, <2>1, <2>3
    DEF DetailInv, DetailTypes, PanelIsWanted, PanelFollowsUser, DimmedByFocus, SightTypes,
        sight, Looping,
        DetailReachesPanel
<1> QED
  BY <1>4, <1>5

-----------------------------------------------------------------------------
(* The view.                                                               *)

\* What is drawn is dimmed again, as the focus was when it was set.
LEMMA ReappliedKeeps ==
    ASSUME DimmedByFocus, SightTypes, Reapplied, UNCHANGED <<focus, pinned, keep>>
    PROVE  DimmedByFocus' /\ SightTypes'
<1>1. {h \in Host : meta'[h] # None} = InView'
  BY DEF InView
<1>2. CASE focus = None
  BY <1>2 DEF Reapplied, DimmedByFocus, SightTypes
<1>3. CASE focus # None
  BY <1>1, <1>3 DEF Reapplied, DimmedByFocus, SightTypes
<1> QED
  BY <1>2, <1>3

LEMMA ComesKeeps ==
    ASSUME DetailInv, NEW n \in Host, NodeComes(n)
    PROVE  DetailInv'
<1>1. /\ micro = None /\ n \notin InView
      /\ births' = [births EXCEPT ![n] = @ + 1]
      /\ meta' = [meta EXCEPT ![n] = [loaded |-> FALSE]]
      /\ Reapplied
      /\ UNCHANGED <<pending, fetches, panel, detailsId, micro, hover, focus, pinned, keep, want>>
  BY DEF NodeComes, Act, NotSight
<1>2. /\ births' \in [Host -> Nat] /\ meta' \in [Host -> [loaded : BOOLEAN] \cup {None}]
      /\ \A h \in Host : h # n => births'[h] = births[h] /\ meta'[h] = meta[h]
      /\ births'[n] = births[n] + 1 /\ births[n] \in Nat
  BY <1>1 DEF DetailInv, DetailTypes
<1>3. InView' = InView \cup {n}
  <2>1. meta'[n] = [loaded |-> FALSE] /\ [loaded |-> FALSE] \in [loaded : BOOLEAN]
    BY <1>1 DEF DetailInv, DetailTypes
  <2>2. meta'[n] # None
    BY <2>1
  <2> QED
    BY <1>2, <2>2 DEF InView
<1>4. DimmedByFocus' /\ SightTypes'
  BY <1>1, ReappliedKeeps DEF DetailInv, DetailTypes
<1>5. (panel # None /\ panel.node = n) => panel.birth # births'[n]
  BY <1>2 DEF DetailInv, Awaited, DetailTypes, Panel
<1>6. Awaited' /\ DetailReachesPanel'
  <2>1. ASSUME panel # None, panel.node \in Host PROVE panel.birth <= births'[panel.node]
    BY <1>2, <2>1 DEF DetailInv, Awaited, DetailTypes, Panel
  <2>2. ASSUME panel # None, panel.node \in InView', panel.birth = births'[panel.node]
        PROVE  /\ Current /\ panel.node # n
               /\ meta'[panel.node] = meta[panel.node]
    BY <1>2, <1>3, <1>5, <2>2 DEF Current, InView
  <2> QED
    BY <1>1, <2>1, <2>2 DEF DetailInv, Awaited, Current, DetailReachesPanel
<1>7. DetailTypes' /\ PanelIsWanted' /\ PendingIsInFlight' /\ Looping'
  BY <1>1, <1>2, <1>4
  DEF DetailInv, DetailTypes, PanelIsWanted, PanelFollowsUser, PendingIsInFlight, Looping
<1> QED
  BY <1>4, <1>6, <1>7 DEF DetailInv

LEMMA GoesKeeps ==
    ASSUME DetailInv, NEW n \in Host, NodeGoes(n)
    PROVE  DetailInv'
<1>1. /\ micro = None
      /\ meta' = [meta EXCEPT ![n] = None] /\ dimmed' = dimmed \ {n} /\ washed' = washed
      /\ UNCHANGED <<births, pending, fetches, panel, detailsId, micro, hover, focus, pinned, keep, want>>
  BY DEF NodeGoes, Act, NotSight
<1>2. /\ meta' \in [Host -> [loaded : BOOLEAN] \cup {None}]
      /\ InView' = InView \ {n}
      /\ \A h \in InView' : meta'[h] = meta[h]
  BY <1>1 DEF DetailInv, DetailTypes, InView
<1>3. DimmedByFocus' /\ SightTypes'
  BY <1>1, <1>2 DEF DetailInv, DetailTypes, DimmedByFocus, SightTypes
<1>4. DetailTypes' /\ PanelIsWanted' /\ PendingIsInFlight' /\ Looping'
  BY <1>1, <1>2, <1>3
  DEF DetailInv, DetailTypes, PanelIsWanted, PanelFollowsUser, PendingIsInFlight, Looping
<1>5. Awaited' /\ DetailReachesPanel'
  BY <1>1, <1>2 DEF DetailInv, Awaited, Current, DetailReachesPanel
<1> QED
  BY <1>3, <1>4, <1>5 DEF DetailInv

\* Edges and looks: what is dimmed is all that can change here.
LEMMA SightKeeps ==
    ASSUME DetailInv, UNCHANGED <<meta, births, unseen>>, DimmedByFocus', SightTypes'
    PROVE  DetailInv'
<1>1. InView' = InView
  BY DEF InView
<1> QED
  BY <1>1
  DEF unseen, DetailInv, DetailTypes, PanelIsWanted, PanelFollowsUser, PendingIsInFlight, Looping,
      StillOn, Awaited, Current, DetailReachesPanel

LEMMA LooksKeep ==
    ASSUME DetailInv,
           \/ Restyled \/ Recolor
           \/ \E n, m \in Host : EdgeComes(n, m)
           \/ \E e \in joined : EdgeGoes(e)
    PROVE  DetailInv'
<1>1. UNCHANGED <<meta, births, unseen, focus, pinned, keep>>
  BY DEF Restyled, Recolor, EdgeComes, EdgeGoes, NotSight, unseen
<1>2. DimmedByFocus /\ SightTypes
  BY DEF DetailInv, DetailTypes
<1>3. InView' = InView
  BY <1>1 DEF InView
<1>4. CASE Reapplied
  BY <1>1, <1>2, <1>4, ReappliedKeeps, SightKeeps
<1>5. CASE UNCHANGED <<dimmed, washed>>
  BY <1>1, <1>2, <1>3, <1>5, SightKeeps DEF DimmedByFocus, SightTypes
<1>6. CASE dimmed' = {} /\ washed' = (focus # None)
  <2>1. DimmedByFocus'
    BY <1>1, <1>2, <1>6 DEF DimmedByFocus
  <2>2. SightTypes'
    BY <1>1, <1>2, <1>6 DEF SightTypes
  <2> QED
    BY <1>1, <2>1, <2>2, SightKeeps
<1> QED
  BY <1>4, <1>5, <1>6 DEF Restyled, Recolor, EdgeComes, EdgeGoes

\* Everything else the page does leaves these variables alone.
LEMMA DetailFrame ==
    ASSUME DetailInv, UNCHANGED dstate
    PROVE  DetailInv'
<1>1. InView' = InView
  BY DEF dstate, InView
<1>2. DimmedByFocus' /\ SightTypes'
  BY <1>1 DEF dstate, sight, DetailInv, DetailTypes, DimmedByFocus, SightTypes
<1> QED
  BY <1>1, <1>2, SightKeeps DEF dstate

LEMMA NextDetail == DetailInv /\ [Next]_vars => DetailInv'
<1> SUFFICES ASSUME DetailInv, [Next]_vars
             PROVE  DetailInv'
  OBVIOUS
<1>1. ASSUME NEW n \in Host, ClickEdge(n) PROVE DetailInv'
  BY <1>1, ClosedKeeps DEF ClickEdge, Act
<1>2. ASSUME ClickAway \/ CloseDetails PROVE DetailInv'
  BY <1>2, ClosedKeeps DEF ClickAway, CloseDetails, Closed, Act
<1>3. ASSUME Drag \/ Customize PROVE DetailInv'
  BY <1>3, DetailFrame DEF Drag, Customize, dstate, unseen
<1>4. ASSUME DetailsNext PROVE DetailInv'
  BY <1>1, <1>2, <1>3, <1>4, MicrotaskKeeps, BlurKeeps, ClickKeeps, HoverKeeps, ComesKeeps,
     GoesKeeps, LaterKeeps, LooksKeep, ArrivesKeeps, FailsKeeps
  DEF DetailsNext
<1>5. ASSUME UNCHANGED NotLater PROVE DetailInv'
  BY <1>5, DetailFrame DEF NotLater, dstate, unseen
<1>6. ASSUME UNCHANGED vars PROVE DetailInv'
  BY <1>6, DetailFrame DEF vars, dvars, dstate, unseen
<1> QED
  BY <1>4, <1>5, <1>6 DEF Next

\* The invariant of the node details under the whole page.
THEOREM DetailInvariant == Spec => []DetailInv
<1>1. Init => DetailInv
  BY InitDetail DEF Init
<1> QED
  BY <1>1, NextDetail, PTL DEF Spec

\* No late answer, retry or timer moves the panel from what was asked for last,
\* and the dimmed hosts are always those the focus set aside when it was set, until a
\* recolouring makes all bright: showNodeDetails, applyFocusDim and their callers, for
\* any number of hosts, edges and acts.
THEOREM ViewAlwaysFollows == Spec => []ViewFollowsUser
<1>1. DetailInv => ViewFollowsUser
  BY DEF DetailInv, PanelIsWanted, ViewFollowsUser
<1> QED
  BY <1>1, DetailInvariant, PTL

\* A detail that has arrived is in the panel of its node whoever fetched it, and
\* nodeDetailPending holds exactly the nodes being fetched: fetchNodeDetail.
THEOREM DetailsAlwaysArrive == Spec => []DetailsArrive
<1>1. DetailInv => DetailsArrive
  BY DEF DetailInv, DetailsArrive
<1> QED
  BY <1>1, DetailInvariant, PTL

-----------------------------------------------------------------------------
(* The search box: its results are numbered in the order of the searches.  *)

SearchKinds == {"server", "replay", "payload"}
Runs == [query : Query, replay : BOOLEAN, parts : SUBSET {"local", "server", "replay", "payload"}]

SearchShaped ==
    /\ {input, timer} \subseteq Query \cup {None}
    /\ runs \in Seq(Runs) /\ Len(runs) <= MaxRuns
    /\ replay \in BOOLEAN
    /\ waits \subseteq [host : Host, tries : 0 .. MaxTries]
    /\ \A c \in calls : /\ c.kind \in SearchKinds => c.run \in 1 .. Len(runs)
                        /\ c.run \in 0 .. Len(runs)
                        /\ c.kind = "recent" => c.host \in Host

\* serverSearchId is of the newest search, payloadSearchId of the newest one of the
\* capture.
GuardsAreNewest ==
    /\ serverId = Len(runs) /\ payloadId \in 0 .. Len(runs)
    /\ payloadId # 0 => ~runs[payloadId].replay
    /\ \A r \in payloadId + 1 .. Len(runs) : runs[r].replay

PopupShaped ==
    popup # None => popup.run \in 1 .. Len(runs) /\ popup.parts = runs[popup.run].parts

SearchInv == SearchShaped /\ GuardsAreNewest /\ PopupShaped /\ NewestSearchShown

\* The box is emptied, or nothing but what is typed, waited for or called changes.
LEMMA SearchFrame ==
    ASSUME SearchInv, UNCHANGED <<runs, serverId, payloadId>>, SearchShaped',
           popup' \in {None, popup}
    PROVE  SearchInv'
<1>1. CASE popup' = popup
  BY <1>1 DEF SearchInv, GuardsAreNewest, PopupShaped, NewestSearchShown
<1>2. CASE popup' = None
  BY <1>2 DEF SearchInv, GuardsAreNewest, PopupShaped, NewestSearchShown
<1> QED
  BY <1>1, <1>2

\* performSearch: the new search is the newest of all, and of the capture unless in replay.
LEMMA FiresKeeps == SearchInv /\ TimerFires => SearchInv'
<1> SUFFICES ASSUME SearchInv, TimerFires PROVE SearchInv'
  OBVIOUS
<1> DEFINE r == Len(runs) + 1
           new == [query |-> timer, replay |-> replay, parts |-> {"local"}]
<1>1. /\ timer # None /\ Len(runs) < MaxRuns /\ timer' = None
      /\ runs' = Append(runs, new)
      /\ popup' = Displayed(r, {"local"})
      /\ serverId' = r
      /\ payloadId' = IF replay THEN payloadId ELSE r
      /\ calls' = calls \cup (IF replay THEN {Call("replay", r, None)}
                              ELSE {Call(k, r, None) : k \in {"server", "payload"}})
      /\ UNCHANGED <<input, replay, waits>>
  BY DEF TimerFires, PerformSearch
<1>2. new \in Runs /\ new.replay = replay /\ new.parts = {"local"}
  BY <1>1 DEF SearchInv, SearchShaped, Runs
<1> HIDE DEF new
<1>3. /\ Len(runs) \in Nat /\ runs' \in Seq(Runs) /\ Len(runs') = r /\ runs'[r] = new
      /\ \A i \in 1 .. Len(runs) : runs'[i] = runs[i]
  BY <1>1, <1>2 DEF SearchInv, SearchShaped
<1>4. \A c \in calls' : \/ c \in calls
                        \/ c.kind \in SearchKinds /\ c.run = r
  BY <1>1 DEF Call, SearchKinds
<1>5. SearchShaped'
  <2>1. \A c \in calls' : /\ c.kind \in SearchKinds => c.run \in 1 .. r
                          /\ c.run \in 0 .. r
                          /\ c.kind = "recent" => c.host \in Host
    BY <1>3, <1>4 DEF SearchInv, SearchShaped, SearchKinds
  <2> QED
    BY <1>1, <1>3, <2>1, FinderAssumption DEF SearchInv, SearchShaped
<1>6. GuardsAreNewest'
  BY <1>1, <1>2, <1>3 DEF SearchInv, GuardsAreNewest, SearchShaped
<1>7. popup'.run = r /\ popup'.parts = {"local"}
  BY <1>1 DEF Displayed
<1>8. PopupShaped' /\ NewestSearchShown'
  BY <1>2, <1>3, <1>7 DEF PopupShaped, NewestSearchShown
<1> QED
  BY <1>5, <1>6, <1>8 DEF SearchInv

\* A late answer is of the newest search of its mode, or it is dropped.
LEMMA SearchAnswerKeeps ==
    ASSUME SearchInv, NEW c \in calls, NEW found, SearchAnswered(c, found)
    PROVE  SearchInv'
<1> DEFINE all == runs[c.run].parts \cup {c.kind}
<1>1. /\ c.kind \in SearchKinds /\ calls' = calls \ {c}
      /\ IF found /\ Newest(c)
         THEN /\ runs' = [runs EXCEPT ![c.run].parts = all]
              /\ popup' = Displayed(c.run, all)
         ELSE UNCHANGED <<runs, popup>>
      /\ UNCHANGED <<input, timer, serverId, payloadId, replay, waits>>
  BY DEF SearchAnswered, SearchKinds
<1>2. c.run \in 1 .. Len(runs) /\ runs[c.run] \in Runs /\ Len(runs) \in Nat
  BY <1>1 DEF SearchInv, SearchShaped
<1>3. CASE ~(found /\ Newest(c))
  <2>1. SearchShaped'
    BY <1>1, <1>3 DEF SearchInv, SearchShaped
  <2> QED
    BY <1>1, <1>3, <2>1, SearchFrame
<1>4. CASE found /\ Newest(c)
  <2>1. [runs[c.run] EXCEPT !.parts = all] \in Runs
    BY <1>1, <1>2 DEF Runs, SearchKinds
  <2>2. /\ runs' \in Seq(Runs) /\ Len(runs') = Len(runs)
        /\ \A i \in 1 .. Len(runs) : runs'[i].replay = runs[i].replay
        /\ runs'[c.run].parts = all
    <3> HIDE DEF all
    <3>1. runs' = [i \in 1 .. Len(runs) |->
                      IF i = c.run THEN [runs[i] EXCEPT !.parts = all] ELSE runs[i]]
      BY <1>1, <1>4 DEF SearchInv, SearchShaped
    <3>2. \A i \in 1 .. Len(runs) : runs[i] \in Runs
      BY DEF SearchInv, SearchShaped
    <3>3. \A i \in 1 .. Len(runs) : runs'[i] \in Runs /\ runs'[i].replay = runs[i].replay
      BY <1>2, <2>1, <3>1, <3>2 DEF Runs
    <3>4. runs' \in Seq(Runs) /\ Len(runs') = Len(runs)
      BY <1>2, <3>1, <3>3
    <3> QED
      BY <1>2, <3>1, <3>2, <3>3, <3>4 DEF Runs
  <2>3. popup'.run = c.run /\ popup'.parts = all
    BY <1>1, <1>4 DEF Displayed
  <2> HIDE DEF all
  <2>4. SearchShaped' /\ GuardsAreNewest'
    BY <1>1, <1>2, <2>2 DEF SearchInv, SearchShaped, GuardsAreNewest
  <2>5. PopupShaped'
    BY <1>2, <2>2, <2>3 DEF PopupShaped
  <2>6. \A r \in c.run + 1 .. Len(runs) : runs[r].replay /\ ~runs[c.run].replay
    BY <1>1, <1>2, <1>4 DEF Newest, SearchInv, GuardsAreNewest, SearchKinds
  <2>7. NewestSearchShown'
    BY <1>2, <2>2, <2>3, <2>6 DEF NewestSearchShown
  <2> QED
    BY <2>4, <2>5, <2>7 DEF SearchInv
<1> QED
  BY <1>3, <1>4

\* The other acts of the search box.
LEMMA NextSearch == SearchInv /\ SearchNext => SearchInv'
<1> SUFFICES ASSUME SearchInv, SearchNext PROVE SearchInv'
  OBVIOUS
<1> USE DEF SearchShaped
<1>0. SearchShaped /\ Len(runs) \in Nat
  BY DEF SearchInv
<1>1. ASSUME NEW q \in Query, Type(q) PROVE SearchInv'
  BY <1>0, <1>1, SearchFrame DEF Type
<1>2. CASE Erase \/ ClearSearch
  BY <1>0, <1>2, SearchFrame DEF Erase, ClearSearch
<1>3. CASE SwitchReplay
  BY <1>0, <1>3, SearchFrame DEF SwitchReplay
<1>4. ASSUME NEW n \in Host, FocusOn(n)
      PROVE  waits' \subseteq [host : Host, tries : 0 .. MaxTries]
  <2>1. [host |-> n, tries |-> 0] \in [host : Host, tries : 0 .. MaxTries]
    BY FinderAssumption
  <2> QED
    BY <1>0, <1>4, <2>1 DEF FocusOn
<1>5. ASSUME NEW n \in Host, ChoosePayload(n) PROVE SearchInv'
  BY <1>0, <1>4, <1>5, SearchFrame DEF ChoosePayload, Cleared
<1>6. ASSUME NEW n \in Host, Choose(n) PROVE SearchInv'
  <2>1. UNCHANGED <<input, timer, runs, serverId, payloadId, popup, replay, waits>>
    BY <1>6 DEF Choose
  <2>2. \A c \in calls' : \/ c \in calls
                          \/ c.kind \notin SearchKinds /\ c.run = 0 /\ (c.kind = "recent" => c.host = n)
    BY <1>6 DEF Choose, Call, SearchKinds
  <2>3. SearchShaped'
    BY <1>0, <2>1, <2>2
  <2> QED
    BY <2>1, <2>3, SearchFrame
<1>7. ASSUME NEW c \in calls, ChoiceReturns(c) PROVE SearchInv'
  <2>1. /\ UNCHANGED <<timer, runs, serverId, payloadId, replay>> /\ calls' = calls \ {c}
        /\ input' = None /\ popup' = None
        /\ IF c.kind = "recent" THEN FocusOn(c.host) ELSE UNCHANGED waits
    BY <1>7 DEF ChoiceReturns, Cleared
  <2>2. waits' \subseteq [host : Host, tries : 0 .. MaxTries]
    BY <1>0, <1>4, <2>1
  <2>3. SearchShaped'
    BY <1>0, <2>1, <2>2
  <2> QED
    BY <2>1, <2>3, SearchFrame
<1>8. ASSUME NEW w \in waits, WaitTick(w) PROVE SearchInv'
  <2>1. /\ UNCHANGED <<timer, runs, serverId, payloadId, calls, replay>>
        /\ input' \in {input, None} /\ popup' \in {popup, None}
        /\ waits' \subseteq (waits \ {w}) \cup Retried(w)
    BY <1>8 DEF WaitTick, Cleared
  <2>2. Retried(w) \subseteq [host : Host, tries : 0 .. MaxTries]
    BY <1>0, FinderAssumption DEF Retried
  <2>3. SearchShaped'
    BY <1>0, <2>1, <2>2
  <2> QED
    BY <2>1, <2>3, SearchFrame
<1> QED
  BY <1>1, <1>2, <1>3, <1>5, <1>6, <1>7, <1>8, FiresKeeps, SearchAnswerKeeps DEF SearchNext

-----------------------------------------------------------------------------
(* The menus and the windows.                                              *)

MenuInv ==
    /\ lit = menus /\ (menus = {} \/ \E m \in Menu : menus = {m})
    /\ streams \in Protocol \cup {None, "loading"}
    /\ \A c \in streamCalls : /\ c.kind = "list" => c.proto \in Protocol
                              /\ c.kind = "detail" => c.id \in Stream
    /\ DOMAIN window = {"open", "data", "title", "tab", "content"}
    /\ window.open => /\ window.data \in Stream /\ window.data = window.title
                      /\ window.content = Content(window.title, window.tab)

LEMMA NextMenu == MenuInv /\ MenuNext => MenuInv'
<1> SUFFICES ASSUME MenuInv, MenuNext PROVE MenuInv'
  OBVIOUS
<1> USE DEF MenuInv
<1>1. ASSUME NEW m \in Menu, ToggleMenu(m) PROVE MenuInv'
  <2>1. lit' = {m} \ lit /\ menus' = {m} \ menus /\ UNCHANGED window
    BY <1>1 DEF ToggleMenu, Toggled
  <2>2. /\ streams' \in {streams, "loading"}
        /\ \A c \in streamCalls' : c \in streamCalls \/ \E p \in Protocol : c = ListCall(p)
    BY <1>1 DEF ToggleMenu, Loads
  <2>3. \A p \in Protocol : /\ ListCall(p).kind = "list" /\ ListCall(p).proto \in Protocol
    BY DEF ListCall
  <2> QED
    BY <2>1, <2>2, <2>3
<1>2. CASE ClickOutside
  BY <1>2 DEF ClickOutside
<1>3. CASE CloseStream
  BY <1>3 DEF CloseStream
<1>4. ASSUME NEW p \in Protocol, SetStreamFilter(p) PROVE MenuInv'
  BY <1>4 DEF SetStreamFilter, Loads, ListCall
<1>5. ASSUME NEW i \in Stream, OpenStream(i) PROVE MenuInv'
  BY <1>5 DEF OpenStream, DetailCall
<1>6. ASSUME NEW tab, SwitchTab(tab) PROVE MenuInv'
  <2>1. window.open /\ window.data # None
    BY <1>6, FinderAssumption DEF SwitchTab
  <2>2. window' = [window EXCEPT !.tab = tab, !.content = Content(window.data, tab)]
    BY <1>6, <2>1 DEF SwitchTab
  <2>3. /\ window'.data = window.data /\ window'.title = window.title /\ window'.tab = tab
        /\ window'.content = Content(window.data, tab)
        /\ DOMAIN window' = {"open", "data", "title", "tab", "content"}
    BY <2>2
  <2> QED
    BY <1>6, <2>1, <2>3 DEF SwitchTab
<1>7. ASSUME NEW c \in streamCalls, NEW ok \in BOOLEAN, ListAnswered(c, ok) PROVE MenuInv'
  BY <1>7 DEF ListAnswered
<1>8. ASSUME NEW c \in streamCalls, NEW ok \in BOOLEAN, StreamArrives(c, ok) PROVE MenuInv'
  BY <1>8 DEF StreamArrives, StreamOpened
<1> QED
  BY <1>1, <1>2, <1>3, <1>4, <1>5, <1>6, <1>7, <1>8 DEF MenuNext

-----------------------------------------------------------------------------
(* The bounds and the types of what the panel does not depend on.          *)

DetailBounds ==
    /\ acts \in 0 .. MaxActs
    /\ \A n \in Host : births[n] <= acts + 1
    /\ panel # None => panel.birth <= acts + 1
    /\ tip = None \/ tip \in [node : Host, detail : BOOLEAN]
    /\ later \subseteq Host
    /\ joined \subseteq {{n, m} : n, m \in Host}

\* Rendering a node binds the panel to the birth of the node.
LEMMA ShowNodeBounds ==
    ASSUME DetailBounds, NEW n \in Host, ShowNode(n)
    PROVE  panel' # None => panel'.birth <= acts + 1
  BY DEF ShowNode, Rendered, DetailBounds, InView

LEMMA NextBounds == DetailBounds /\ DetailInv /\ DetailsNext => DetailBounds'
<1> SUFFICES ASSUME DetailBounds, DetailInv, DetailsNext PROVE DetailBounds'
  OBVIOUS
<1>0. /\ acts \in Nat /\ births \in [Host -> Nat]
      /\ meta \in [Host -> [loaded : BOOLEAN] \cup {None}]
      /\ panel # None => panel.birth \in Nat
      /\ DetailTypes
  BY DEF DetailBounds, DetailInv, DetailTypes, Panel
<1>1. acts' \in 0 .. MaxActs /\ acts <= acts'
  <2>1. ASSUME Act \/ acts' = acts PROVE acts' \in 0 .. MaxActs /\ acts <= acts'
    BY <1>0, <2>1 DEF Act, DetailBounds
  <2>0. /\ Restyled \/ Recolor => Act
        /\ \A n, m \in Host : EdgeComes(n, m) => Act
        /\ \A e \in joined : EdgeGoes(e) => Act
    BY DEF Restyled, Recolor, EdgeComes, EdgeGoes
  <2>2. Microtask \/ BlurNode => acts' = acts
    BY DEF Microtask, BlurNode, Event
  <2>3. ClickAway \/ CloseDetails \/ Drag \/ Customize => Act
    BY DEF ClickAway, CloseDetails, Drag, Customize
  <2>4. \A n \in Host : ClickNode(n) \/ ClickEdge(n) \/ HoverNode(n) \/ NodeComes(n) \/ NodeGoes(n) => Act
    BY DEF ClickNode, ClickEdge, HoverNode, NodeComes, NodeGoes
  <2>5. \A n \in Host : ShowsLater(n) => acts' = acts
    BY DEF ShowsLater, Event
  <2>6. \A f \in fetches : DetailArrives(f) \/ DetailFails(f) => acts' = acts
    BY DEF DetailArrives, DetailFails, Event
  <2> QED
    BY <2>0, <2>1, <2>2, <2>3, <2>4, <2>5, <2>6 DEF DetailsNext
<1>j. joined' \subseteq {{n, m} : n, m \in Host}
  <2>1. joined' \subseteq joined \/ \E n, m \in Host : joined' = joined \cup {{n, m}}
    <3>1. CASE Microtask \/ ClickAway \/ CloseDetails \/ BlurNode \/ Drag \/ Customize
      BY <3>1 DEF Microtask, ClickAway, CloseDetails, BlurNode, Drag, Customize
    <3>2. CASE Restyled \/ Recolor
      BY <3>2 DEF Restyled, Recolor
    <3>3. ASSUME NEW n \in Host, ClickNode(n) \/ ClickEdge(n) \/ HoverNode(n) \/ ShowsLater(n)
          PROVE  joined' = joined
      BY <3>3 DEF ClickNode, ClickEdge, HoverNode, ShowsLater
    <3>4. ASSUME NEW n \in Host, NodeComes(n) \/ NodeGoes(n) PROVE joined' \subseteq joined
      BY <3>4 DEF NodeComes, NodeGoes
    <3>5. ASSUME NEW n \in Host, NEW m \in Host, EdgeComes(n, m) PROVE joined' = joined \cup {{n, m}}
      BY <3>5 DEF EdgeComes
    <3>6. ASSUME NEW e \in joined, EdgeGoes(e) PROVE joined' \subseteq joined
      BY <3>6 DEF EdgeGoes
    <3>7. ASSUME NEW f \in fetches, DetailArrives(f) \/ DetailFails(f) PROVE joined' = joined
      BY <3>7 DEF DetailArrives, DetailFails
    <3> QED
      BY <3>1, <3>2, <3>3, <3>4, <3>5, <3>6, <3>7 DEF DetailsNext
  <2>2. joined \subseteq {{n, m} : n, m \in Host}
    BY DEF DetailBounds
  <2> QED
    BY <2>1, <2>2
<1>2. ASSUME UNCHANGED <<births, panel>>, tip' = tip \/ tip' = None \/
                tip' \in [node : Host, detail : BOOLEAN], later' \subseteq Host
      PROVE  DetailBounds'
  BY <1>0, <1>1, <1>j, <1>2 DEF DetailBounds
<1>3. CASE Microtask
  <2>1. UNCHANGED <<births, tip, later>>
    BY <1>3 DEF Microtask
  <2>2. CASE StillOn(micro)
    <3>1. micro \in Host /\ ShowNode(micro)
      BY <1>3, <2>2 DEF Microtask, DetailInv, DetailTypes
    <3>2. panel' # None => panel'.birth <= acts + 1
      BY <3>1, ShowNodeBounds
    <3>3. acts' = acts
      BY <1>3 DEF Microtask
    <3> QED
      BY <1>1, <1>j, <2>1, <3>2, <3>3 DEF DetailBounds
  <2>3. CASE ~StillOn(micro)
    BY <1>2, <1>3, <2>1, <2>3 DEF Microtask, DetailBounds
  <2> QED
    BY <2>2, <2>3
<1>4. ASSUME NEW n \in Host, ClickNode(n) \/ ShowsLater(n) PROVE DetailBounds'
  <2>1. ShowNode(n) /\ UNCHANGED <<births, tip>> /\ later' \subseteq later
    BY <1>4 DEF ClickNode, ShowsLater, AskFor
  <2>2. panel' # None => panel'.birth <= acts + 1 /\ (panel' = panel \/ panel'.birth = births[n])
    BY <2>1, ShowNodeBounds DEF ShowNode, Rendered
  <2> QED
    BY <1>0, <1>1, <1>j, <2>1, <2>2 DEF DetailBounds
<1>5. ASSUME NEW n \in Host, HoverNode(n) PROVE DetailBounds'
  <2>1. /\ UNCHANGED <<births, panel, later>> /\ n \in InView
        /\ tip' = [node |-> n, detail |-> meta[n].loaded]
    BY <1>5 DEF HoverNode
  <2>2. tip' \in [node : Host, detail : BOOLEAN]
    BY <1>0, <2>1, RenderedPanel
  <2> QED
    BY <1>2, <2>1, <2>2 DEF DetailBounds
<1>6. CASE ClickAway \/ CloseDetails \/ BlurNode \/ Drag \/ Customize \/ \E n \in Host : NodeGoes(n)
  <2>1. CASE ClickAway \/ CloseDetails
    <3>1. panel' = None /\ UNCHANGED <<births, tip, later>>
      BY <2>1 DEF ClickAway, CloseDetails, Closed
    <3> QED
      BY <1>0, <1>1, <1>j, <3>1 DEF DetailBounds
  <2>2. CASE BlurNode \/ Drag \/ \E n \in Host : NodeGoes(n)
    <3>1. UNCHANGED <<births, panel, later>> /\ tip' \in {tip, None}
      BY <2>2 DEF BlurNode, Drag, NodeGoes, NotSight
    <3> QED
      BY <1>2, <3>1 DEF DetailBounds
  <2>3. CASE Customize
    <3>1. /\ UNCHANGED <<births, panel, tip>> /\ later' = later \cup {panel.node}
          /\ panel.node \in Host
      BY <1>0, <2>3 DEF Customize, DetailTypes, Panel
    <3> QED
      BY <1>2, <3>1 DEF DetailBounds
  <2> QED
    BY <1>6, <2>1, <2>2, <2>3
<1>7. ASSUME NEW n \in Host, ClickEdge(n) PROVE DetailBounds'
  <2>1. /\ UNCHANGED <<births, tip, later>>
        /\ panel' = [node |-> None, birth |-> 0, detail |-> FALSE]
    BY <1>7 DEF ClickEdge
  <2>2. panel'.birth = 0
    BY <2>1
  <2> QED
    BY <1>0, <1>1, <1>j, <2>1, <2>2 DEF DetailBounds
<1>8. ASSUME NEW n \in Host, NodeComes(n) PROVE DetailBounds'
  <2>1. /\ UNCHANGED <<panel, tip, later>> /\ births' = [births EXCEPT ![n] = @ + 1]
        /\ acts' = acts + 1
    BY <1>8 DEF NodeComes, Act, NotSight
  <2> QED
    BY <1>0, <1>1, <1>j, <2>1 DEF DetailBounds
<1>9. ASSUME NEW f \in fetches, DetailArrives(f) \/ DetailFails(f) PROVE DetailBounds'
  <2>1. /\ UNCHANGED <<births, later>> /\ f.node \in Host
    BY <1>0, <1>9 DEF DetailArrives, DetailFails, DetailTypes
  <2>2. tip' = tip \/ tip' \in [node : Host, detail : BOOLEAN]
    <3>1. CASE DetailArrives(f)
      <4>1. tip' = tip \/ tip' = [node |-> f.node, detail |-> TRUE]
        BY <3>1 DEF DetailArrives
      <4>2. [node |-> f.node, detail |-> TRUE] \in [node : Host, detail : BOOLEAN]
        BY <2>1
      <4> QED
        BY <4>1, <4>2
    <3>2. CASE DetailFails(f)
      <4>1. (f.node \in InView /\ meta[f.node].loaded) \in BOOLEAN
        BY <1>0, RenderedPanel
      <4> QED
        BY <2>1, <3>2, <4>1 DEF DetailFails
    <3> QED
      BY <1>9, <3>1, <3>2
  <2>3. panel' # panel /\ panel' # None => panel'.birth = births[f.node]
    BY <1>9 DEF DetailArrives, DetailFails, Rendered
  <2> QED
    BY <1>0, <1>1, <1>j, <2>1, <2>2, <2>3 DEF DetailBounds
<1>10. CASE \/ Restyled \/ Recolor
            \/ \E n, m \in Host : EdgeComes(n, m)
            \/ \E e \in joined : EdgeGoes(e)
  <2>1. UNCHANGED <<births, panel, tip, later>>
    BY <1>10 DEF Restyled, Recolor, EdgeComes, EdgeGoes, NotSight
  <2> QED
    BY <1>2, <2>1 DEF DetailBounds
<1> QED
  BY <1>3, <1>4, <1>5, <1>6, <1>7, <1>8, <1>9, <1>10 DEF DetailsNext

\* What is outside the details only counts acts and asks for hosts to be shown.
LEMMA OthersKeepBounds ==
    ASSUME DetailBounds, DetailTypes, UNCHANGED NotLater, Act \/ Event, later' \subseteq Host
    PROVE  DetailBounds'
<1>1. acts \in 0 .. MaxActs /\ acts' \in 0 .. MaxActs /\ acts <= acts'
  BY DEF Act, Event, DetailBounds
<1>2. UNCHANGED <<births, panel, tip, joined>> /\ births \in [Host -> Nat]
      /\ (panel # None => panel.birth \in Nat)
  BY DEF NotLater, DetailTypes, Panel
<1>3. \A n \in Host : births'[n] <= acts' + 1
  BY <1>1, <1>2 DEF DetailBounds
<1>4. panel' # None => panel'.birth <= acts' + 1
  BY <1>1, <1>2 DEF DetailBounds
<1> QED
  BY <1>1, <1>2, <1>3, <1>4 DEF DetailBounds

\* The search box only ever asks for hosts of its results to be shown later.
LEMMA SearchLeavesBounds ==
    ASSUME DetailBounds, DetailTypes, SearchInv, SearchNext, UNCHANGED NotLater
    PROVE  DetailBounds'
<1>2. \A n \in Host : FocusOn(n) => later' \subseteq Host
  BY DEF FocusOn, DetailBounds
<1>3. SearchShaped
  BY DEF SearchInv
<1>4. (Act \/ Event) /\ later' \subseteq Host
  <2>1. CASE /\ UNCHANGED later
             /\ \/ \E q \in Query : Type(q)
                \/ Erase \/ ClearSearch \/ TimerFires \/ SwitchReplay
                \/ \E c \in calls, found \in BOOLEAN : SearchAnswered(c, found)
    <3>1. Act \/ Event
      BY <2>1 DEF Type, Erase, ClearSearch, TimerFires, SwitchReplay, SearchAnswered
    <3> QED
      BY <2>1, <3>1 DEF DetailBounds
  <2>2. ASSUME NEW n \in Host, ChoosePayload(n) \/ Choose(n)
        PROVE  (Act \/ Event) /\ later' \subseteq Host
    BY <1>2, <2>2 DEF ChoosePayload, Choose, DetailBounds
  <2>3. ASSUME NEW c \in calls, ChoiceReturns(c) PROVE (Act \/ Event) /\ later' \subseteq Host
    BY <1>2, <1>3, <2>3 DEF ChoiceReturns, SearchShaped, DetailBounds
  <2>4. ASSUME NEW w \in waits, WaitTick(w) PROVE (Act \/ Event) /\ later' \subseteq Host
    <3>1. w.host \in Host
      BY <1>3 DEF SearchShaped
    <3> QED
      BY <2>4, <3>1 DEF WaitTick, DetailBounds
  <2> QED
    BY <2>1, <2>2, <2>3, <2>4 DEF SearchNext
<1> QED
  BY <1>4, OthersKeepBounds

\* A stream tag empties the box as it opens its stream.
LEMMA TagKeeps ==
    ASSUME SearchInv, MenuInv, DetailBounds, DetailTypes, NEW i \in Stream, OpenTagged(i),
           UNCHANGED <<NotLater, later>>
    PROVE  SearchInv' /\ MenuInv' /\ DetailBounds'
<1>1. /\ Act /\ input' = None /\ popup' = None
      /\ UNCHANGED <<timer, runs, serverId, payloadId, calls, replay, waits>>
      /\ UNCHANGED <<menus, lit, streams, window>>
      /\ streamCalls' = streamCalls \cup {DetailCall(i)}
  BY DEF OpenTagged, Cleared
<1>2. SearchInv'
  <2>1. SearchShaped'
    BY <1>1 DEF SearchInv, SearchShaped
  <2> QED
    BY <1>1, <2>1, SearchFrame
<1>3. MenuInv'
  BY <1>1 DEF MenuInv, DetailCall
<1>4. DetailBounds'
  BY <1>1, OthersKeepBounds DEF DetailBounds
<1> QED
  BY <1>2, <1>3, <1>4

LEMMA MenusLeaveBounds ==
    ASSUME DetailBounds, DetailTypes, MenuNext, UNCHANGED <<NotLater, later>>
    PROVE  DetailBounds'
<1>1. Act \/ Event
  BY DEF MenuNext, ToggleMenu, ClickOutside, CloseStream, SetStreamFilter, OpenStream, SwitchTab,
         ListAnswered, StreamArrives
<1>2. later' \subseteq Host /\ UNCHANGED NotLater
  BY DEF DetailBounds
<1> QED
  BY <1>1, <1>2, OthersKeepBounds

LEMMA InitFinder == Init => SearchInv /\ MenuInv /\ DetailBounds
<1> SUFFICES ASSUME Init PROVE SearchInv /\ MenuInv /\ DetailBounds
  OBVIOUS
<1>1. SearchInv
  <2>1. runs = <<>> /\ runs \in Seq(Runs) /\ Len(runs) = 0
    BY DEF Init
  <2>2. /\ input = None /\ timer = None /\ serverId = 0 /\ payloadId = 0 /\ popup = None
        /\ calls = {} /\ replay = FALSE /\ waits = {}
    BY DEF Init
  <2>3. SearchShaped
    <3>1. Len(runs) <= MaxRuns
      BY <2>1, FinderAssumption
    <3>2. {input, timer} \subseteq Query \cup {None} /\ replay \in BOOLEAN
      BY <2>2
    <3> QED
      BY <2>1, <2>2, <3>1, <3>2 DEF SearchShaped
  <2>4. GuardsAreNewest /\ PopupShaped /\ NewestSearchShown
    BY <2>1, <2>2 DEF GuardsAreNewest, PopupShaped, NewestSearchShown
  <2> QED
    BY <2>3, <2>4 DEF SearchInv
<1>2. MenuInv
  BY DEF Init, MenuInv
<1>3. DetailBounds
  <2>1. births \in [Host -> {0, 1}] /\ acts = 0 /\ panel = None /\ tip = None /\ later = {}
        /\ joined = {}
    BY DEF Init, DetailsInit
  <2>2. \A n \in Host : births[n] \in {0, 1}
    BY <2>1
  <2>3. \A n \in Host : births[n] <= 1
    BY <2>2
  <2> QED
    BY <2>1, <2>3 DEF DetailBounds
<1> QED
  BY <1>1, <1>2, <1>3

FinderInv == DetailInv /\ SearchInv /\ MenuInv /\ DetailBounds

LEMMA NextFinder == FinderInv /\ [Next]_vars => FinderInv'
<1> SUFFICES ASSUME FinderInv, [Next]_vars PROVE FinderInv'
  OBVIOUS
<1> USE DEF FinderInv
<1>1. DetailInv'
  BY NextDetail
<1>2. ASSUME UNCHANGED svars PROVE SearchInv'
  BY <1>2 DEF svars, SearchInv, SearchShaped, GuardsAreNewest, PopupShaped, NewestSearchShown
<1>3. ASSUME UNCHANGED mvars PROVE MenuInv'
  BY <1>3 DEF mvars, MenuInv
<1>4. CASE DetailsNext /\ UNCHANGED <<svars, mvars>>
  BY <1>1, <1>2, <1>3, <1>4, NextBounds
<1>5. CASE SearchNext /\ UNCHANGED <<NotLater, mvars>>
  <2>1. DetailTypes /\ UNCHANGED NotLater /\ UNCHANGED mvars /\ SearchNext
    BY <1>5 DEF DetailInv
  <2> QED
    BY <1>1, <1>3, <2>1, NextSearch, SearchLeavesBounds
<1>6. CASE MenuNext /\ UNCHANGED <<NotLater, later, svars>>
  <2>1. DetailTypes /\ UNCHANGED <<NotLater, later>> /\ UNCHANGED svars /\ MenuNext
    BY <1>6 DEF DetailInv
  <2> QED
    BY <1>1, <1>2, <2>1, NextMenu, MenusLeaveBounds
<1>7. CASE (\E i \in Stream : OpenTagged(i)) /\ UNCHANGED <<NotLater, later>>
  BY <1>1, <1>7, TagKeeps DEF DetailInv
<1>8. CASE UNCHANGED vars
  <2>1. UNCHANGED svars /\ UNCHANGED mvars /\ UNCHANGED dvars
    BY <1>8 DEF vars
  <2>2. DetailBounds'
    BY <2>1 DEF dvars, DetailBounds
  <2> QED
    BY <1>1, <1>2, <1>3, <2>1, <2>2
<1> QED
  BY <1>4, <1>5, <1>6, <1>7, <1>8 DEF Next

\* The search box, the menus, the windows and the details together, with the bounds.
THEOREM FinderInvariant == Spec => []FinderInv
<1>1. Init => FinderInv
  BY InitFinder, InitDetail DEF Init, FinderInv
<1> QED
  BY <1>1, NextFinder, PTL DEF Spec

\* The popup shows the newest search of its mode, whatever answers arrive late, with
\* everything that has arrived for it: performSearch and its three continuations, for
\* any queries and any number of searches.
THEOREM PopupAlwaysCurrent == Spec => []PopupIsCurrent
<1>1. FinderInv => PopupIsCurrent
  BY DEF FinderInv, SearchInv, PopupShaped, PopupIsCurrent, ShownIsMerged
<1> QED
  BY <1>1, FinderInvariant, PTL

LEMMA TypesFollow == FinderInv => TypeOK
<1> SUFFICES ASSUME FinderInv PROVE TypeOK
  OBVIOUS
<1>1. /\ DetailTypes /\ PanelIsWanted /\ DimmedByFocus /\ DetailBounds /\ SearchShaped
      /\ GuardsAreNewest /\ PopupShaped /\ MenuInv
  BY DEF FinderInv, DetailInv, SearchInv
<1>2. DetailsTypeOK
  <2>1. births \in [Host -> 0 .. MaxActs + 1]
    <3>1. \A n \in Host : births[n] \in 0 .. MaxActs + 1
      BY <1>1 DEF DetailTypes, DetailBounds
    <3> QED
      BY <1>1, <3>1 DEF DetailTypes
  <2>2. panel = None \/ panel \in [node : Host \cup {None}, birth : 0 .. MaxActs + 1, detail : BOOLEAN]
    <3>1. panel # None => panel \in Panel /\ panel.birth \in 0 .. MaxActs + 1
      BY <1>1 DEF DetailTypes, DetailBounds, Panel
    <3> QED
      BY <3>1 DEF Panel
  <2>3. want \in Host \cup {None} /\ detailsId \in Host \cup {None}
    BY <1>1 DEF PanelIsWanted, PanelFollowsUser, DetailTypes, Panel
  <2>4. dimmed \subseteq Host /\ SightTypes
    BY <1>1 DEF DimmedByFocus, InView, DetailTypes
  <2> QED
    BY <1>1, <2>1, <2>2, <2>3, <2>4 DEF DetailsTypeOK, DetailTypes, DetailBounds, SightTypes
<1>3. \A r \in DOMAIN runs : runs[r] \in Runs
  BY <1>1 DEF SearchShaped
<1>4. Len(runs) \in Nat /\ DOMAIN runs = 1 .. Len(runs)
  BY <1>1 DEF SearchShaped
<1>5. menus \subseteq Menu /\ lit \subseteq Menu
  BY <1>1 DEF MenuInv
<1> QED
  BY <1>1, <1>2, <1>3, <1>4, <1>5
  DEF TypeOK, SearchShaped, GuardsAreNewest, PopupShaped, MenuInv, Runs

\* The content of the stream window is of the stream and the tab it names, at most one
\* submenu is open and its button is the one lit, and every variable has its type:
\* switchStreamTab, setupMenus, for any number of streams and acts.
THEOREM WindowsAlwaysAgree == Spec => []WindowsAgree
<1>1. FinderInv => MenusAgree
  <2> SUFFICES ASSUME FinderInv PROVE MenusAgree
    OBVIOUS
  <2>1. lit = menus /\ (menus = {} \/ \E m \in Menu : menus = {m})
    BY DEF FinderInv, MenuInv
  <2>2. Cardinality(menus) \in {0, 1}
    BY <2>1, FS_EmptySet, FS_Singleton
  <2> QED
    BY <2>1, <2>2 DEF MenusAgree
<1>2. FinderInv => StreamUnderItsTitle
  BY DEF FinderInv, MenuInv, StreamUnderItsTitle
<1>3. FinderInv => WindowsAgree
  BY <1>1, <1>2, TypesFollow DEF WindowsAgree
<1> QED
  BY <1>3, FinderInvariant, PTL
=============================================================================

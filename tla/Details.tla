------------------------------- MODULE Details -------------------------------
(***************************************************************************)
(* The node details of the page (static/app.js): the panel, the hover      *)
(* tooltip, the focus that dims the rest of the graph, the details fetched *)
(* lazily from /api/node and the customizations posted to /api/overrides.  *)
(*                                                                         *)
(* The event loop runs one handler to its end; a promise that is already   *)
(* settled runs its continuation before any other event (micro).           *)
(***************************************************************************)
EXTENDS Integers, FiniteSets

CONSTANTS
    Host,           \* hosts the graph can show
    MaxActs,        \* bound: acts of the user and changes of the view
    None

Panel == [node : Host \cup {None}, birth : Nat, detail : BOOLEAN]

ASSUME DetailsAssumption ==
    /\ MaxActs \in Nat /\ None \notin Host
    /\ None \notin [loaded : BOOLEAN] /\ None \notin Panel

VARIABLES
    meta,       \* nodeMeta of the nodes in view, with detailLoaded; None for one out
                \* of view
    births,     \* host -> how often it has come into view
    joined,     \* the pairs of hosts with an edge in view
    pending,    \* nodeDetailPending
    fetches,    \* /api/node calls under way: node, whose (the continuation)
    panel,      \* the details panel: None, or the node it names, with the
                \* birth and the detail it was rendered with
    detailsId,  \* detailsNodeId
    micro,      \* node whose panel continuation is due, None when none is
    hover,      \* lastHoverNodeId
    tip,        \* the tooltip: None, or the node and the detail it shows
    focus,      \* the host in focus, None when focusActive is false
    pinned,     \* focusPinned
    keep,       \* focusKeepNodes
    dimmed,     \* hosts drawn at opacity 0.12
    washed,     \* a recolouring has undone the dimming of the focus (history)
    later,      \* nodes to be shown when an override post returns or a focus
                \* timer fires
    want,       \* what was last asked to be shown, None if it was closed (history)
    acts

sight == <<focus, pinned, keep, dimmed, washed>>

dvars == <<meta, births, joined, pending, fetches, panel, detailsId, micro, hover, tip,
           sight, later, want, acts>>

InView == {n \in Host : meta[n] # None}

Act == micro = None /\ acts < MaxActs /\ acts' = acts + 1
Event == micro = None /\ UNCHANGED acts

-----------------------------------------------------------------------------
(* fetchNodeDetail: at most one call per node; the second caller gets the  *)
(* meta there is, at once.                                                 *)

Begins(n) == n \notin pending

FetchFor(n, whose) ==
    IF Begins(n)
    THEN pending' = pending \cup {n} /\ fetches' = fetches \cup {[node |-> n, whose |-> whose]}
    ELSE UNCHANGED <<pending, fetches>>

RenderedBare(n) == [node |-> n, birth |-> births[n], detail |-> FALSE]  \* the fetched fields left out
Rendered(n) == [node |-> n, birth |-> births[n], detail |-> meta[n].loaded]

(* showNodeDetails: render what there is, fetch the rest; when a call is
   already under way the continuation renders again at once. *)
ShowNode(n) ==
    IF n \notin InView THEN micro' = None /\ UNCHANGED <<panel, detailsId, pending, fetches>>
    ELSE /\ detailsId' = n /\ panel' = Rendered(n)
         /\ IF meta[n].loaded THEN micro' = None /\ UNCHANGED <<pending, fetches>>
            ELSE /\ FetchFor(n, "panel")
                 /\ micro' = IF Begins(n) THEN None ELSE n

(* Asked for by the user, or by an act of theirs that has come back. *)
AskFor(n) == ShowNode(n) /\ want' = IF n \in InView THEN n ELSE want

(* The continuation of showNodeDetails, when the panel is still on the node. *)
StillOnAny(n) == panel # None        \* without the test that it has not moved on
StillOn(n) == detailsId = n /\ panel # None

Microtask ==
    /\ micro # None
    /\ IF StillOn(micro) THEN ShowNode(micro)
       ELSE micro' = None /\ UNCHANGED <<panel, detailsId, pending, fetches>>
    /\ UNCHANGED <<meta, births, joined, hover, tip, sight, later, want, acts>>

-----------------------------------------------------------------------------
(* Focus.                                                                  *)

Near(n) == {m \in Host : {n, m} \in joined}

(* focusNode: the host and its neighbours of this moment stay bright. *)
Focused(n, pin) ==
    IF n \in InView
    THEN /\ focus' = n /\ pinned' = pin /\ keep' = {n} \cup Near(n)
         /\ dimmed' = InView \ keep' /\ washed' = FALSE
    ELSE UNCHANGED sight

Unfocused == focus' = None /\ pinned' = FALSE /\ keep' = {} /\ dimmed' = {} /\ washed' = FALSE

-----------------------------------------------------------------------------
(* The mouse.                                                              *)

ClickNode(n) ==
    /\ Act /\ n \in InView
    /\ AskFor(n) /\ Focused(n, TRUE)
    /\ UNCHANGED <<meta, births, joined, hover, tip, later>>

ClickEdge(n) ==                 \* an edge of n: showEdgeDetails
    /\ Act /\ n \in InView
    /\ detailsId' = None /\ panel' = [node |-> None, birth |-> 0, detail |-> FALSE]
    /\ want' = None
    /\ UNCHANGED <<meta, births, joined, pending, fetches, micro, hover, tip, sight, later>>

Closed == detailsId' = None /\ panel' = None /\ want' = None

ClickAway ==
    /\ Act /\ Closed /\ Unfocused
    /\ UNCHANGED <<meta, births, joined, pending, fetches, micro, hover, tip, later>>

CloseDetails ==                 \* the close button or Esc
    /\ Act /\ panel # None /\ Closed
    /\ UNCHANGED <<meta, births, joined, pending, fetches, micro, hover, tip, sight, later>>

HoverNode(n) ==
    /\ Act /\ n \in InView /\ hover = None
    /\ hover' = n /\ tip' = [node |-> n, detail |-> meta[n].loaded]
    /\ IF pinned THEN UNCHANGED sight ELSE Focused(n, FALSE)
    /\ IF meta[n].loaded THEN UNCHANGED <<pending, fetches>> ELSE FetchFor(n, "tooltip")
    /\ UNCHANGED <<meta, births, joined, panel, detailsId, micro, later, want>>

BlurNode ==
    /\ Event /\ hover # None
    /\ hover' = None /\ tip' = None
    /\ IF pinned THEN UNCHANGED sight ELSE Unfocused
    /\ UNCHANGED <<meta, births, joined, pending, fetches, panel, detailsId, micro, later, want>>

Drag ==                         \* dragging, zooming or leaving an edge hides the tooltip
    /\ Act /\ tip # None /\ tip' = None
    /\ UNCHANGED <<meta, births, joined, pending, fetches, panel, detailsId, micro, hover, sight,
                   later, want>>

-----------------------------------------------------------------------------
(* /api/node answers, or fails; the continuation runs in the same turn.    *)

Answered(f) == pending' = (pending \ {f.node}) /\ fetches' = fetches \ {f}

DetailArrives(f) ==
    LET n == f.node IN
    /\ Event /\ f \in fetches /\ Answered(f)
    /\ IF n \notin InView THEN UNCHANGED <<meta, panel, tip>>
       ELSE /\ meta' = [meta EXCEPT ![n].loaded = TRUE]
            /\ panel' = IF f.whose = "panel" /\ StillOn(n)
                        THEN [node |-> n, birth |-> births[n], detail |-> TRUE] ELSE panel
            /\ tip' = IF f.whose = "tooltip" /\ hover = n
                      THEN [node |-> n, detail |-> TRUE] ELSE tip
    /\ UNCHANGED <<births, joined, detailsId, micro, hover, sight, later, want>>

(* A refused call resolves to the meta of its start: the panel, if it is
   still on the node, is rendered again and fetches again. *)
DetailFails(f) ==
    LET n == f.node
        again == f.whose = "panel" /\ StillOn(n) /\ n \in InView /\ ~meta[n].loaded IN
    /\ Event /\ f \in fetches
    /\ IF again THEN UNCHANGED <<pending, fetches>> ELSE Answered(f)
    /\ panel' = IF f.whose = "panel" /\ StillOn(n) /\ n \in InView THEN Rendered(n) ELSE panel
    /\ tip' = IF f.whose = "tooltip" /\ hover = n
              THEN [node |-> n, detail |-> n \in InView /\ meta[n].loaded] ELSE tip
    /\ UNCHANGED <<meta, births, joined, detailsId, micro, hover, sight, later, want>>

-----------------------------------------------------------------------------
(* The view: hosts and edges come, change and go with the stream.  What    *)
(* updateGraph draws is dimmed again as the focus was when it was set.     *)

Reapplied ==
    IF focus = None THEN UNCHANGED <<dimmed, washed>>
    ELSE dimmed' = {n \in Host : meta'[n] # None} \ keep /\ washed' = FALSE

NotSight == <<pending, fetches, panel, detailsId, micro, hover, tip, focus, pinned, keep,
              later, want>>

NodeComes(n) ==
    /\ Act /\ n \notin InView
    /\ births' = [births EXCEPT ![n] = @ + 1]
    /\ meta' = [meta EXCEPT ![n] = [loaded |-> FALSE]]
    /\ Reapplied
    /\ UNCHANGED <<joined, NotSight>>

NodeGoes(n) ==                  \* its edges go with it
    /\ Act /\ n \in InView
    /\ meta' = [meta EXCEPT ![n] = None]
    /\ joined' = {e \in joined : n \notin e}
    /\ dimmed' = dimmed \ {n}
    /\ UNCHANGED <<births, washed, NotSight>>

EdgeComes(n, m) ==
    /\ Act /\ n \in InView /\ m \in InView /\ n # m /\ m \notin Near(n)
    /\ joined' = joined \cup {{n, m}}
    /\ UNCHANGED meta /\ Reapplied
    /\ UNCHANGED <<births, NotSight>>

EdgeGoes(e) ==
    /\ Act /\ e \in joined /\ joined' = joined \ {e}
    /\ UNCHANGED <<meta, births, dimmed, washed, NotSight>>

Restyled ==                     \* a delta changes the look of what is there
    /\ Act /\ UNCHANGED meta /\ Reapplied
    /\ UNCHANGED <<births, joined, NotSight>>

(* recolorAllNodes, for a theme or a colour mode: the renderer makes every
   host it restyles bright again, except the solar one. *)
Recolor ==
    /\ Act
    /\ \/ dimmed' = {} /\ washed' = (focus # None)
       \/ UNCHANGED <<dimmed, washed>>
    /\ UNCHANGED <<meta, births, joined, NotSight>>

-----------------------------------------------------------------------------
(* Customizations: group, pin and clear show the node again on return; so  *)
(* does the timer of a focused search result.                              *)

Customize ==
    /\ Act /\ panel # None /\ panel.node # None
    /\ later' = later \cup {panel.node}
    /\ UNCHANGED <<meta, births, joined, pending, fetches, panel, detailsId, micro, hover, tip,
                   sight, want>>

ShowsLater(n) ==
    /\ Event /\ n \in later
    /\ later' = later \ {n} /\ AskFor(n)
    /\ UNCHANGED <<meta, births, joined, hover, tip, sight>>

-----------------------------------------------------------------------------
DetailsInit ==
    /\ births \in [Host -> {0, 1}]         \* the first view
    /\ meta = [n \in Host |-> IF births[n] = 0 THEN None ELSE [loaded |-> FALSE]]
    /\ joined = {}
    /\ pending = {} /\ fetches = {} /\ panel = None /\ detailsId = None /\ micro = None
    /\ hover = None /\ tip = None /\ focus = None /\ pinned = FALSE /\ keep = {} /\ dimmed = {}
    /\ washed = FALSE
    /\ later = {} /\ want = None /\ acts = 0

DetailsNext ==
    \/ Microtask \/ ClickAway \/ CloseDetails \/ BlurNode \/ Drag \/ Customize
    \/ Restyled \/ Recolor
    \/ \E n \in Host : \/ ClickNode(n) \/ ClickEdge(n) \/ HoverNode(n)
                       \/ NodeComes(n) \/ NodeGoes(n) \/ ShowsLater(n)
                       \/ \E m \in Host : EdgeComes(n, m)
    \/ \E e \in joined : EdgeGoes(e)
    \/ \E f \in fetches : DetailArrives(f) \/ DetailFails(f)

(* The browser empties the microtask queue before anything else. *)
DetailsSpec == DetailsInit /\ [][DetailsNext]_dvars /\ WF_dvars(Microtask)

-----------------------------------------------------------------------------
(* Every variable has its type. *)
DetailsTypeOK ==
    /\ \A n \in Host : meta[n] = None \/ meta[n] \in [loaded : BOOLEAN]
    /\ births \in [Host -> 0 .. MaxActs + 1] /\ pending \subseteq Host
    /\ fetches \subseteq [node : Host, whose : {"panel", "tooltip"}]
    /\ panel = None \/ panel \in [node : Host \cup {None}, birth : 0 .. MaxActs + 1, detail : BOOLEAN]
    /\ {detailsId, micro, hover, focus, want} \subseteq Host \cup {None}
    /\ tip = None \/ tip \in [node : Host, detail : BOOLEAN]
    /\ joined \subseteq {{n, m} : n, m \in Host} /\ keep \subseteq Host /\ dimmed \subseteq Host
    /\ {pinned, washed} \subseteq BOOLEAN /\ later \subseteq Host /\ acts \in 0 .. MaxActs

(* No late answer opens the panel, moves it to another node or closes it: it
   names what the user, or an edit of theirs that returned, asked for last
   ("unless the panel has moved on to another node meanwhile", app.js:3666). *)
PanelFollowsUser == want = (IF panel = None THEN None ELSE panel.node)

(* Whoever asked for it first, a detail that has arrived is in the panel of
   that node, as long as the node has stayed in view since it was rendered. *)
DetailReachesPanel ==
    panel # None /\ panel.node \in InView /\ panel.birth = births[panel.node]
        => panel.detail = meta[panel.node].loaded

(* The fetch guard and the calls agree: a node left pending would never be
   fetched again, and one not pending could be fetched twice
   ("One in-flight fetch per node", app.js:1316). *)
PendingIsInFlight ==
    /\ pending = {f.node : f \in fetches}
    /\ \A f, g \in fetches : f.node = g.node => f = g

(* What is dimmed is what the focus set aside when it was set, also after hosts
   and edges came and went, and a hover never dims over the focus a click has
   pinned; the host in focus stays bright.  A recolouring may have made all
   bright, until something is drawn again. *)
DimmedByFocus ==
    /\ dimmed = IF focus = None \/ washed THEN {} ELSE InView \ keep
    /\ pinned => focus # None
    /\ focus # None => focus \in keep

(* The page comes back to its events: a continuation that fetches again when
   the call is refused at once must not run for ever ("Render what we have
   now, re-render once the detail arrives", app.js:3664). *)
PanelSettles == []<>(micro = None)
=============================================================================

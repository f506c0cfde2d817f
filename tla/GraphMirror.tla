----------------------------- MODULE GraphMirror -----------------------------
(***************************************************************************)
(* The picture in the browser (static/app.js): how a page follows the view *)
(* the server computes for it.  The server sends the difference between    *)
(* its view and what it last sent (buildDelta), or all of it, in chunks    *)
(* when it is large (splitDelta); the page applies a difference at once or *)
(* holds it back (throttledUpdateGraph, updateGraph), and lets the nodes   *)
(* glide to the positions the server gives them.                           *)
(*                                                                         *)
(* A node or an edge is an item; its label, shape, size, role and tier are *)
(* a version, 0 for an item that is not there (of a planet, whose size is  *)
(* frozen, the size is no part).  Positions are a few spots.               *)
(***************************************************************************)
EXTENDS Integers, Sequences, FiniteSets, SequencesExt

CONSTANTS
    Nodes,          \* ids of nodes
    Edges,          \* ids of edges
    Ends,           \* Ends[e]: the two nodes of edge e
    Versions,       \* looks an item can have
    Form,           \* Form[v]: look v without the tier, which the role colours do not tell
    SavedModes,     \* node colour modes the browser may have saved (localStorage)
    Spots,          \* positions a node can have
    ChunkSize,      \* fullChunkSize
    LabelLimit,     \* EDGE_LABEL_MAX_NODES
    MaxWire,        \* bound: messages under way
    MaxChanges,     \* bound: changes of the server's view
    MaxEvents,      \* bound: connections lost, resyncs, themes
    None

Items == Nodes \cup Edges

ASSUME MirrorAssumption ==
    /\ Nodes \cap Edges = {}
    /\ \A e \in Edges : Ends[e] \subseteq Nodes /\ Cardinality(Ends[e]) = 2
    /\ Versions \subseteq Nat \ {0} /\ Spots \subseteq Nat \ {0}
    /\ DOMAIN Form = Versions /\ SavedModes \subseteq {0, 1}
    /\ ChunkSize \in Nat \ {0} /\ LabelLimit \in Nat
    /\ MaxWire \in Nat /\ MaxChanges \in Nat /\ MaxEvents \in Nat
    /\ IsFiniteSet(Nodes) /\ Spots # {}
    /\ \A S \in SUBSET Items : None # S
    /\ \A S \in SUBSET Items, T \in SUBSET Nodes :
          \A m \in [kind : {"delta"}, put : [S -> Versions], at : [T -> Spots], gone : SUBSET Items] :
             None # m

VARIABLES
    view,       \* server: version of each item in this client's view, 0 if absent
    spot,       \* server: position of each node
    base,       \* server: what the client was last sent (lastNodes, lastEdges)
    needsFull,  \* server: the next message is a full one
    linked,     \* the WebSocket is open
    wire,       \* messages under way, in order
    page,       \* the picture: DataSets, meta maps, signatures, positions
    pending,    \* pendingUpdate: the delta the throttle holds
    mode,       \* theme, and node colour mode: 1 for the colours of roles
    lost,       \* a delta was overwritten, cancelled by the first chunk of a full, or
                \* had its picture cleared, while it was held, and no full has
                \* completed since (history)
    changes, events

vars == <<view, spot, base, needsFull, linked, wire, page, pending, mode, lost,
          changes, events>>

Empty == [i \in Items |-> 0]
Present(f) == {i \in DOMAIN f : f[i] # 0}

-----------------------------------------------------------------------------
(* The server's messages.                                                  *)

Message(kind, items, gone) ==
    [kind |-> kind,
     put  |-> [i \in items |-> view[i]],
     at   |-> [n \in items \cap Nodes |-> spot[n]],
     gone |-> gone]

\* splitDelta: chunks of ChunkSize nodes; an edge rides in the first chunk by
\* which both its ends have been sent, removals ride in the first.
Chunks(gone) ==
    LET q       == SetToSeq(Present(view) \cap Nodes)
        n       == (Len(q) + ChunkSize - 1) \div ChunkSize
        sent(i) == {q[k] : k \in {j \in 1 .. Len(q) : j <= i * ChunkSize}}
        edges(i) == {e \in Present(view) \cap Edges : Ends[e] \subseteq sent(i)}
    IN [i \in 1 .. n |->
           Message(IF i = 1 THEN "first" ELSE IF i = n THEN "last" ELSE "chunk",
                   (sent(i) \ sent(i - 1)) \cup (edges(i) \ edges(i - 1)),
                   IF i = 1 THEN gone ELSE {})]

\* buildDelta: what changed and what is gone, or everything.
Messages ==
    LET gone == Present(base) \ Present(view)
        news == {i \in Present(view) : view[i] # base[i]}
    IN IF ~needsFull THEN <<Message("delta", news, gone)>>
       ELSE IF Cardinality(Present(view) \cap Nodes) <= ChunkSize
       THEN <<Message("whole", Present(view), gone)>>
       ELSE Chunks(gone)

-----------------------------------------------------------------------------
(* The page.                                                               *)

Blank == [drawn  |-> Empty,                     \* version in the DataSets
          shade  |-> [i \in Items |-> <<>>],    \* colours of a node, label of an edge
          labels |-> TRUE,                      \* edgeLabelsVisible
          sig    |-> [i \in Items |-> <<>>],    \* lastNodeSig, lastEdgeSig
          meta   |-> Empty,                     \* version last received
          target |-> [n \in Nodes |-> 0],       \* nodeTargetPos
          pos    |-> [n \in Nodes |-> 0],       \* nodeRenderPos
          loop   |-> FALSE,                     \* positionAnimationActive
          sync   |-> None]                      \* fullSyncIds

\* Mutant: a picture in which a node snaps does not start the loop.
PlacedIdle(p, at, snap) ==
    LET new  == {n \in DOMAIN at : p.target[n] # at[n]}
        jump == {n \in new : n \in snap \/ p.pos[n] = 0}
    IN [p EXCEPT !.target = [n \in Nodes |-> IF n \in new THEN at[n] ELSE @[n]],
                 !.pos    = [n \in Nodes |-> IF n \in jump THEN at[n] ELSE @[n]],
                 !.loop   = @ \/ (new # {} /\ jump = {})]

\* applyTargetPosition for the nodes of `at', those of `snap' without easing
\* (a pinned node, the solar layout), and startPositionAnimation if any moves.
Placed(p, at, snap) ==
    LET new   == {n \in DOMAIN at : p.target[n] # at[n]}
        jump  == {n \in new : n \in snap \/ p.pos[n] = 0}
    IN [p EXCEPT !.target = [n \in Nodes |-> IF n \in new THEN at[n] ELSE @[n]],
                 !.pos    = [n \in Nodes |-> IF n \in jump THEN at[n] ELSE @[n]],
                 !.loop   = @ \/ new \ jump # {}]

\* Items taken out of the DataSets, with forgetNodePosition.
Without(p, gone) ==
    [p EXCEPT !.drawn  = [i \in Items |-> IF i \in gone THEN 0 ELSE @[i]],
              !.meta   = [i \in Items |-> IF i \in gone THEN 0 ELSE @[i]],
              !.sig    = [i \in Items |-> IF i \in gone THEN <<>> ELSE @[i]],
              !.target = [n \in Nodes |-> IF n \in gone THEN 0 ELSE @[n]],
              !.pos    = [n \in Nodes |-> IF n \in gone THEN 0 ELSE @[n]]]

\* What the signature of item i tells of look v: in the colours of roles
\* nothing of a node's tier.
Told(i, v) == IF i \in Nodes /\ mode[2] = 1 THEN Form[v] ELSE v

\* Items are redrawn unless their signature is the one last drawn.
Styled(p, put) ==
    LET shade(i) == IF i \in Nodes THEN mode ELSE <<p.labels>>
        sig(i)   == <<Told(i, put[i]), shade(i)>>
        redo     == {i \in DOMAIN put : p.sig[i] # sig(i) \/ p.drawn[i] = 0}
    IN [p EXCEPT !.meta  = [i \in Items |-> IF i \in DOMAIN put THEN put[i] ELSE @[i]],
                 !.drawn = [i \in Items |-> IF i \in redo THEN put[i] ELSE @[i]],
                 !.shade = [i \in Items |-> IF i \in redo THEN shade(i) ELSE @[i]],
                 !.sig   = [i \in Items |-> IF i \in redo THEN sig(i) ELSE @[i]]]

\* maybeApplyPerformanceTier: past the limit every edge loses its label, back
\* under it every edge has its label again; the signatures stay.
Tiered(p) ==
    LET show == Cardinality(Present(p.drawn) \cap Nodes) <= LabelLimit
    IN IF show = p.labels THEN p
       ELSE [p EXCEPT !.labels = show,
                      !.shade  = [i \in Items |-> IF i \in Edges THEN <<show>> ELSE @[i]]]

\* The ids of a full accumulate over its chunks; a delta between two fulls
\* finds none to add to.
Accumulated(sync, msg) ==
    CASE msg.kind = "whole" -> None
      [] msg.kind = "first" -> DOMAIN msg.put
      [] OTHER -> IF sync = None THEN None ELSE sync \cup DOMAIN msg.put

\* Mutant: the page relies on the removals the server lists.
ReconciledByServer(p, msg) == [p EXCEPT !.sync = IF msg.kind = "last" THEN None ELSE @]

\* When a full is complete, what it does not list goes.
Reconciled(p, msg) ==
    IF msg.kind \notin {"whole", "last"} THEN p
    ELSE LET keep == IF p.sync = None THEN DOMAIN msg.put ELSE p.sync
         IN [Without(p, Present(p.drawn) \ keep) EXCEPT !.sync = None]

\* updateGraph.
Updated(p, msg, snap) ==
    LET started == [p EXCEPT !.sync = Accumulated(p.sync, msg)]
        placed  == Placed(Without(started, msg.gone), msg.at, snap)
    IN Tiered(Reconciled(Styled(placed, msg.put), msg))

Init ==
    /\ view = Empty /\ base = Empty /\ needsFull = TRUE
    /\ spot = [n \in Nodes |-> CHOOSE s \in Spots : \A t \in Spots : s <= t]
    /\ linked = TRUE /\ wire = <<>>
    /\ page = Blank
    /\ pending = None
    /\ mode \in {0} \X SavedModes
    /\ lost = FALSE
    /\ changes = 0 /\ events = 0

-----------------------------------------------------------------------------
(* The server.                                                             *)

ServerUnchanged == UNCHANGED <<view, spot, base, needsFull>>

\* An item of the view appears, changes its look or leaves; an edge needs its
\* ends, and goes with them.
Change(i, v) ==
    /\ changes < MaxChanges /\ changes' = changes + 1
    /\ v # view[i]
    /\ i \in Edges => v = 0 \/ \A n \in Ends[i] : view[n] # 0
    /\ view' = [j \in Items |-> IF j = i THEN v
                                ELSE IF v = 0 /\ j \in Edges /\ i \in Ends[j] THEN 0
                                ELSE view[j]]
    /\ UNCHANGED <<spot, base, needsFull, linked, wire, page, pending, mode, lost, events>>

\* A tick that has something to send.
Tick ==
    /\ linked /\ Len(wire) < MaxWire
    /\ needsFull \/ view # base
    /\ wire' = wire \o Messages
    /\ base' = view
    /\ needsFull' = FALSE
    /\ UNCHANGED <<view, spot, linked, page, pending, mode, lost, changes, events>>

\* The layout moves a node that was sent: a binary position frame.
Move(n, s) ==
    /\ changes < MaxChanges /\ changes' = changes + 1
    /\ linked /\ Len(wire) < MaxWire
    /\ base[n] # 0 /\ s # spot[n]
    /\ spot' = [spot EXCEPT ![n] = s]
    /\ wire' = Append(wire, [kind |-> "positions", put |-> <<>>, gone |-> {},
                             at |-> [m \in {n} |-> s]])
    /\ UNCHANGED <<view, base, needsFull, linked, page, pending, mode, lost, events>>

\* A filter, layout or override changes: a full is due.
Resync ==
    /\ events < MaxEvents /\ events' = events + 1
    /\ linked /\ needsFull' = TRUE
    /\ UNCHANGED <<view, spot, base, linked, wire, page, pending, mode, lost, changes>>

-----------------------------------------------------------------------------
(* The connection.                                                         *)

\* It is lost; or left for a replay, which clears the graph and every cache
\* (enterReplayMode, resetGraphCaches) but neither throttle nor fullSyncIds.
Disconnect ==
    /\ events < MaxEvents /\ events' = events + 1
    /\ linked /\ linked' = FALSE
    /\ wire' = <<>>
    /\ \/ UNCHANGED <<page, lost>>
       \/ /\ page' = [Blank EXCEPT !.labels = page.labels, !.loop = page.loop, !.sync = page.sync]
          /\ lost' = (lost \/ pending # None)
    /\ UNCHANGED <<view, spot, base, needsFull, pending, mode, changes>>

\* A new client: nothing sent so far, a full is due.
Connect ==
    /\ ~linked /\ linked' = TRUE
    /\ base' = Empty /\ needsFull' = TRUE
    /\ UNCHANGED <<view, spot, wire, page, pending, mode, lost, changes, events>>

-----------------------------------------------------------------------------
(* The page's callbacks.                                                   *)

\* A full or a chunk of one is applied at once; a full cancels what is held.
ReceiveFull(snap) ==
    LET msg == Head(wire) IN
    /\ msg.kind \in {"whole", "first", "chunk", "last"}
    /\ page' = Updated(page, msg, snap)
    /\ pending' = IF msg.kind \in {"whole", "first"} THEN None ELSE pending
    /\ lost' = (\/ msg.kind = "first" /\ pending # None
                \/ lost /\ msg.kind \notin {"whole", "last"})

\* A delta is applied when the last update is old enough, else held by a
\* timer; the next one takes its place.
ReceiveDelta(snap) ==
    LET msg == Head(wire) IN
    /\ msg.kind = "delta"
    /\ \/ pending = None /\ page' = Updated(page, msg, snap) /\ UNCHANGED <<pending, lost>>
       \/ pending' = msg /\ lost' = (lost \/ pending # None) /\ UNCHANGED page

\* A position frame (applyPositionFrame) bypasses the throttle.
ReceivePositions(snap) ==
    /\ Head(wire).kind = "positions"
    /\ page' = Placed(page, Head(wire).at, snap)
    /\ UNCHANGED <<pending, lost>>

Receive ==
    /\ wire # <<>>
    /\ \E snap \in SUBSET DOMAIN Head(wire).at :
          \/ ReceiveFull(snap) \/ ReceiveDelta(snap) \/ ReceivePositions(snap)
    /\ wire' = Tail(wire)
    /\ ServerUnchanged /\ UNCHANGED <<linked, mode, changes, events>>

\* The throttle's timer.
ThrottleFires ==
    /\ pending # None
    /\ page' = Updated(page, pending, {})
    /\ pending' = None
    /\ ServerUnchanged /\ UNCHANGED <<linked, wire, mode, lost, changes, events>>

\* One frame of stepPositionAnimation: some nodes arrive, all do in a tab
\* that is hidden, and the loop ends when none is on its way.
Gliding(p) == {n \in Nodes : p.target[n] # 0 /\ p.pos[n] # p.target[n]}

Step ==
    /\ page.loop
    /\ \E done \in SUBSET Gliding(page) :
          /\ done # {} \/ Gliding(page) = {}
          /\ page' = [page EXCEPT !.pos  = [n \in Nodes |-> IF n \in done THEN page.target[n] ELSE @[n]],
                                  !.loop = Gliding(page) # done]
    /\ ServerUnchanged
    /\ UNCHANGED <<linked, wire, pending, mode, lost, changes, events>>

\* Mutant: the next delta is trusted to bring the new colours.
RecoloredLater(p, m) == p

\* recolorAllNodes: every host in the new colours, those of the version in the
\* DataSet, the node signatures dropped.  (A collapsed subnet takes a host's
\* colour there until its next delta.)
Recolored(p, m) ==
    [p EXCEPT !.shade = [i \in Items |-> IF i \in Nodes THEN m ELSE @[i]],
              !.sig   = [i \in Items |-> IF i \in Nodes THEN <<>> ELSE @[i]]]

Restyle(m) ==
    /\ events < MaxEvents /\ events' = events + 1
    /\ mode' = m
    /\ page' = Recolored(page, m)
    /\ ServerUnchanged
    /\ UNCHANGED <<linked, wire, pending, lost, changes>>

ApplyTheme       == Restyle(<<1 - mode[1], mode[2]>>)
SetNodeColorMode == Restyle(<<mode[1], 1 - mode[2]>>)

-----------------------------------------------------------------------------
Next ==
    \/ \E i \in Items : \E v \in Versions \cup {0} : Change(i, v)
    \/ \E n \in Nodes : \E s \in Spots : Move(n, s)
    \/ Tick \/ Resync \/ Disconnect \/ Connect
    \/ Receive \/ ThrottleFires \/ Step \/ ApplyTheme \/ SetNodeColorMode

Spec == Init /\ [][Next]_vars

-----------------------------------------------------------------------------
(* Properties.                                                             *)

TypeOK ==
    /\ view \in [Items -> Versions \cup {0}] /\ base \in [Items -> Versions \cup {0}]
    /\ spot \in [Nodes -> Spots]
    /\ needsFull \in BOOLEAN /\ linked \in BOOLEAN /\ lost \in BOOLEAN /\ mode \in {0, 1} \X {0, 1}
    /\ pending # None => pending.kind = "delta"
    /\ \A i \in 1 .. Len(wire) : DOMAIN wire[i].put \subseteq Items
    /\ page.drawn \in [Items -> Versions \cup {0}]
    /\ page.meta \in [Items -> Versions \cup {0}]
    /\ page.target \in [Nodes -> Spots \cup {0}]
    /\ page.pos \in [Nodes -> Spots \cup {0}]
    /\ page.loop \in BOOLEAN
    /\ page.sync # None => page.sync \subseteq Items

Quiet == linked /\ ~needsFull /\ wire = <<>> /\ pending = None

\* Whatever was lost with a connection, left for a replay, cut into chunks or
\* held back: once all is delivered and no delta was overwritten or cleared of
\* its ground in the throttle, the page knows every item as the server believes
\* it does, and draws these items and no other
\* (app.js:2664-2672 and 3062-3067, "nodes that decayed during the disconnect
\* would otherwise linger on screen forever").
Mirrors(p) == p.meta = base /\ Present(p.drawn) = Present(base)

MirrorExact == Quiet /\ ~lost => Mirrors(page)

\* The same without the exception for an overwritten delta: what app.js:2697
\* says of one that arrives while another is held ("a delta is already
\* scheduled; this one coalesces into it").
HeldDeltasCoalesce == Quiet => Mirrors(page)

\* No edge is drawn without its ends, in the middle of a chunked full or on
\* the ruins of an earlier connection (splitDelta, "the client never receives
\* an edge before its nodes"), unless the full cancelled a delta that was held
\* and would have taken the edge.
EdgesHaveEnds ==
    ~lost => \A e \in Edges : page.drawn[e] # 0 => \A n \in Ends[e] : page.drawn[n] # 0

\* No node is left short of its place: while one is, the easing loop runs
\* (startPositionAnimation does nothing while it is active, and the loop stops
\* itself).
GlidersMove == Gliding(page) # {} => page.loop

\* The signature that spares a redraw never spares a needed one: what is drawn
\* has the look last received, a node in the colours of the present theme and
\* mode, an edge with a label as the size of the graph has it.  Of a node's
\* tier this holds where the tier shows, and once the node was drawn in these
\* colours: in the colours of roles a new tier alone draws nothing, and a
\* switch to those of traffic paints the tier last drawn.
LooksCurrent ==
    \A i \in Items : page.drawn[i] # 0
        => /\ page.meta[i] # 0
           /\ page.shade[i] = IF i \in Nodes THEN mode ELSE <<page.labels>>
           /\ IF i \in Edges \/ (mode[2] = 0 /\ page.sig[i] # <<>>)
              THEN page.drawn[i] = page.meta[i]
              ELSE Form[page.drawn[i]] = Form[page.meta[i]]

(* The mirror of the graph is exact and no edge lacks an end (updateGraph);
   every variable has its type. *)
MirrorIsWhole == TypeOK /\ MirrorExact /\ EdgesHaveEnds
=============================================================================

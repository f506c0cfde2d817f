------------------------------ MODULE CosmosScene ------------------------------
(***************************************************************************)
(* The solar-system renderer of the page, CosmosNetwork                    *)
(* (static/cosmosrenderer.js). The library keeps arrays on the GPU that    *)
(* are addressed by the index of a point or of a link; the renderer        *)
(* mirrors the DataSets in body and brings the arrays up to date in three  *)
(* ways: a rebuild after nodes or edges came or went (a debounce of 80     *)
(* ms), colours only (a throttle of 750 ms, or of 50 for the focus), and   *)
(* positions only (the next frame). Indices are those of the last rebuild. *)
(*                                                                         *)
(* The acts are those of app.js, which keeps edges between nodes that are  *)
(* there, of the mouse, and of the raw topology stream.                    *)
(***************************************************************************)
EXTENDS Loops, Integers, Sequences, FiniteSets, FiniteSetsExt, SequencesExt

CONSTANTS
    NodeOrder, EdgeOrder,   \* the ids in the order of sort()
    From, To,       \* ends of an edge
    Pos,            \* places, numbers
    Style,          \* what an item of the DataSet says of looks: colour, and value, a number
    PerCall, MaxParticles, End,     \* 8 and MAX_PARTICLES in the code; steps of a particle
    MaxLabels,      \* MAX_LABELS
    MaxActs,        \* bound: acts of the app, the user and the stream
    None

Nodes == Range(NodeOrder)
Edges == Range(EdgeOrder)

VARIABLES
    body,       \* body.nodes: place, style, opacity below 1, frozen size; None when absent
    links,      \* body.edges: style and opacity; None when absent
    index,      \* indexToId
    gpu,        \* the arrays: pos, colour, size by point, link and linkColour by link
    dirty, styleDirty, posDirty,        \* _dirty, _styleDirty, _posDirty
    topoTimer, styleTimer,              \* the two timers, pending or not
    queued, paint,      \* _redrawQueued; _overlayNeedsPaint or _camMoved
    raw, built,         \* rawMode, _builtOnce
    mouse,      \* selectedNode, hoveredNode, and the set of the rectangle
    near,       \* the zoom shows labels
    labels,     \* nodes and edges whose label element is displayed
    particles, raf,     \* particles and whether their loop is under way
    unpushed,   \* opacity was changed by a path that pushes no colours (history)
    acts

scene == <<body, links, index, gpu>>
flags == <<dirty, styleDirty, posDirty, topoTimer, styleTimer, queued, paint>>
overlay == <<mouse, near, labels>>
trail == <<particles, raf>>
mode == <<raw, built>>
vars == <<scene, flags, overlay, trail, mode, unpushed, acts>>

Act == acts < MaxActs /\ acts' = acts + 1

In(b) == {n \in DOMAIN b : b[n] # None}
Here == In(body)

-----------------------------------------------------------------------------
(* What is uploaded for a body.                                            *)

Colour(x) == [colour |-> x.style.colour, dim |-> x.dim]

Among(order, ids) == Kept(order, {i \in DOMAIN order : order[i] \in ids})

Points(b) == Among(NodeOrder, In(b))
Lines(l, ids) == Among(EdgeOrder, {e \in In(l) : {From[e], To[e]} \subseteq Range(ids)})

Map(s, Op(_)) == [i \in DOMAIN s |-> Op(s[i])]

SizeByValue(b, n) ==
    LET vs == {b[m].style.value : m \in In(b)} IN
    IF Max(vs) = Min(vs) THEN 12 ELSE 8 + (18 * (b[n].style.value - Min(vs))) \div (Max(vs) - Min(vs))

ThawedSize(b, n) == SizeByValue(b, n)
FrozenSize(b, n) == IF b[n].frozen # None THEN b[n].frozen ELSE SizeByValue(b, n)

Arrays(b, l) ==
    LET ids == Points(b)
        ls == Lines(l, ids) IN
    [pos |-> Map(ids, LAMBDA n : b[n].pos),
     colour |-> Map(ids, LAMBDA n : Colour(b[n])),
     size |-> Map(ids, LAMBDA n : FrozenSize(b, n)),
     link |-> ls, linkColour |-> Map(ls, LAMBDA e : Colour(l[e]))]

-----------------------------------------------------------------------------
(* Labels: of the largest nodes that are drawn, and of the links of the    *)
(* node that is selected or else hovered.                                  *)

Largest(b, ns) ==
    CHOOSE top \in SUBSET ns :
        /\ Cardinality(top) = Min({MaxLabels, Cardinality(ns)})
        /\ \A n \in top, o \in ns \ top : FrozenSize(b, n) >= FrozenSize(b, o)

(* _adjacency is that of the last rebuild. *)
Pills(b, l, g, focus) ==
    {e \in Range(g.link) : /\ focus \in {From[e], To[e]} /\ l[e] # None
                           /\ b[From[e]] # None /\ b[To[e]] # None}

UpdateLabels ==
    labels' = IF near'
              THEN Largest(body', {n \in Range(index') : body'[n] # None})
                   \cup Pills(body', links', gpu', IF mouse'.selected # None THEN mouse'.selected
                                                  ELSE mouse'.hovered)
              ELSE {}

-----------------------------------------------------------------------------
(* DataSet events: the body follows at once, the GPU later. Every arrival  *)
(* and removal starts the wait for a rebuild again.                        *)

TopologyMarked == dirty' = TRUE /\ topoTimer' = TRUE /\ UNCHANGED <<styleDirty, styleTimer>>
StyleMarked == styleDirty' = TRUE /\ styleTimer' = TRUE /\ UNCHANGED <<dirty, topoTimer>>

Marks(event) == IF event \in {"add", "remove"} THEN TopologyMarked ELSE StyleMarked    \* _markDirty

DataSetEvent == UNCHANGED <<index, gpu, posDirty, queued, paint, overlay, trail, mode, unpushed>>

AddNode(n, p, s) ==
    /\ Act /\ body[n] = None
    /\ body' = [body EXCEPT ![n] = [pos |-> p, style |-> s, dim |-> FALSE, frozen |-> None]]
    /\ Marks("add") /\ DataSetEvent /\ UNCHANGED links

RemoveNode(n) ==                \* and its edges, in the same turn
    /\ Act /\ n \in Here
    /\ body' = [body EXCEPT ![n] = None]
    /\ links' = [e \in Edges |-> IF n \in {From[e], To[e]} THEN None ELSE links[e]]
    /\ Marks("remove") /\ DataSetEvent

AddEdge(e, s) ==
    /\ Act /\ links[e] = None /\ {From[e], To[e]} \subseteq Here
    /\ links' = [links EXCEPT ![e] = [style |-> s, dim |-> FALSE]]
    /\ Marks("add") /\ DataSetEvent /\ UNCHANGED body

RemoveEdge(e) ==
    /\ Act /\ links[e] # None
    /\ links' = [links EXCEPT ![e] = None]
    /\ Marks("remove") /\ DataSetEvent /\ UNCHANGED body

Restyle(n, s) ==                \* an update: the place is not taken over
    /\ Act /\ n \in Here /\ s # body[n].style
    /\ body' = [body EXCEPT ![n].style = s]
    /\ Marks("update") /\ DataSetEvent /\ UNCHANGED links

RestyleEdge(e, s) ==            \* opacity is kept
    /\ Act /\ links[e] # None /\ s # links[e].style
    /\ links' = [links EXCEPT ![e].style = s]
    /\ Marks("update") /\ DataSetEvent /\ UNCHANGED body

-----------------------------------------------------------------------------
(* The app moves nodes and dims them without a DataSet.                    *)

Redraw == queued' = (queued \/ built)

MarkSceneDirty == posDirty' = TRUE

Move(n, p) ==                   \* easing and snaps: markSceneDirty('nodes')
    /\ Act /\ n \in Here /\ p # body[n].pos
    /\ body' = [body EXCEPT ![n].pos = p]
    /\ MarkSceneDirty /\ Redraw
    /\ UNCHANGED <<links, index, gpu, dirty, styleDirty, topoTimer, styleTimer, paint>>
    /\ UNCHANGED <<overlay, trail, mode, unpushed>>

Dims(ns) ==
    /\ body' = [n \in Nodes |-> IF body[n] = None THEN None ELSE [body[n] EXCEPT !.dim = n \notin ns]]
    /\ links' = [e \in Edges |-> IF links[e] = None THEN None
                                ELSE [links[e] EXCEPT !.dim = ~({From[e], To[e]} \subseteq ns)]]

Focus(ns) ==                    \* applyFocusDim: markSceneDirty('all')
    /\ Act /\ Dims(ns)
    /\ MarkSceneDirty /\ StyleMarked /\ Redraw
    /\ UNCHANGED <<index, gpu, paint, overlay, trail, mode, unpushed>>

(* _applyRectSelection marks the style and redraws; neither pushes colours. *)
RectSelect(ns) ==
    /\ Act /\ ns \subseteq Range(index)
    /\ Dims(IF ns = {} THEN Nodes ELSE ns)
    /\ mouse' = [mouse EXCEPT !.rect = ns]
    /\ styleDirty' = TRUE /\ Redraw /\ unpushed' = TRUE
    /\ UNCHANGED <<index, gpu, dirty, posDirty, topoTimer, styleTimer, paint>>
    /\ UNCHANGED <<near, labels, trail, mode>>

Click(i) ==                     \* 0: beside every point; ends the rectangle
    /\ Act
    /\ mouse' = [mouse EXCEPT !.selected = IF i = 0 THEN None ELSE index[i], !.rect = {}]
    /\ IF mouse.rect # {}
       THEN Dims(Nodes) /\ styleDirty' = TRUE /\ Redraw /\ unpushed' = TRUE
       ELSE UNCHANGED <<body, links, styleDirty, queued, unpushed>>
    /\ paint' = TRUE
    /\ UNCHANGED <<index, gpu, near>> /\ UpdateLabels
    /\ UNCHANGED <<dirty, posDirty, topoTimer, styleTimer, trail, mode>>

Hover(i) ==                     \* 0: the mouse leaves the points
    /\ Act
    /\ mouse' = [mouse EXCEPT !.hovered = IF i = 0 THEN None ELSE index[i]]
    /\ UNCHANGED <<scene, near>> /\ UpdateLabels
    /\ UNCHANGED <<flags, trail, mode, unpushed>>

Zoom ==
    /\ Act /\ near' = ~near /\ paint' = TRUE /\ Redraw
    /\ UNCHANGED <<scene, dirty, styleDirty, posDirty, topoTimer, styleTimer>>
    /\ UNCHANGED <<mouse, labels, trail, mode, unpushed>>

-----------------------------------------------------------------------------
(* The three ways to the GPU.                                              *)

Rebuild ==
    /\ dirty' = FALSE /\ styleDirty' = FALSE
    /\ index' = Points(body) /\ gpu' = Arrays(body, links)
    /\ body' = [n \in Nodes |-> IF body[n] = None THEN None
                               ELSE [body[n] EXCEPT !.frozen = FrozenSize(body, n)]]
    /\ built' = (built \/ Here # {})
    /\ unpushed' = FALSE
    /\ UNCHANGED <<links, near, mouse>> /\ UpdateLabels

TopoFires ==
    /\ topoTimer /\ topoTimer' = FALSE
    /\ IF dirty /\ ~raw THEN Rebuild
       ELSE UNCHANGED <<scene, dirty, styleDirty, built, unpushed, overlay>>
    /\ UNCHANGED <<posDirty, styleTimer, queued, paint, trail, raw, acts>>

(* _pushColorsOnly: the points of the index, and the edges of the body whose
   ends have an index. *)
PointColours == Map(index, LAMBDA n : IF body[n] = None THEN None ELSE Colour(body[n]))

LinkColours == Map(Lines(links, index), LAMBDA e : Colour(links[e]))

PushColours ==
    /\ styleDirty' = FALSE
    /\ IF index = <<>> THEN UNCHANGED <<gpu, unpushed>>
       ELSE /\ gpu' = [gpu EXCEPT !.colour = PointColours, !.linkColour = LinkColours]
            /\ unpushed' = FALSE

StyleDueUnguarded == styleDirty
StyleDue == styleDirty /\ ~dirty

StyleFires ==
    /\ styleTimer /\ styleTimer' = FALSE
    /\ IF StyleDue /\ ~raw /\ built THEN PushColours ELSE UNCHANGED <<gpu, styleDirty, unpushed>>
    /\ UNCHANGED <<body, links, index, dirty, posDirty, topoTimer, queued, paint>>
    /\ UNCHANGED <<overlay, trail, mode, acts>>

(* The next frame: positions when they are marked, of the nodes that are
   still there; the labels when the points moved or the camera did. *)
Frame ==
    /\ queued /\ queued' = FALSE /\ posDirty' = FALSE
    /\ LET at == [i \in DOMAIN index |-> IF body[index[i]] = None THEN gpu.pos[i] ELSE body[index[i]].pos]
           moved == posDirty /\ ~raw /\ built /\ at # gpu.pos IN
       /\ gpu' = IF moved THEN [gpu EXCEPT !.pos = at] ELSE gpu
       /\ UNCHANGED <<body, links, index, near, mouse>>
       /\ IF moved \/ paint THEN UpdateLabels ELSE UNCHANGED labels
       /\ paint' = (moved /\ paint)
    /\ UNCHANGED <<dirty, styleDirty, topoTimer, styleTimer, trail, mode, unpushed, acts>>

(* setRawTopology: the arrays are those of the frame from now on; places are
   kept by the index of the frame before. *)
SetRawTopology(ns) ==
    LET ids == Among(NodeOrder, ns)
        at(n) == IF \E i \in DOMAIN index : index[i] = n
                 THEN gpu.pos[CHOOSE i \in DOMAIN index : index[i] = n] ELSE Min(Pos)
        ls == Lines([e \in Edges |-> Min({s.value : s \in Style})], ids) IN
    /\ Act /\ raw' = TRUE /\ index' = ids /\ built' = (built \/ ns # {})
    /\ body' = [n \in Nodes |->
           IF n \notin ns THEN body[n]
           ELSE IF body[n] # None THEN [body[n] EXCEPT !.pos = at(n)]
           ELSE [pos |-> at(n), style |-> CHOOSE s \in Style : TRUE, dim |-> FALSE, frozen |-> None]]
    /\ gpu' = [pos |-> Map(ids, at), colour |-> Map(ids, LAMBDA n : "tier"), size |-> Map(ids, LAMBDA n : 6),
               link |-> ls, linkColour |-> Map(ls, LAMBDA e : "protocol")]
    /\ UNCHANGED <<links, near, flags, mouse, trail, unpushed>>
    /\ UpdateLabels

-----------------------------------------------------------------------------
(* Particles.                                                              *)

Capped(ps) == IF Len(ps) > MaxParticles THEN SubSeq(ps, Len(ps) - MaxParticles + 1, Len(ps)) ELSE ps

Spawn(flows) ==
    LET live == Among(flows, {e \in Edges : body[From[e]] # None /\ body[To[e]] # None})
        new == SubSeq(live, 1, Min({PerCall, Len(live)})) IN
    /\ Act /\ ~raw
    /\ particles' = Capped(particles \o Map(new, LAMBDA e : [edge |-> e, progress |-> 0]))
    /\ raf' = TRUE
    /\ UNCHANGED <<scene, flags, overlay, mode, unpushed>>

ParticleFrame ==
    /\ raf
    /\ particles' = Kept(Map(particles, LAMBDA p : [p EXCEPT !.progress = @ + 1]),
                         {i \in DOMAIN particles : LET p == particles[i] IN
                              /\ p.progress + 1 < End
                              /\ body[From[p.edge]] # None /\ body[To[p.edge]] # None})
    /\ raf' = (particles' # <<>>)
    /\ UNCHANGED <<scene, flags, overlay, mode, unpushed, acts>>

-----------------------------------------------------------------------------
Init ==
    /\ body = [n \in Nodes |-> None] /\ links = [e \in Edges |-> None] /\ index = <<>>
    /\ gpu = [pos |-> <<>>, colour |-> <<>>, size |-> <<>>, link |-> <<>>, linkColour |-> <<>>]
    /\ dirty = FALSE /\ styleDirty = FALSE /\ posDirty = FALSE /\ topoTimer = FALSE
    /\ styleTimer = FALSE /\ queued = FALSE /\ paint = FALSE /\ raw = FALSE /\ built = FALSE
    /\ mouse = [selected |-> None, hovered |-> None, rect |-> {}]
    /\ near = TRUE /\ labels = {} /\ particles = <<>> /\ raf = FALSE
    /\ unpushed = FALSE /\ acts = 0

Next ==
    \/ \E n \in Nodes, p \in Pos, s \in Style : AddNode(n, p, s)
    \/ \E n \in Nodes : RemoveNode(n)
    \/ \E e \in Edges, s \in Style : AddEdge(e, s) \/ RestyleEdge(e, s)
    \/ \E e \in Edges : RemoveEdge(e)
    \/ \E n \in Nodes, s \in Style : Restyle(n, s)
    \/ \E n \in Nodes, p \in Pos : Move(n, p)
    \/ \E ns \in SUBSET Nodes : Focus(ns) \/ RectSelect(ns) \/ SetRawTopology(ns)
    \/ \E i \in 0 .. Len(index) : Click(i) \/ Hover(i)
    \/ Zoom \/ TopoFires \/ StyleFires \/ Frame
    \/ \E e \in Edges, k \in 1 .. PerCall + 1 : Spawn([i \in 1 .. k |-> e])
    \/ ParticleFrame

Spec == Init /\ [][Next]_vars

-----------------------------------------------------------------------------
(* Every variable has its type. *)
TypeOK ==
    /\ \A n \in Nodes : body[n] # None => body[n].pos \in Pos /\ body[n].style \in Style
    /\ \A e \in Edges : links[e] # None => links[e].style \in Style
    /\ Range(index) \subseteq Nodes /\ Range(gpu.link) \subseteq Edges
    /\ \A f \in {dirty, styleDirty, posDirty, topoTimer, styleTimer, queued, paint, raw, built} :
           f \in BOOLEAN
    /\ labels \subseteq Nodes \cup Edges
    /\ \A i \in DOMAIN particles : particles[i] \in [edge : Edges, progress : 0 .. End - 1]

(* When no rebuild is awaited, whatever came and went in whatever order, the
   points and links on the GPU, the ids a click resolves to and the labels on
   the screen are of the nodes and edges there are. *)
TopologyDrawn ==
    ~topoTimer /\ ~raw => /\ Range(index) = Here /\ Range(gpu.link) = In(links)
                         /\ labels \subseteq Here \cup In(links)

(* The arrays always fit each other: a timer of one kind never uploads colours
   for links or points that the rebuild of the other kind has not uploaded. *)
ArraysFit ==
    /\ Len(gpu.pos) = Len(index) /\ Len(gpu.colour) = Len(index) /\ Len(gpu.size) = Len(index)
    /\ Len(gpu.linkColour) = Len(gpu.link)

(* When neither timer is pending, every point and link has the colour and the
   opacity of its body, unless the rectangle changed the opacity: that waits
   for an event that brings colours. *)
LooksSettle ==
    ~styleTimer /\ ~topoTimer /\ ~raw /\ ~unpushed =>
        /\ gpu.colour = Map(index, LAMBDA n : Colour(body[n]))
        /\ gpu.linkColour = Map(gpu.link, LAMBDA e : Colour(links[e]))

(* When no frame is due, every point is where the app has moved its node. *)
PositionsFollow ==
    ~queued /\ ~topoTimer /\ ~raw => gpu.pos = Map(index, LAMBDA n : body[n].pos)

(* Traffic never changes the radius of a planet that stays: not its own, and
   not that of another one ("sizes stay frozen", cosmosrenderer.js:306). *)
SizesKept ==
    \A i \in DOMAIN index, j \in DOMAIN index' :
        (index[i] = index'[j] /\ ~raw' /\ body[index[i]] # None /\ body[index[i]].frozen # None)
            => gpu'.size[j] = gpu.size[i]

(* Particles never stand still, and there are at most MAX_PARTICLES. *)
ParticlesRun == Len(particles) <= MaxParticles /\ (particles # <<>> => raf)
=============================================================================

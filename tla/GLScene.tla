-------------------------------- MODULE GLScene --------------------------------
(***************************************************************************)
(* The default renderer of the page, GLNetwork (static/glrenderer.js): the *)
(* bodies it mirrors from the DataSets, the instance buffers it rebuilds   *)
(* only when a dirty flag asks for it, the frames it queues, the camera    *)
(* and its animation, the fit that waits for the layout to settle, the     *)
(* flow particles, the grid that hits are looked up in, and the labels,    *)
(* drawn from LabelAtlas.                                                  *)
(*                                                                         *)
(* Turn is one turn of app.js (GraphMirror): it changes the DataSets and   *)
(* keeps edges between nodes that are there; everything between two frames *)
(* happens before the next one is drawn.                                   *)
(***************************************************************************)
EXTENDS LabelAtlas, Loops, Sequences, FiniteSets, FiniteSetsExt, SequencesExt

CONSTANTS
    Node, Edge,
    From, To,       \* ends of an edge
    Pos,            \* places, by the column of the hit grid they are in
    Value,          \* traffic a node's size is taken from, numbers
    LabelOf,        \* LabelOf[n][v]: the text of a node
    EdgeLabel,      \* EdgeLabel[e]: the text of an edge
    Gap, End,       \* PARTICLE_EDGE_GAP and the whole edge, in steps of a particle
    MaxParticles,   \* MAX_PARTICLES
    Caps,           \* what _particleCap gives, by the size of the graph and the last frame
    MaxChecks,      \* polls of the fit before it gives up (40 in the code)
    MaxActs,        \* bound: turns of the app and acts of the user
    None

ASSUME SceneAssumption ==
    /\ From \in [Edge -> Node] /\ To \in [Edge -> Node]
    /\ Pos \subseteq Nat /\ Value \subseteq Nat /\ Value # {}
    /\ LabelOf \in [Node -> [Value -> Text]] /\ EdgeLabel \in [Edge -> Text]
    /\ {Gap, End, MaxParticles, MaxChecks, MaxActs} \subseteq Nat /\ End > 0
    /\ Caps \subseteq 0 .. MaxParticles
    /\ None \notin [pos : Pos, value : Value]
    /\ IsFiniteSet(Node) /\ IsFiniteSet(Edge)

VARIABLES
    body,       \* body.nodes: place and value; None when absent
    links,      \* body.edges
    range,      \* fixedValueRange, None when sizes follow the view
    size,       \* options.size
    dirty,      \* which of _nodesDirty, _edgesDirty, _hitDirty are set
    queued,     \* drawQueued
    nodeBuf,    \* the node instances: node -> place, size, selected; and the dots
    edgeBuf,    \* the edge instances: edge -> ends' places; and the scale
    grid,       \* _hitGrid: node -> place
    selected,   \* selectedNode
    scale,      \* camera.scale, 1 or 2
    anim,       \* camera animation: who began it, the scale it goes to; None
    userMoved,  \* _userMovedCamera
    fitting,    \* the poll of _autoFitUntilSettled: last signature, stable, checks
    fitted,     \* _didInitialFit
    parts,      \* particles: edge and progress
    bare,       \* node -> buffers that do not know where the node has been
                \* moved to since they were built (history)
    acts

bodies == <<body, links, range, size, selected>>
drawn == <<nodeBuf, edgeBuf, grid, atlas>>
camera == <<scale, anim, userMoved, fitting, fitted>>
vars == <<bodies, drawn, camera, dirty, queued, parts, bare, acts>>

Act == acts < MaxActs /\ acts' = acts + 1

Here == {n \in Node : body[n] # None}

-----------------------------------------------------------------------------
(* _recomputeSizes: 20 to 30 by the value, over the view or a fixed range. *)

Spread(b, r) ==
    LET vs == {b[n].value : n \in {m \in Node : b[m] # None}} IN
    IF r # None THEN r ELSE IF vs = {} THEN [min |-> 0, max |-> 0]
    ELSE [min |-> Min(vs), max |-> Max(vs)]

Clamp(i, lo, hi) == IF i < lo THEN lo ELSE IF i > hi THEN hi ELSE i

SizeOf(v, r) ==
    IF r.max <= r.min THEN 20
    ELSE 20 + (10 * Clamp(v - r.min, 0, r.max - r.min)) \div (r.max - r.min)

Sizes(b, r) == [n \in Node |-> IF b[n] = None THEN 0 ELSE SizeOf(b[n].value, Spread(b, r))]

-----------------------------------------------------------------------------
(* Dirty flags. Moving a node without a flag leaves the buffers behind.    *)

All == {"nodes", "edges", "hit"}

MarksAlone(kind) == IF kind = "edges" THEN {"edges"} ELSE {"nodes", "hit"}
Marks(kind) == IF kind = "edges" THEN {"edges"} ELSE All    \* edge instances hold the ends' places

MarkSceneDirty(kind) == dirty' = dirty \cup Marks(kind) /\ queued' = TRUE

NodeEventMarks == {"nodes", "hit"}      \* _onNodesEvent
EdgeEventMarks == {"edges"}             \* _onEdgesEvent

Left(ns, marked) == [n \in Node |-> IF n \in ns THEN bare[n] \cup (All \ marked) ELSE bare[n]]

-----------------------------------------------------------------------------
(* A turn of the app: nodes and edges come, go or are restyled.  A restyle  *)
(* writes the place of the DataSet's item over that of the body: the place  *)
(* the node had at its last full restyle, which for a recolouring may not   *)
(* be the one it has eased or was dragged to since.                         *)

(* fit: near enough for the edge labels when the nodes are in one place. *)
FitScale(b) == IF Cardinality({b[n].pos : n \in {m \in Node : b[m] # None}}) = 1 THEN 2 ELSE 1

(* The turn in which nodes first appear fits the camera to them and starts
   to wait for the layout to settle. *)
FirstFit(b) ==
    IF ~fitted /\ \E n \in Node : b[n] # None
    THEN /\ fitted' = TRUE /\ userMoved' = FALSE /\ anim' = None
         /\ scale' = FitScale(b)
         /\ fitting' = [sig |-> None, stable |-> 0, checks |-> 0]
    ELSE UNCHANGED <<fitted, userMoved, anim, scale, fitting>>

LeastOf(b) == LET ns == {n \in Node : b[n] # None} IN
    [pos |-> Min({b[n].pos : n \in ns}), value |-> Min({b[n].value : n \in ns})]

Turn ==
    \E b \in [Node -> [pos : Pos, value : Value] \cup {None}], l \in SUBSET Edge :
        LET moved == {n \in Here : b[n] # None /\ b[n].pos # body[n].pos}
            nodesEvent == b # body
            edgesEvent == l # links
            marks == (IF nodesEvent THEN NodeEventMarks ELSE {}) \cup
                     (IF edgesEvent THEN EdgeEventMarks ELSE {}) IN
        /\ Act
        /\ nodesEvent \/ edgesEvent
        \* bounds: the first picture starts at the least place and value, then one node in a
        \* turn, and nothing else in one that moves it
        /\ IF Here = {} THEN b # body => LeastOf(b) = [pos |-> Min(Pos), value |-> Min(Value)]
           ELSE Cardinality({n \in Node : b[n] # body[n]}) <= 1
        /\ moved # {} => l = links /\ \A n \in moved : b[n].value = body[n].value
        /\ \A e \in l : b[From[e]] # None /\ b[To[e]] # None
        /\ body' = b /\ links' = l
        /\ size' = IF nodesEvent THEN Sizes(b, range) ELSE size
        /\ dirty' = dirty \cup marks /\ queued' = TRUE
        /\ bare' = [n \in Node |-> IF b[n] = None THEN {} ELSE Left(moved, marks)[n]]
        /\ FirstFit(b)
        /\ UNCHANGED <<range, selected, drawn, parts>>

(* setValueRange: a replay sizes its nodes over the whole file. *)
SetValueRange(r) ==
    /\ Act /\ r # range
    /\ range' = r /\ size' = Sizes(body, r)
    /\ dirty' = dirty \cup {"nodes"} /\ queued' = TRUE
    /\ UNCHANGED <<body, links, selected, drawn, camera, parts, bare>>

(* A step of the easing loop (markSceneDirty), or a snap of a pinned node or
   of the solar layout (redraw alone). *)
Ease(n, p) ==
    /\ Act /\ n \in Here /\ p # body[n].pos
    /\ body' = [body EXCEPT ![n].pos = p]
    /\ MarkSceneDirty("nodes")
    /\ UNCHANGED <<links, range, size, selected, drawn, camera, parts, bare>>

Snap(n, p) ==                   \* and a drag of the node with the mouse
    /\ Act /\ n \in Here /\ p # body[n].pos
    /\ body' = [body EXCEPT ![n].pos = p]
    /\ queued' = TRUE /\ bare' = Left({n}, {})
    /\ UNCHANGED <<links, range, size, selected, drawn, camera, dirty, parts>>

Select(n) ==                    \* selectNodes, a click on a node or beside one
    /\ Act /\ n # selected /\ (n \in Here \/ n = None)
    /\ selected' = n /\ queued' = TRUE
    /\ UNCHANGED <<body, links, range, size, drawn, camera, dirty, parts, bare>>

-----------------------------------------------------------------------------
(* The camera.                                                             *)

UserMoves ==                    \* wheel, drag of the background, keys
    /\ Act
    /\ scale' \in {1, 2} /\ anim' = None /\ userMoved' = TRUE /\ queued' = TRUE
    /\ UNCHANGED <<bodies, drawn, fitting, fitted, dirty, parts, bare>>

PageMoves(by) ==                \* _moveCamera with an animation: the fit
    /\ anim' = [by |-> by, to |-> FitScale(body)] /\ queued' = TRUE
    /\ UNCHANGED scale

Fit ==                          \* the Fit button
    /\ Act /\ Here # {} /\ PageMoves("page")
    /\ UNCHANGED <<bodies, drawn, userMoved, fitting, fitted, dirty, parts, bare>>

Signature == LET ps == {body[n].pos : n \in Here} IN <<Min(ps), Max(ps)>>     \* the bounding box

GivesUpLate == fitting.checks + 1 > MaxChecks          \* without the test of _userMovedCamera
GivesUp == userMoved \/ fitting.checks + 1 > MaxChecks

(* _autoFitUntilSettled: every half second, until the bounding box has been
   the same twice. *)
FitPoll ==
    /\ fitting # None
    /\ LET next == [fitting EXCEPT !.checks = @ + 1] IN
       IF GivesUp THEN fitting' = None /\ UNCHANGED <<scale, anim, queued>>
       ELSE IF Here = {} THEN fitting' = next /\ UNCHANGED <<scale, anim, queued>>
       ELSE IF Signature # fitting.sig
            THEN fitting' = [sig |-> Signature, stable |-> 0, checks |-> next.checks]
                 /\ UNCHANGED <<scale, anim, queued>>
       ELSE IF fitting.stable = 0
            THEN fitting' = [next EXCEPT !.stable = 1] /\ UNCHANGED <<scale, anim, queued>>
       ELSE fitting' = None /\ PageMoves("auto")
    /\ UNCHANGED <<bodies, drawn, userMoved, fitted, dirty, parts, bare, acts>>

-----------------------------------------------------------------------------
(* Flow particles.                                                         *)

TooSoon(ps, e) == \E i \in DOMAIN ps : ps[i].edge = e /\ ps[i].progress < Gap

NewPart(e) == [edge |-> e, progress |-> 0]

CappedByOne(ps, cap) == IF Len(ps) > cap THEN Tail(ps) ELSE ps         \* only the oldest goes
Capped(ps, cap) == IF Len(ps) > cap THEN SubSeq(ps, Len(ps) - cap + 1, Len(ps)) ELSE ps

Entered(ps, e) == IF body[From[e]] = None \/ body[To[e]] = None \/ TooSoon(ps, e)
                  THEN ps ELSE Append(ps, NewPart(e))

EnteredAll(ps, flows) ==
    LET after[i \in 0 .. Len(flows)] == IF i = 0 THEN ps ELSE Entered(after[i - 1], flows[i])
    IN after[Len(flows)]

(* spawnParticles: the flows of a tick, in order. *)
Spawn(flows) ==
    /\ Act
    /\ \E cap \in Caps : parts' = Capped(EnteredAll(parts, flows), cap)
    /\ queued' = TRUE
    /\ UNCHANGED <<bodies, drawn, camera, dirty, bare>>

Stepped(ps) == Kept([i \in DOMAIN ps |-> [ps[i] EXCEPT !.progress = @ + 1]],
                    {i \in DOMAIN ps : ps[i].progress + 1 < End})

-----------------------------------------------------------------------------
(* A frame.                                                                *)

(* Edges are rebuilt when they are dirty or the scale has changed, nodes
   when they are dirty or particles are under way. *)
EdgeInstances == [ends |-> [e \in {x \in links : body[From[x]] # None /\ body[To[x]] # None} |->
                                <<body[From[e]].pos, body[To[e]].pos>>],
                  scale |-> scale']

RebuildEdges == links # {} /\ ("edges" \in dirty \/ scale' # edgeBuf.scale)

NodeInstances(ps) ==
    [of |-> [n \in Here |-> [pos |-> body[n].pos, size |-> size[n], sel |-> n = selected]],
     dots |-> {ps[i] : i \in {j \in DOMAIN ps : body[From[ps[j].edge]] # None
                                               /\ body[To[ps[j].edge]] # None}}]

RebuildNodes(ps) == (Here # {} \/ ps # <<>>) /\ ("nodes" \in dirty \/ ps # <<>>)

(* The labels that fit the camera: all of the nodes and, near enough, of the
   edges; each asks the atlas for its sprite. *)
LabelTexts == SetToSeq({LabelOf[n][body[n].value] : n \in Here}
                       \cup (IF scale' = 2 THEN {EdgeLabel[e] : e \in links} ELSE {}))

Draw ==
    /\ queued
    /\ \/ anim = None /\ UNCHANGED <<anim, scale>>
       \/ anim # None /\ scale' \in {scale, anim.to} /\ UNCHANGED anim    \* on its way
       \/ anim # None /\ scale' = anim.to /\ anim' = None
    /\ LET ps == Stepped(parts) IN
       /\ parts' = ps
       /\ edgeBuf' = IF RebuildEdges THEN EdgeInstances ELSE edgeBuf
       /\ nodeBuf' = IF RebuildNodes(ps) THEN NodeInstances(ps) ELSE nodeBuf
       /\ dirty' = dirty \ ((IF RebuildEdges THEN {"edges"} ELSE {}) \cup
                            (IF RebuildNodes(ps) THEN {"nodes"} ELSE {}))
       /\ bare' = [n \in Node |-> bare[n] \ ((IF RebuildEdges THEN {"edges"} ELSE {}) \cup
                                             (IF RebuildNodes(ps) THEN {"nodes"} ELSE {}))]
       /\ queued' = (anim # None \/ ps # <<>>)
    /\ atlas' = AskedAll(atlas, LabelTexts)
    /\ UNCHANGED <<bodies, grid, userMoved, fitting, fitted, acts>>

(* The mouse looks a node up in the grid, which is built when it is dirty. *)
Hover ==
    /\ "hit" \in dirty
    /\ grid' = [n \in Here |-> body[n].pos]
    /\ dirty' = dirty \ {"hit"}
    /\ bare' = [n \in Node |-> bare[n] \ {"hit"}]
    /\ UNCHANGED <<bodies, nodeBuf, edgeBuf, atlas, camera, queued, parts, acts>>

(* _hitNode: the nodes at p whose cell is that of p or touches it. *)
HitsAt(p) == {n \in Here : /\ body[n].pos = p /\ n \in DOMAIN grid
                           /\ grid[n] \in {q \in Pos : q <= p + 1 /\ p <= q + 1}}

-----------------------------------------------------------------------------
Init ==
    /\ AtlasInit
    /\ body = [n \in Node |-> None] /\ links = {} /\ range = None
    /\ size = [n \in Node |-> 0] /\ dirty = All /\ queued = TRUE
    /\ nodeBuf = [of |-> <<>>, dots |-> {}] /\ edgeBuf = [ends |-> <<>>, scale |-> 1]
    /\ grid = <<>> /\ selected = None /\ scale = 1 /\ anim = None
    /\ userMoved = FALSE /\ fitting = None /\ fitted = FALSE /\ parts = <<>>
    /\ bare = [n \in Node |-> {}] /\ acts = 0

Next ==
    \/ Turn
    \/ \E r \in {None, [min |-> Min(Value), max |-> Max(Value)]} : SetValueRange(r)
    \/ \E n \in Node, p \in Pos : Ease(n, p) \/ Snap(n, p)
    \/ \E n \in Node \cup {None} : Select(n)
    \/ UserMoves \/ Fit \/ FitPoll
    \/ \E e, f \in Edge : Spawn(<<e, f>>)
    \/ Draw \/ Hover

Spec == Init /\ [][Next]_vars

-----------------------------------------------------------------------------
(* Every variable has its type. *)
TypeOK ==
    /\ \A n \in Node : body[n] = None \/ body[n] \in [pos : Pos, value : Value]
    /\ links \subseteq Edge /\ dirty \subseteq All /\ queued \in BOOLEAN
    /\ selected \in Node \cup {None} /\ scale \in {1, 2} /\ userMoved \in BOOLEAN
    /\ fitting # None => fitting.checks \in 0 .. MaxChecks /\ fitting.stable \in {0, 1}
    /\ \A i \in DOMAIN parts : parts[i] \in [edge : Edge, progress : 0 .. End - 1]

(* When no frame is due, the instances that were left as they are ("skip full
   instance rebuild on camera-only frames", glrenderer.js:318) are what the
   bodies say: the nodes and their sizes, the edges at the scale of the camera
   and at the places of their ends, the grid. Only a node that was moved by a
   bare redraw, the edges of one that a restyle put elsewhere, or the highlight
   of a selection may lag behind. *)
FrameIsCurrent ==
    ~queued =>
        /\ Here # {} => DOMAIN nodeBuf.of = Here
        /\ \A n \in Here : /\ nodeBuf.of[n].size = SizeOf(body[n].value, Spread(body, range))
                           /\ "nodes" \in bare[n] \/ nodeBuf.of[n].pos = body[n].pos
        /\ links # {} => edgeBuf.scale = scale /\ DOMAIN edgeBuf.ends = links
        /\ \A e \in links : \A n \in {From[e], To[e]} :
               "edges" \in bare[n] \/ body[n].pos \in Range(edgeBuf.ends[e])

(* A node that can be seen can be hit, unless it was moved by a bare redraw. *)
GridFindsNodes ==
    "hit" \notin dirty => \A n \in Here : "hit" \in bare[n] \/ n \in HitsAt(body[n].pos)

(* However flows and frames alternate, an edge carries at most one particle
   in its first stretch ("heavy flows show a spaced stream instead of a dot
   rope", glrenderer.js:815), and the pool keeps its cap. *)
ParticlesSpaced ==
    /\ Len(parts) <= MaxParticles
    /\ \A i, j \in DOMAIN parts : i # j /\ parts[i].edge = parts[j].edge
           => parts[i].progress >= Gap \/ parts[j].progress >= Gap

(* The fit that waits for the layout leaves the camera alone once the user
   has moved it ("Skipped as soon as the user takes over the camera",
   glrenderer.js:548). *)
AutoFitYields == userMoved /\ anim # None => anim.by # "auto"

(* The same of the Fit button and of a focus on a node, which the comment
   names too ("pan/zoom/fit of their own"): what they began is not replaced. *)
FitOfTheirOwn == [][anim # None /\ anim.by = "page" /\ anim' # None => anim'.by = "page"]_vars
=============================================================================

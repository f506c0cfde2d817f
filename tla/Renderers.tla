------------------------------ MODULE Renderers ------------------------------
(***************************************************************************)
(* The renderer of a page (static/app.js, initializeNetwork): one of the   *)
(* two is built when the page starts, by the URL, the stored choice and    *)
(* what the browser supports, and serves the page until it is closed.      *)
(* GLScene is extended, CosmosScene is the instance C on variables of its  *)
(* own. (The third, vis-network, is a library.)                            *)
(***************************************************************************)
EXTENDS GLScene

CONSTANTS
    NodeOrder, EdgeOrder, Style, PerCall, MaxLabels,
    CosmosParticles, CosmosEnd, CosmosActs      \* its MaxParticles, End, MaxActs

(* The orders are of the ids of the page's own nodes and edges. *)
ASSUME RenderersAssumption ==
    /\ NodeOrder \in Seq(Node) /\ Range(NodeOrder) = Node
    /\ EdgeOrder \in Seq(Edge) /\ Range(EdgeOrder) = Edge
    /\ Pos # {} /\ Style # {} /\ \A s \in Style : s.value \in Nat
    /\ {PerCall, MaxLabels, CosmosParticles, CosmosEnd, CosmosActs} \subseteq Nat /\ CosmosEnd > 0
    /\ None \notin [pos : Pos, style : Style, dim : BOOLEAN, frozen : Nat \cup {None}]
    /\ None \notin [style : Style, dim : BOOLEAN]

VARIABLES
    renderer,
    cBody, cLinks, cIndex, cGpu, cDirty, cStyleDirty, cPosDirty, cTopoTimer, cStyleTimer,
    cQueued, cPaint, cRaw, cBuilt, cMouse, cNear, cLabels, cParticles, cRaf, cUnpushed, cActs

cosmosVars == <<cBody, cLinks, cIndex, cGpu, cDirty, cStyleDirty, cPosDirty, cTopoTimer, cStyleTimer,
                cQueued, cPaint, cRaw, cBuilt, cMouse, cNear, cLabels, cParticles, cRaf, cUnpushed, cActs>>

C == INSTANCE CosmosScene WITH
    body <- cBody, links <- cLinks, index <- cIndex, gpu <- cGpu, dirty <- cDirty,
    styleDirty <- cStyleDirty, posDirty <- cPosDirty, topoTimer <- cTopoTimer,
    styleTimer <- cStyleTimer, queued <- cQueued, paint <- cPaint, raw <- cRaw, built <- cBuilt,
    mouse <- cMouse, near <- cNear, labels <- cLabels, particles <- cParticles, raf <- cRaf,
    unpushed <- cUnpushed, acts <- cActs,
    MaxParticles <- CosmosParticles, End <- CosmosEnd, MaxActs <- CosmosActs

(* initializeNetwork: cosmos when it is asked for and supported, else GL. *)
PageInit == renderer \in {"gl", "cosmos"} /\ Init /\ C!Init

PageNext ==
    \/ renderer = "gl" /\ Next /\ UNCHANGED <<renderer, cosmosVars>>
    \/ renderer = "cosmos" /\ C!Next /\ UNCHANGED <<renderer, vars>>

PageSpec == PageInit /\ [][PageNext]_<<renderer, vars, cosmosVars>>

-----------------------------------------------------------------------------
(* In GL, with no frame due, the instance buffers and the grid of hits that
   were left as they are by frames that only moved the camera ("skip full
   instance rebuild on camera-only frames", glrenderer.js:318) are what the
   bodies say. *)
BuffersFollow == FrameIsCurrent /\ GridFindsNodes

(* In both renderers, every variable has its type and the pool of particles
   keeps its cap and moves while there is one: an edge is not a rope of dots
   in GL ("a spaced stream instead of a dot rope", glrenderer.js:815), and
   the streaks of the solar map never stand still. *)
ParticlesFlow == TypeOK /\ ParticlesSpaced /\ C!TypeOK /\ C!ParticlesRun

(* In the solar map, whatever came and went in whatever order of the timers
   and frames, arrays uploaded by one path fit those uploaded by another; with
   no rebuild awaited they are of the nodes and edges there are, with no timer
   pending in the looks, and with no frame due at the places of the bodies. *)
SolarFollows == C!ArraysFit /\ C!TopologyDrawn /\ C!LooksSettle /\ C!PositionsFollow

(* Traffic never changes the radius of a planet that stays: not its own, and
   not that of another one ("sizes stay frozen", cosmosrenderer.js:306). *)
SizesFrozen == [][C!SizesKept]_cosmosVars
=============================================================================

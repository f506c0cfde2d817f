-------------------------------- MODULE Hub --------------------------------
(***************************************************************************)
(* The WebSocket hub (server/websocket.go, rawstream.go, timeline.go), the *)
(* three goroutines around every connection, and the browsers' handling of *)
(* what the hub sends (static/app.js).                                     *)
(*                                                                         *)
(* The hub goroutine serves one thing at a time: a registration, an        *)
(* unregistration, a resync token, or a tick that builds every client's    *)
(* view and queues the difference to the last one.  The tick is not        *)
(* atomic: packets, control messages of the clients (readPump), edits of   *)
(* node overrides (an HTTP handler) and the writers of the send channels   *)
(* run between its steps, each of which is one critical section.           *)
(*                                                                         *)
(* Data abstraction.  A graph is a value; what BuildView makes of it under *)
(* a filter and the overrides is the constant operator Picture.  Positions *)
(* and the per-entry counters are left out; the counters' frame carries    *)
(* the total of the stats bar.  The TCP stream and the send channel are    *)
(* one queue: a message leaves it when the browser's onmessage runs.       *)
(***************************************************************************)
EXTENDS Integers, Sequences, FiniteSets, Functions

CONSTANTS
    MaxConns,       \* bound: connections ever made
    Browsers,
    BrowserOf,      \* [1..MaxConns -> Browsers]
    Graphs,         \* contents of the live graph
    FirstGraph,
    Large(_),       \* more than largeGraphNodes hosts
    Views,          \* view configurations: filters, layout mode, aggregation
    DefaultView,
    Windows,        \* timeline positions, records [capture, t]
    Picture(_, _, _),  \* BuildView of a source, the overrides and a view
    FullChunkSize,
    SendCap,        \* capacity of Client.send
    RebuildEvery,   \* viewRebuildEveryLarge
    MaxEvents,      \* bound: changes of the graph, edits of overrides and control
                    \* messages, taken together
    None            \* a nil pointer, a field that is absent

Conns   == 1..MaxConns
Sources == Graphs \cup Windows

Nothing  == [x \in {} |-> 0]
NoMirror == [node |-> Nothing, edge |-> Nothing]

ASSUME HubAssumption ==
    /\ MaxConns \in Nat
    /\ BrowserOf \in [Conns -> Browsers]
    /\ FirstGraph \in Graphs
    /\ DefaultView \in Views
    /\ None \notin Graphs \cup Windows
    /\ Graphs \cap Windows = {}
    /\ \A v, w \in Windows : v.capture = w.capture /\ v.t = w.t => v = w
    /\ FullChunkSize \in Nat \ {0}
    /\ SendCap \in Nat \ {0}
    /\ RebuildEvery \in Nat \ {0}
    /\ MaxEvents \in Nat
    \* BuildView lists every node once drawn, and edges between listed nodes only.
    /\ \A source \in Sources, o \in 0 .. MaxEvents, v \in Views :
          LET p == Picture(source, o, v) IN
          /\ p.order \in Seq(DOMAIN p.node)
          /\ \A n \in DOMAIN p.node : \E i \in DOMAIN p.order : p.order[i] = n
          /\ p.node = [n \in DOMAIN p.node |-> p.node[n]]
          /\ p.edge = [e \in DOMAIN p.edge |-> p.edge[e]]
          /\ \A e \in DOMAIN p.edge : e # {} /\ e \subseteq DOMAIN p.node

VARIABLES
    \* graph.Manager and OverrideStore
    graph, dirty, flows,
    overrides, handler,  \* handler: "idle", "saved" (before MarkResyncAll)
    \* Hub
    clients, resyncAll, tickSeq,
    hpc,        \* the hub goroutine: "select", "clear", "drain", "next",
                \* "mode", "build", "send"
    todo, cur,  \* the range over h.clients and its current client
    tick,       \* the tick's locals: flows, snapshot, full, raw, timeline, out
    \* Client, by connection
    view, raw, needsFull, last, timeline, built,
    send, closed,   \* the send channel and whether it has been closed
    reader,         \* "none", "registering", "reading", "unregistering", "done"
    pump,           \* the writePump: "none", "pumping", "done"
    socket,         \* "new", "open", "closed"
    \* browsers
    screen,     \* two facts of its history, until a full completes: lost, a held delta
                \* was overwritten or cancelled by the first chunk of a full; adrift, a
                \* difference came in before the connection's first full picture
    panicked,       \* a send on a closed channel, or a second close
    events

world  == <<graph, dirty, flows, overrides, handler, events>>
hub    == <<clients, resyncAll, tickSeq, hpc, todo, cur, tick>>
client == <<view, raw, needsFull, last, timeline, built>>
pipes  == <<send, closed, panicked>>
pumps  == <<reader, pump, socket>>
vars   == <<world, hub, client, pipes, pumps, screen>>

NoTick == [flows |-> FALSE, snapshot |-> None, full |-> FALSE, raw |-> FALSE,
           timeline |-> None, out |-> <<>>]

NoSync  == [on |-> FALSE, node |-> {}, edge |-> {}]     \* fullSyncIds is null
NoDelta == [kind |-> "none"]                            \* pendingUpdate is null

Blank == [conn |-> 0, node |-> Nothing, edge |-> Nothing, sync |-> NoSync,
          total |-> 0, raw |-> None, pending |-> NoDelta, scheduled |-> FALSE,
          synced |-> FALSE, lost |-> FALSE, adrift |-> FALSE]

Init ==
    /\ graph = FirstGraph /\ dirty = FALSE /\ flows = FALSE
    /\ overrides = 0 /\ handler = "idle"
    /\ clients = {} /\ resyncAll = FALSE /\ tickSeq = 0
    /\ hpc = "select" /\ todo = {} /\ cur = 0 /\ tick = NoTick
    /\ view = [c \in Conns |-> DefaultView]
    /\ raw = [c \in Conns |-> FALSE]
    /\ needsFull = [c \in Conns |-> TRUE]
    /\ last = [c \in Conns |-> NoMirror]
    /\ timeline = [c \in Conns |-> None]
    /\ built = [c \in Conns |-> None]
    /\ send = [c \in Conns |-> <<>>]
    /\ closed = [c \in Conns |-> FALSE]
    /\ reader = [c \in Conns |-> "none"]
    /\ pump = [c \in Conns |-> "none"]
    /\ socket = [c \in Conns |-> "new"]
    /\ screen = [b \in Browsers |-> Blank]
    /\ panicked = FALSE
    /\ events = 0

-----------------------------------------------------------------------------
(* What the hub sends. *)

Content(p) == [node |-> p.node, edge |-> p.edge]

\* The entries of f that base lacks or renders otherwise, all of them when full.
Changed(f, base, full) ==
    Restrict(f, {x \in DOMAIN f : full \/ x \notin DOMAIN base \/ base[x] # f[x]})

BuildDelta(base, p, full) ==
    [kind |-> "delta",
     node |-> Changed(p.node, base.node, full), gone |-> DOMAIN base.node \ DOMAIN p.node,
     edge |-> Changed(p.edge, base.edge, full), cut |-> DOMAIN base.edge \ DOMAIN p.edge,
     full |-> full, partial |-> FALSE, done |-> FALSE, total |-> IF full THEN p.total ELSE None]

IsNil(d) == ~d.full /\ d.gone = {} /\ d.cut = {} /\ d.node = Nothing /\ d.edge = Nothing

\* The nodes of the first k chunks, busiest first as order lists them.
SentBy(order, k) == {order[i] : i \in {j \in DOMAIN order : j <= k * FullChunkSize}}

ChunkCount(order) == (Len(order) + FullChunkSize - 1) \div FullChunkSize

Chunk(order, d, k, edges, done) ==
    [kind |-> "delta",
     node |-> Restrict(d.node, SentBy(order, k) \ SentBy(order, k - 1)),
     edge |-> Restrict(d.edge, edges),
     gone |-> IF k = 1 THEN d.gone ELSE {}, cut |-> IF k = 1 THEN d.cut ELSE {},
     full |-> k = 1, partial |-> TRUE, done |-> done, total |-> IF k = 1 THEN d.total ELSE None]

\* The edges that ride chunk k: those whose ends are all there with it, and not before.
Riding(order, d, k) ==
    LET between(j) == {e \in DOMAIN d.edge : e \subseteq SentBy(order, j)}
    IN  between(k) \ between(k - 1)

\* Variant: no chunk says that the picture is complete.
SplitDeltaNeverDone(order, d) ==
    IF ~d.full \/ Len(order) <= FullChunkSize THEN <<[d EXCEPT !.done = d.full]>>
    ELSE [k \in 1 .. ChunkCount(order) |-> Chunk(order, d, k, Riding(order, d, k), FALSE)]

\* Variant: an edge rides with its first end.
SplitDeltaEarlyEdges(order, d) ==
    LET touched(j) == {e \in DOMAIN d.edge : e \cap SentBy(order, j) # {}}
    IN  IF ~d.full \/ Len(order) <= FullChunkSize THEN <<[d EXCEPT !.done = d.full]>>
        ELSE [k \in 1 .. ChunkCount(order) |->
                Chunk(order, d, k, touched(k) \ touched(k - 1), k = ChunkCount(order))]

\* A large full picture d, with its nodes in this order, travels in chunks; any other
\* delta travels whole.
SplitDelta(order, d) ==
    IF ~d.full \/ Len(order) <= FullChunkSize THEN <<[d EXCEPT !.done = d.full]>>
    ELSE [k \in 1 .. ChunkCount(order) |->
            Chunk(order, d, k, Riding(order, d, k), k = ChunkCount(order))]

-----------------------------------------------------------------------------
(* What a browser does with it (app.js). *)

\* DataSet.remove, then DataSet.update.
Redrawn(f, put, gone) ==
    [x \in (DOMAIN f \ gone) \cup DOMAIN put |-> IF x \in DOMAIN put THEN put[x] ELSE f[x]]

\* updateGraph: apply a delta; the message that completes a full picture drops
\* whatever the server no longer lists.
UpdateGraph(s, d) ==
    LET begun == IF d.full THEN [NoSync EXCEPT !.on = d.partial] ELSE s.sync
        sync  == IF begun.on
                 THEN [begun EXCEPT !.node = @ \cup DOMAIN d.node, !.edge = @ \cup DOMAIN d.edge]
                 ELSE begun
        keep  == IF sync.on THEN sync ELSE [node |-> DOMAIN d.node, edge |-> DOMAIN d.edge]
        node  == Redrawn(s.node, d.node, d.gone)
        edge  == Redrawn(s.edge, d.edge, d.cut)
    IN  [s EXCEPT !.node = IF d.done THEN Restrict(node, keep.node \cap DOMAIN node) ELSE node,
                  !.edge = IF d.done THEN Restrict(edge, keep.edge \cap DOMAIN edge) ELSE edge,
                  !.sync = IF d.done THEN NoSync ELSE sync,
                  !.total = IF d.total = None THEN s.total ELSE d.total,
                  !.synced = s.synced \/ d.full,
                  !.lost = s.lost /\ ~d.done,
                  !.adrift = s.adrift /\ ~d.done]

\* Delta d comes in; a difference that comes before any full picture of its connection is
\* one to a picture the browser never had.
Taken(s, d) == [s EXCEPT !.adrift = @ \/ ~(s.synced \/ d.full)]

\* throttledUpdateGraph: what the screen may be after delta d.  A delta within 100 to 200 ms
\* of the last update waits for the timer; the next one takes its place.
Throttled(screen_, d) ==
    LET s == Taken(screen_, d) IN
    IF d.partial /\ ~d.full THEN {UpdateGraph(s, d)}
    ELSE IF d.full
         THEN {UpdateGraph([s EXCEPT !.pending = NoDelta, !.scheduled = FALSE,
                                     !.lost = @ \/ s.pending # NoDelta], d)}
    ELSE IF s.scheduled
         THEN {[s EXCEPT !.pending = d, !.lost = @ \/ s.pending # NoDelta]}
    ELSE {UpdateGraph(s, d), [s EXCEPT !.pending = d, !.scheduled = TRUE]}

\* ws.onmessage
Received(s, m) ==
    CASE m.kind = "delta"   -> Throttled(s, m)
      [] m.kind = "counts"  -> {[s EXCEPT !.total = m.total]}
      [] m.kind = "rawMeta" -> {[s EXCEPT !.total = m.total]}
      [] m.kind = "raw"     -> {[s EXCEPT !.raw = m.picture]}

\* The timer of a throttled update fires.
TimerFires(b) ==
    /\ screen[b].scheduled
    /\ screen' = [screen EXCEPT ![b] =
                    [(IF @.pending = NoDelta THEN @ ELSE UpdateGraph(@, @.pending))
                        EXCEPT !.pending = NoDelta, !.scheduled = FALSE]]
    /\ UNCHANGED <<world, hub, client, pipes, pumps>>

-----------------------------------------------------------------------------
(* The world the hub watches. *)

Happens == events < MaxEvents /\ events' = events + 1

\* A packet, which also leaves a flow to animate, or the decay loop changes the graph and
\* marks it dirty.
GraphChanges ==
    /\ Happens
    /\ \E g \in Graphs \ {graph} : graph' = g
    /\ dirty' = TRUE
    /\ flows' \in {TRUE, flows}
    /\ UNCHANGED <<overrides, handler, hub, client, pipes, pumps, screen>>

\* POST and DELETE /api/overrides: store the override, then ask for a resync.
SaveOverride ==
    /\ handler = "idle" /\ Happens
    /\ overrides' = overrides + 1
    /\ handler' = "saved"
    /\ UNCHANGED <<graph, dirty, flows, hub, client, pipes, pumps, screen>>

\* Variant: a channel without a buffer, so that the token is lost on a busy hub.
MarkResyncAllUnbuffered ==
    /\ handler = "saved"
    /\ resyncAll' = (resyncAll \/ hpc = "select")
    /\ handler' = "idle"
    /\ UNCHANGED <<graph, dirty, flows, overrides, events,
                   clients, tickSeq, hpc, todo, cur, tick, client, pipes, pumps, screen>>

MarkResyncAll ==
    /\ handler = "saved"
    /\ resyncAll' = TRUE
    /\ handler' = "idle"
    /\ UNCHANGED <<graph, dirty, flows, overrides, events,
                   clients, tickSeq, hpc, todo, cur, tick, client, pipes, pumps, screen>>

-----------------------------------------------------------------------------
(* Connections. *)

\* A browser connects; handleWebSocket makes the Client and waits to register it.
Connect(c) ==
    /\ socket[c] = "new"
    /\ \A d \in Conns : d < c /\ BrowserOf[d] = BrowserOf[c] => socket[d] = "closed"
    /\ socket' = [socket EXCEPT ![c] = "open"]
    /\ reader' = [reader EXCEPT ![c] = "registering"]
    /\ screen' = [screen EXCEPT ![BrowserOf[c]].conn = c, ![BrowserOf[c]].synced = FALSE]
    /\ UNCHANGED <<world, hub, client, pipes, pump>>

\* The network, the peer or a write deadline ends the connection.
SocketBreaks(c) ==
    /\ socket[c] = "open"
    /\ socket' = [socket EXCEPT ![c] = "closed"]
    /\ UNCHANGED <<world, hub, client, pipes, reader, pump, screen>>

\* readPump: a read fails or passes its deadline; the deferred call waits to unregister.
ReadFails(c) ==
    /\ reader[c] = "reading"
    /\ reader' = [reader EXCEPT ![c] = "unregistering"]
    /\ UNCHANGED <<world, hub, client, pipes, pump, socket, screen>>

\* writePump: a message reaches the browser.
WriteMessage(c) ==
    /\ pump[c] = "pumping" /\ socket[c] = "open" /\ send[c] # <<>>
    /\ send' = [send EXCEPT ![c] = Tail(@)]
    /\ \E s \in Received(screen[BrowserOf[c]], Head(send[c])) :
            screen' = [screen EXCEPT ![BrowserOf[c]] = s]
    /\ UNCHANGED <<world, hub, client, closed, panicked, pumps>>

\* writePump: the channel is closed and drained, or a write or a ping fails.
PumpEnds(c) ==
    /\ pump[c] = "pumping"
    /\ \/ closed[c] /\ send[c] = <<>>
       \/ socket[c] = "closed"
    /\ pump' = [pump EXCEPT ![c] = "done"]
    /\ socket' = [socket EXCEPT ![c] = "closed"]
    /\ UNCHANGED <<world, hub, client, pipes, reader, screen>>

\* applyControl, one message kind per disjunct; each holds c.mu throughout.
ApplyControl(c) ==
    /\ reader[c] = "reading" /\ socket[c] = "open" /\ Happens
    /\ \/ \* setFilters, setLayout, setAggregation; resync when nothing changes
          /\ \E v \in Views : view' = [view EXCEPT ![c] = v]
          /\ needsFull' = [needsFull EXCEPT ![c] = TRUE]
          /\ UNCHANGED <<raw, timeline, built>>
       \/ \* setViewMode
          /\ raw' = [raw EXCEPT ![c] = ~@]
          /\ needsFull' = [needsFull EXCEPT ![c] = TRUE]
          /\ UNCHANGED <<view, timeline, built>>
       \/ \* setTimeline: another capture starts afresh, another time just moves
          /\ \E w \in Windows :
                LET enters == timeline[c] = None \/ timeline[c].capture # w.capture IN
                /\ timeline' = [timeline EXCEPT ![c] = w]
                /\ built' = [built EXCEPT ![c] = IF enters THEN None ELSE @]
                /\ needsFull' = [needsFull EXCEPT ![c] = @ \/ enters]
          /\ UNCHANGED <<view, raw>>
       \/ \* setTimeline with capture 0: back to the live graph
          /\ timeline[c] # None
          /\ timeline' = [timeline EXCEPT ![c] = None]
          /\ built' = [built EXCEPT ![c] = None]
          /\ needsFull' = [needsFull EXCEPT ![c] = TRUE]
          /\ UNCHANGED <<view, raw>>
    /\ UNCHANGED <<last, graph, dirty, flows, overrides, handler, hub, pipes, pumps, screen>>

-----------------------------------------------------------------------------
(* The hub goroutine. *)

Register(c) ==
    /\ hpc = "select" /\ reader[c] = "registering"
    /\ clients' = clients \cup {c}
    /\ reader' = [reader EXCEPT ![c] = "reading"]
    /\ pump' = [pump EXCEPT ![c] = "pumping"]
    /\ UNCHANGED <<world, resyncAll, tickSeq, hpc, todo, cur, tick, client, pipes, socket, screen>>

\* Variant: the client is forgotten but its channel stays open.
CloseSendForgotten(c) == UNCHANGED <<closed, panicked>>

CloseSend(c) ==
    /\ closed' = [closed EXCEPT ![c] = TRUE]
    /\ panicked' = (panicked \/ closed[c])

\* The hub takes the client out, unless trySend has; then readPump closes the socket.
Unregister(c) ==
    /\ hpc = "select" /\ reader[c] = "unregistering"
    /\ clients' = clients \ {c}
    /\ IF c \in clients THEN CloseSend(c) ELSE UNCHANGED <<closed, panicked>>
    /\ reader' = [reader EXCEPT ![c] = "done"]
    /\ socket' = [socket EXCEPT ![c] = "closed"]
    /\ UNCHANGED <<world, resyncAll, tickSeq, hpc, todo, cur, tick, client, send, pump, screen>>

ResyncAll ==
    /\ hpc = "select" /\ resyncAll
    /\ resyncAll' = FALSE
    /\ needsFull' = [c \in Conns |-> needsFull[c] \/ c \in clients]
    /\ UNCHANGED <<world, clients, tickSeq, hpc, todo, cur, tick, view, raw, last, timeline,
                   built, pipes, pumps, screen>>

TimelineDirty(c) == timeline[c] # None /\ built[c] # timeline[c].t

\* The gate of tick.  Whether some client's layout is still converging, which keeps the
\* hub busy, is left open; a layout that has settled need not stir again.
TickStarts(layoutBusy) ==
    /\ hpc = "select" /\ clients # {}
    /\ LET anyNeedsFull == \E c \in clients : needsFull[c]
           anyTimelineDirty == \E c \in clients : TimelineDirty(c)
           urgent == anyNeedsFull \/ layoutBusy \/ anyTimelineDirty
       IN  /\ dirty \/ urgent
           /\ tickSeq' = (tickSeq + 1) % RebuildEvery
           /\ hpc' = IF ~urgent /\ Large(graph) /\ tickSeq' # 0 THEN "select" ELSE "clear"
    /\ UNCHANGED <<world, clients, resyncAll, todo, cur, tick, client, pipes, pumps, screen>>

\* Two critical sections of the graph; its snapshot is taken later still, by the first
\* client that needs it.
ClearDirty ==
    /\ hpc = "clear"
    /\ dirty' = FALSE
    /\ hpc' = "drain"
    /\ UNCHANGED <<graph, flows, overrides, handler, events, clients, resyncAll, tickSeq,
                   todo, cur, tick, client, pipes, pumps, screen>>

DrainFlows ==
    /\ hpc = "drain"
    /\ flows' = FALSE
    /\ tick' = [NoTick EXCEPT !.flows = flows]
    /\ todo' = clients
    /\ hpc' = "next"
    /\ UNCHANGED <<graph, dirty, overrides, handler, events, clients, resyncAll, tickSeq, cur,
                   client, pipes, pumps, screen>>

\* The range reaches client c, whose needsFull is consumed.
ConsumeNeedsFull(c) ==
    /\ hpc = "next" /\ c \in todo
    /\ todo' = todo \ {c}
    /\ cur' = c
    /\ tick' = [tick EXCEPT !.full = needsFull[c]]
    /\ needsFull' = [needsFull EXCEPT ![c] = FALSE]
    /\ hpc' = "mode"
    /\ UNCHANGED <<world, clients, resyncAll, tickSeq, view, raw, last, timeline, built,
                   pipes, pumps, screen>>

\* The client's mode and timeline position, before the snapshot or the query of the store.
ReadMode ==
    /\ hpc = "mode"
    /\ tick' = [tick EXCEPT !.raw = raw[cur], !.timeline = timeline[cur]]
    /\ hpc' = "build"
    /\ UNCHANGED <<world, clients, resyncAll, tickSeq, todo, cur, client, pipes, pumps, screen>>

\* Variant: the position is read again when it is marked.
MarkTimelineBuiltAnew ==
    built' = IF timeline[cur] = None THEN built
             ELSE [built EXCEPT ![cur] = timeline[cur].t]

\* timeline.go markTimelineBuilt, with the position ReadMode read.
MarkTimelineBuilt ==
    built' = IF tick.timeline = None \/ timeline[cur] = None THEN built
             ELSE [built EXCEPT ![cur] = tick.timeline.t]

Snapshot == IF tick.snapshot = None THEN graph ELSE tick.snapshot

\* Queue the messages out, if any, or go on to the next client.
Onward(out, snapshot) ==
    /\ tick' = IF out # <<>> THEN [tick EXCEPT !.out = out, !.snapshot = snapshot]
               ELSE IF todo # {} THEN [NoTick EXCEPT !.flows = tick.flows, !.snapshot = snapshot]
               ELSE NoTick
    /\ hpc' = IF out # <<>> THEN "send" ELSE IF todo # {} THEN "next" ELSE "select"
    /\ cur' = IF out # <<>> THEN cur ELSE 0

\* sendRawTopology: a whole picture, when forced or when rawFrameInterval has gone by (due).
BuildRaw(due) ==
    /\ hpc = "build" /\ tick.raw
    /\ MarkTimelineBuilt
    /\ IF tick.full \/ due
       THEN LET p == Picture(Snapshot, 0, view[cur])
            IN  Onward(<<[kind |-> "rawMeta", total |-> p.total],
                         [kind |-> "raw", picture |-> Content(p)]>>, Snapshot)
       ELSE Onward(<<>>, tick.snapshot)
    /\ UNCHANGED <<world, clients, resyncAll, tickSeq, todo, view, raw, needsFull, last,
                   timeline, pipes, pumps, screen>>

\* BuildView, buildDelta, splitDelta and buildCountsFrame for a styled client; due
\* says that countsInterval has gone by.
BuildStyled(due) ==
    /\ hpc = "build" /\ ~tick.raw
    /\ MarkTimelineBuilt
    /\ LET live == tick.timeline = None IN
       \E p \in {Picture(IF live THEN Snapshot ELSE tick.timeline, overrides, view[cur])} :
       \E delta \in {BuildDelta(last[cur], p, tick.full)} :
          LET quiet  == IsNil(delta) /\ ~(live /\ tick.flows)
              counts == IF due /\ ~tick.full THEN <<[kind |-> "counts", total |-> p.total]>>
                        ELSE <<>>
          IN  \E out \in {(IF quiet THEN <<>> ELSE SplitDelta(p.order, delta)) \o counts} :
                 /\ last' = [last EXCEPT ![cur] = Content(p)]
                 /\ Onward(out, IF live THEN Snapshot ELSE tick.snapshot)
    /\ UNCHANGED <<world, clients, resyncAll, tickSeq, todo, view, raw, needsFull,
                   timeline, pipes, pumps, screen>>

\* Variant: the slow client stays registered.
TrySendKeepsClient ==
    /\ hpc = "send"
    /\ IF Len(send[cur]) < SendCap
       THEN /\ send' = [send EXCEPT ![cur] = Append(@, Head(tick.out))]
            /\ panicked' = (panicked \/ closed[cur])
            /\ Onward(Tail(tick.out), tick.snapshot)
            /\ UNCHANGED <<clients, closed>>
       ELSE /\ CloseSend(cur)
            /\ Onward(<<>>, tick.snapshot)
            /\ UNCHANGED <<clients, send>>
    /\ UNCHANGED <<world, resyncAll, tickSeq, todo, client, pumps, screen>>

\* trySend: a full buffer drops the client, and the rest of its messages with it.
TrySend ==
    /\ hpc = "send"
    /\ IF Len(send[cur]) < SendCap
       THEN /\ send' = [send EXCEPT ![cur] = Append(@, Head(tick.out))]
            /\ panicked' = (panicked \/ closed[cur])
            /\ Onward(Tail(tick.out), tick.snapshot)
            /\ UNCHANGED <<clients, closed>>
       ELSE /\ CloseSend(cur)
            /\ clients' = clients \ {cur}
            /\ Onward(<<>>, tick.snapshot)
            /\ UNCHANGED send
    /\ UNCHANGED <<world, resyncAll, tickSeq, todo, client, pumps, screen>>

-----------------------------------------------------------------------------
TickStep == ClearDirty \/ DrainFlows \/ (\E c \in Conns : ConsumeNeedsFull(c)) \/ ReadMode
            \/ (\E due \in BOOLEAN : BuildRaw(due) \/ BuildStyled(due)) \/ TrySend

Environment == GraphChanges \/ SaveOverride
               \/ \E c \in Conns : Connect(c) \/ SocketBreaks(c) \/ ReadFails(c) \/ ApplyControl(c)

Next == \/ Environment
        \/ MarkResyncAll
        \/ ResyncAll \/ TickStep
        \/ \E layoutBusy \in BOOLEAN : TickStarts(layoutBusy)
        \/ \E c \in Conns : Register(c) \/ Unregister(c) \/ WriteMessage(c) \/ PumpEnds(c)
        \/ \E b \in Browsers : TimerFires(b)

\* The hub's timer always comes due again; its select picks at random among what is
\* ready, so nothing that is ready whenever the hub is back there waits for ever.
\* Writes make progress or fail at their deadline, and a read fails once the
\* connection is closed.
Fairness ==
    /\ WF_vars(TickStep) /\ SF_vars(TickStarts(FALSE)) /\ SF_vars(ResyncAll)
    /\ WF_vars(MarkResyncAll)
    /\ \A c \in Conns :
        /\ SF_vars(Register(c)) /\ SF_vars(Unregister(c))
        /\ WF_vars(WriteMessage(c)) /\ WF_vars(PumpEnds(c))
        /\ WF_vars(socket[c] = "closed" /\ ReadFails(c))
    /\ \A b \in Browsers : WF_vars(TimerFires(b))

Spec == Init /\ [][Next]_vars
FairSpec == Spec /\ Fairness

\* While ticks go on, the counters' interval goes by again and again.
CountersSpec == FairSpec /\ SF_vars(BuildStyled(TRUE))

-----------------------------------------------------------------------------
(* Properties. *)

\* Every variable keeps its type, the send buffers respect their capacity, and the hub is
\* in the middle of a client exactly between consumeNeedsFull and the end of its sends.
TypeOK ==
    /\ graph \in Graphs /\ dirty \in BOOLEAN /\ flows \in BOOLEAN
    /\ overrides \in 0..MaxEvents /\ handler \in {"idle", "saved"}
    /\ clients \subseteq Conns /\ resyncAll \in BOOLEAN /\ tickSeq \in 0..(RebuildEvery - 1)
    /\ hpc \in {"select", "clear", "drain", "next", "mode", "build", "send"}
    /\ todo \subseteq Conns
    /\ cur \in Conns \cup {0} /\ (cur \in Conns <=> hpc \in {"mode", "build", "send"})
    /\ tick.flows \in BOOLEAN /\ tick.full \in BOOLEAN /\ tick.raw \in BOOLEAN
    /\ tick.snapshot \in Graphs \cup {None} /\ tick.timeline \in Windows \cup {None}
    /\ view \in [Conns -> Views] /\ raw \in [Conns -> BOOLEAN]
    /\ needsFull \in [Conns -> BOOLEAN]
    /\ timeline \in [Conns -> Windows \cup {None}]
    /\ \A c \in Conns : Len(send[c]) <= SendCap
    /\ closed \in [Conns -> BOOLEAN] /\ panicked \in BOOLEAN
    /\ reader \in [Conns -> {"none", "registering", "reading", "unregistering", "done"}]
    /\ pump \in [Conns -> {"none", "pumping", "done"}]
    /\ socket \in [Conns -> {"new", "open", "closed"}]
    /\ events \in 0..MaxEvents

\* The channel of a client is closed once, by the tick that drops it as a slow consumer or
\* by its unregistration, and nothing is sent on it afterwards (trySend, Run).
ChannelClosedOnce == ~panicked

InFlight(c) == send[c] \o (IF cur = c THEN tick.out ELSE <<>>)

\* The screen once its pending delta and then the messages are applied.
AfterAll(s, msgs) ==
    LET after[k \in 0 .. Len(msgs)] ==
            IF k = 0 THEN IF s.pending = NoDelta THEN s ELSE UpdateGraph(s, s.pending)
            ELSE IF msgs[k].kind # "delta" THEN after[k - 1]
            ELSE UpdateGraph(Taken(after[k - 1], msgs[k]), msgs[k])
    IN  after[Len(msgs)]

\* What is queued for a client, applied in order to what its browser shows, gives exactly
\* the view the hub will compute the next difference from (lastNodes, lastEdges): across
\* chunks, removals, mode switches, and what an earlier connection left on the screen.
\* The browser's own throttle is the one thing that can break this, until a full
\* picture completes.
StreamRebuildsBaseline ==
    \A c \in clients : socket[c] = "open" =>
        LET s == AfterAll(screen[BrowserOf[c]], InFlight(c)) IN
        s.conn = c /\ (s.synced /\ ~s.lost => Content(s) = last[c])

Showing(c) == Content(Picture(IF timeline[c] = None THEN graph ELSE timeline[c],
                              overrides, view[c]))

\* No change is lost between the flags and the views: when the hub is back at its select
\* and neither the graph nor a client asks for a rebuild, every styled client's last view
\* is the current one, whatever came in while the tick ran.
NothingForgotten ==
    hpc = "select" /\ ~dirty /\ ~resyncAll /\ handler = "idle" =>
        \A c \in clients : ~needsFull[c] /\ ~raw[c] /\ ~TimelineDirty(c) => last[c] = Showing(c)

\* A browser never shows an edge without both its nodes, between the chunks of a full
\* picture included (splitDelta, "so the client never receives an edge before its nodes"),
\* short of what the throttle lost, or of a difference drawn on an earlier connection's
\* picture.
EdgesHaveEnds ==
    \A b \in Browsers : ~screen[b].lost /\ ~screen[b].adrift =>
        \A e \in DOMAIN screen[b].edge : e \subseteq DOMAIN screen[b].node

\* A client the hub has let go of does not linger: its socket is closed, so that the
\* browser learns of it and reconnects.
ForgottenIsClosed ==
    \A c \in Conns : (reader[c] = "reading" /\ c \notin clients) ~> (socket[c] = "closed")

\* Once the world and the clients' controls stand still, every connected styled browser
\* comes to show the current picture, and keeps showing it.
ScreensCatchUp ==
    <>[](\A c \in clients : socket[c] = "open" /\ ~raw[c] /\ ~screen[BrowserOf[c]].lost
            => Content(screen[BrowserOf[c]]) = Showing(c))

\* app.js 2893: a delta carries "changed/removed items", the client "renders what it's
\* given".  So with nothing in flight, pending or being built, a browser that has had
\* its first full picture shows what the hub believes it shows.
ScreenIsBaseline ==
    \A c \in clients :
        LET s == screen[BrowserOf[c]] IN
        socket[c] = "open" /\ s.conn = c /\ s.synced /\ ~s.scheduled /\ InFlight(c) = <<>>
        => Content(s) = last[c]

\* websocket.go 94-97: counters are "refreshed" every countsInterval.  So once traffic
\* stops, the stats bar of a connected styled client comes to show the final total.
CountersRefresh ==
    <>[](\A c \in clients : socket[c] = "open" /\ ~raw[c] =>
            screen[BrowserOf[c]].total =
                Picture(IF timeline[c] = None THEN graph ELSE timeline[c], overrides, view[c]).total)

\* What a browser draws is sound between any two messages (splitDelta); every variable has
\* its type.
ScreensAreSound == TypeOK /\ EdgesHaveEnds
=============================================================================

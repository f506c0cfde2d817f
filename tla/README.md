# A verification development for Etherchimp

Etherchimp is a live network-traffic visualiser: a Go server that captures (or
replays, or synthesises) packets, folds them into a graph of hosts and
conversations, pushes deltas of that graph to browsers over WebSockets, and can
persist everything in SQLite. This directory holds TLA+ modules that model its
stateful parts, TLC configurations that check them on small instances, and
TLAPS proofs of the properties that matter most. Line numbers refer to the
commit the modules were written against; `PROJECT.json` maps every definition
to the lines it stands for.

## The system

| component | state | operations | hard behaviour |
| --- | --- | --- | --- |
| `store/` (SQLite persistence) | tables captures, nodes, edges, flow_buckets, packets; the in-memory aggregator (cumulative node/edge rows with dirty sets, bucket deltas); a channel of packet-index rows; the writer's pending slice | Open, BeginCapture, RecordPacket(Sync), Flush, EndCapture, FindCompletePcap, LoadAggregates, Close, retention | hot path against the writer, failing transactions, crashes, full channel, rendezvous at shutdown, rowid reuse |
| `main.go` (session driver) | mode, capture id, contexts, signal channels | mode switch, processPacket, shutdown | shutdown does not wait for the ingest goroutine |
| `graph/graph.go` | nodes, edges and three identity indexes (IP, host name, MAC), dirty flags | Ingest, merge, MAC promotion and demotion, decay, BulkLoad, Clear | aliases of one host, orientation of re-keyed edges, capped sweeps |
| `graph/packet_store.go` | ring of recent packets, per-stream index, cursors | add, page, search | wrap-around under a reader's cursor |
| `graph/dns.go`, `classify.go`, `overrides.go`, `decay.go` | name cache, damped roles, override file | Resolve, commitRole, Set, tick | two workers racing on one name |
| `graph/view.go`, `layout.go`, `solar.go`, `filter.go`, `rawtopo.go` | per-client view hysteresis | build a view of a snapshot | table reset at its cap |
| `server/websocket.go` | clients with a bounded send queue, last-sent maps, `needsFull`; the tick pacer | register, unregister, tick, control messages | slow consumers, resync, chunked frames, idle graph |
| `server/` (the rest) | timeline, view and replay caches, rate buckets | HTTP handlers | stale cached windows, eviction while in use |
| `stream/stream.go` | streams with an LRU list | AddPacket, evict, list | cap reached, direction |
| `capture/` | pause flag and channels, rotating pcap writer | Start, Pause, Resume, Write | stale resume token, signals out of order |
| `daemon/` | PID file, log file and its backups | start, stop, rotate, clean up | check-then-act between processes |
| `static/app.js` | a socket and its retries, replay and timeline sessions, the mirror of the hub's graph, packet table and cache, details panel, search, stream windows | callbacks of sockets, timers, fetches and the mouse | every `await` lets the user and the stream in; answers late, refused or out of order; throttles |
| `static/glrenderer.js`, `static/cosmosrenderer.js` | bodies, instance buffers or GPU arrays, dirty flags, camera, label atlas, particles | DataSet events, frames, timers, polls | each frame does only what a flag asks for |

Packets flow from a capture engine (or a pcap reader) to one ingest goroutine,
which calls the graph manager, hands the packet to the stream feeder without
blocking, and calls `RecordPacket`. The store's writer goroutine is the only one
that writes rows of packets, nodes, edges and buckets; `BeginCapture`,
`EndCapture` and retention use the same single SQL connection, so statements are
serialised. The hub's ticker reads the graph and queues frames to clients. A browser's page applies them to two DataSets, which a
renderer mirrors; it polls packets with a cursor and fetches details, searches, stored
captures and files of its own over HTTP.

What makes each component correct, in short: *store*, every packet counts once
in every table of its capture and a capture called complete is complete; *graph*,
every index entry names a node that has that alias, and no edge outlives its
ends; *hub*, a client that has applied all its frames has the graph the hub
thinks it has, and a channel is closed once; *streams*, the index and the LRU
list agree and stay within the cap; *capture*, after the last Resume packets
flow; *daemon*, one daemon per PID file, and no log line is lost to a rotation; *page*, once
everything under way has arrived, what is shown is what the server believes is shown and
what the user asked for last; *renderers*, what is drawn when no frame is due is the
scene.

## Modules

* `CaptureStore` models `store/` and the part of `main.go` that drives it.
* `PcapCache` is the abstract promise of replay with `-db`; `CaptureStore`
  implements it (`ImplementsPcapCache`).
* `MCCaptureStore` gives constants for TLC.
* `CaptureStore_proofs` holds the inductive invariant and the proofs, that of
  `ImplementsPcapCache` included.
* `Hub` models the WebSocket hub, the goroutines of every connection and the
  browsers' side of the protocol; `MCHub` gives it a small world, `Hub_proofs` its
  proofs.
* `GraphIdentity` models the graph manager's identity of nodes and its decay;
  `MCGraphIdentity` gives it hosts and packets, `GraphIdentity_proofs` its proofs.
* `Playback`, `GraphMirror`, `PacketPanel` and `Details` each model one part of the
  page; `Finder` extends `Details` with search, menus and stream windows. Each but
  `Details` has its MC module and a passing run of its own; `MCDetails` runs the panel
  alone, for the finding. `Playback_proofs`, `GraphMirror_proofs`, `PacketPanel_proofs`
  and `Finder_proofs` (the details under the whole page) hold their proofs.
* `LabelAtlas` models the atlas of label sprites. `GLScene` (the WebGL renderer) extends
  it. `CosmosScene` is the solar renderer. `Renderers` is the page's choice between the
  two and composes them; `MCRenderers` gives them a small scene, `Renderers_proofs` holds
  the proofs of all four.
* `Loops` is the filtering loop that `PacketPanel`, both renderers and `GraphIdentity`
  share, a recursive function: `SelectSeq` of the library is one the prover cannot expand.

### CaptureStore

*Data.* A packet is an identity; `KeysOf[p]` are the rows of nodes and edges it
counts in, `FlowOf[p]` the bucket row. Byte counts, directions and time stamps
are written by the same statements as the packet counts and are left out. A
process opens at most one session, so the capture id in the aggregator's keys is
the session's.

*Control.* One action per step between two points where another goroutine can
intervene:

| code | action |
| --- | --- |
| a process starts, `Open`, the mode switch | `Boot`, `CacheHit`, `BeginCapture`, `BeginFails` |
| `processPacket` up to the channel send (aggregator lock) | `Record` |
| the channel send: blocking in replay, dropping in live modes | `SendRow` |
| cancelled context seen by the ingest goroutine | `IngestReturns` |
| the four cases of `writerLoop`'s select, the drain loop | `WriterReceives`, `WriterTicks`, `WriterServesFlush`, `WriterSeesDone`, `WriterDrains` |
| `snapshot` (one critical section) | `StartFlush`, a part of the three writer actions that flush |
| the transaction commits, or fails | `FlushTx`, `FlushTxFails` |
| end of replay, SIGTERM, `EndCapture`, `Close` | `IngestDone`, `Signal`, `DropCapture`, `StampCapture`, `CloseStore`, `Exit` |
| `retentionLoop`'s three DELETEs | `PruneCaptures`, `SweepBuckets`, `SweepRows` |
| kill, power loss, `log.Fatal` | `Crash` |

History variables (`recorded`, `snapped`, `stored`, `due`, `lossy`, `late`,
`reused`, `unreported`) are never read by a guard; they say what was recorded, what
the last snapshot and the last committed flush held, which captures a failed flush, a
packet recorded after `EndCapture` began, or a reused rowid has touched, and how many
drops a flush has forgotten. The properties exempt exactly those captures;
`CompleteIsFullyIngested` and `StoredTotalsAreCumulative` at the end of the module show
that the exemptions are needed.

The count of dropped rows goes the way it goes in the code: `RecordPacket` counts in
`a.dropped`, `snapshot` takes and clears it, the batch carries it (`fbDropped`), and the
writer adds it to `totalDropped` after the transaction, whether that failed or not. A
flush that finds no row, node, edge or bucket to write returns before that line
(`writer.go:249-252`), and the count it took is gone: `unreported`.

*Assumptions.* One process at a time uses the database file. Retention is longer
than a shutdown and than a flush interval, so a capture expires only when nothing
of it is left in memory. `-net` replays bypass the store and are not modelled.
Reads see a committed state (WAL).

### Hub

*Data.* A graph is a value, and the constant operator `Picture(source, overrides,
view)` is what `BuildView` makes of it: nodes busiest first with their rendered
style, edges with theirs, the total of the stats bar. `MCHub` draws it for three
hosts, a filter that hides one and an override that restyles one. An edge is the set
of its ends. Positions, the colour of things and the counters of single entries are
left out. A send channel and the TCP stream behind it are one queue, which `SendCap`
bounds: a message leaves it when the browser's `onmessage` runs.

*Control.* `tick` is not atomic. Each of its steps that takes a lock is an action, and
packets, `applyControl` (the readPumps), override edits and the writePumps run
between them:

| code | action |
| --- | --- |
| the four cases of `Run`'s select | `Register`, `Unregister`, `ResyncAll`, `TickStarts` (the idle short-circuit and the cadence of large graphs) |
| `ClearDirty`, `DrainFlows` | the same |
| the loop body, lock by lock | `ConsumeNeedsFull`, `ReadMode`, `BuildRaw` or `BuildStyled`, `TrySend` once per message |
| `handleOverrides` | `SaveOverride`, then `MarkResyncAll` |
| `applyControl` | `ApplyControl`, one disjunct per message kind |
| `handleWebSocket`, `readPump`, `writePump` | `Connect`, `ReadFails`, `WriteMessage`, `PumpEnds`; `SocketBreaks` is the network |
| `onmessage`, `throttledUpdateGraph`, `updateGraph` | `Received`, `Throttled`, `UpdateGraph`, `TimerFires` |

*Left open.* Whether a layout is still converging, and so keeps the hub ticking, is a
free choice at each tick; so is whether the counters' second or the raw frames'
interval has gone by, and whether a delta comes within the browser's throttle. Views
shared by clients of one configuration are built once per client here. `screen.lost`
is a history variable: the throttle has overwritten a delta since the last full.

### GraphIdentity

*Data.* `Manager` is one value `g`, since each handler holds `m.mu` from beginning to
end; its helpers are operators from a graph to a graph, named as in the code. A node id
is an address, a name or a MAC; an edge is keyed by the set of its ends, with `Rank` the
string order that tells forward from reverse. A packet's host name is whatever the
resolver has at that moment: none, the address itself, or the name. A MAC that
`isHostMAC` refuses is `NoMac`. Bytes, protocols, flows, peers, ports and search text
are left out.

*Control.* `Ingest` is both nodes, both MACs, then the edge, in that order, with every
merge on the way. The decay loop is two critical sections, so `RemoveStaleNodes` and
`RemoveStaleEdges` are two actions and packets come in between; both take the stalest
first up to their cap. `Tick` lets time pass. `g.folded`, `ledger` and `heard` are
history variables: the traffic between two nodes that became one, the packets taken in
and decayed, and when an address was last in a packet.

*Limits.* `BulkLoad` and the direct calls of the synthetic traffic (no MACs, names equal
to addresses) are left out. Three things are known not to hold and are therefore not
claimed. A node's address list is not complete: line 344 tests the index entry that line
320 has just written, so only merges ever extend the list. Decay takes the index entries
of listed addresses only, and a demotion leaves the entry of the name: what is not listed
leads nowhere until a packet names it again. And a MAC can be both an endpoint of its own,
in an LLDP, CDP or STP frame (`capture.go:418-434`, `524-531`), and the MAC beside an
address of the same host: the node of the address is then folded into the endpoint's, which keeps its older
`LastSeen` (line 401), and a gateway's MAC stays the id of an endpoint. With the source
of the LLDP frame of `MCGraphIdentity` set to `"aa:01"`, without a name, TLC finds
`HeardHostsStay`, `BareEdgesAreStale` and `SharedMacIsNoIdentity` violated, and the rest,
`PacketsLand` among it, not. `LinkLayerApart` says that no packet set has such a MAC; the
instance satisfies it, with an LLDP frame and a routed address ending in 255, which the
code takes for a group's (`graph.go:98-101`), on its router's MAC.
Nor are the directional counts of an edge claimed: a merge that turns an edge round adds
forward to forward, where `BulkLoad` swaps them.

### The page: Playback, GraphMirror, PacketPanel, Details, Finder

JavaScript runs one callback to its end. So a callback is an action, an `await` ends
one, and the answer is another action that finds whatever the callbacks in between have
left; what an answer carries is fixed when the server handles the call. A timer that may
have run out is a choice of the callback that asks. A promise that is already settled
runs its continuation before any other event: in `Details`, `micro` holds it and every
other action waits.

| code | module | actions |
| --- | --- | --- |
| `connectWebSocket`, `onopen`, `onclose`, the retry timer | `Playback` | `Opened`, `Closed` (in `CloseEnds`, `Drop`), `Retry` |
| filters, layout, aggregation, the zoom band and its delay; `applyControl` | `Playback` | `SetControl`, `CrossZoomBand`, `BandTimer`, `ServerTakes` |
| `enterReplayMode`, the slider with its throttle, `loadReplayDataAtOffset`, `exitReplayMode` | `Playback` | `EnterReplay`, `ReplayFound`, `ReplayNotFound`, `ReplayFails`, `Scrub`, `JumpTo`, `ScrubTimer`, `LoadAnswered`, `LoadFails`, `ReturnToLive` |
| the timeline of a stored capture | `Playback` | `OpenCapture`, `CaptureOpened`, `MoveSlider`, `TogglePlay`, `PlayTick`, `PositionTimer`, `ExitTimeline` |
| the hub's side of one client, `buildDelta`, `splitDelta`, position frames | `GraphMirror` | `Change`, `Move`, `Tick`, `Resync`, `Connect`, `Disconnect` |
| `throttledUpdateGraph`, `updateGraph`, the easing loop, themes and colour modes | `GraphMirror` | `Receive`, `ThrottleFires`, `Step`, `ApplyTheme`, `SetNodeColorMode` |
| the ring (`graph/packet_store.go`) and the poll with its cursor | `PacketPanel` | `AddPacket`, `Restart`, `PollPackets`, `PollAnswered`, `CallFails` |
| the table, cache, filter, selection, keys, inspector, replayed file | `PacketPanel` | `TogglePanel`, `SetFilter`, `SelectPacket`, `Arrow`, `InspectRecent`, `DetailAnswered`, `EnterReplay`, `ReplayAnswered`, `ExitReplay` |
| `showNodeDetails`, `fetchNodeDetail`, hover, focus, edits that return | `Details` | `ClickNode`, `ClickEdge`, `ClickAway`, `CloseDetails`, `HoverNode`, `BlurNode`, `Drag`, `Microtask`, `DetailArrives`, `DetailFails`, `NodeComes`, `NodeGoes`, `Customize`, `ShowsLater` |
| the search box, its three sources, the choice of a result | `Finder` | `Type`, `Erase`, `ClearSearch`, `TimerFires`, `SearchAnswered`, `SwitchReplay`, `ChoosePayload`, `Choose`, `ChoiceReturns`, `WaitTick` |
| submenus, stream list, stream window | `Finder` | `ToggleMenu`, `ClickOutside`, `SetStreamFilter`, `ListAnswered`, `OpenStream`, `StreamArrives`, `SwitchTab`, `CloseStream` |

*Data.* A replay answer is its file and offset, a picture in `Playback` the set of
answers and live frames drawn since it was cleared. In `GraphMirror` an item is a node or
an edge and its look a version, a position one of a few spots. A packet is its id and
where it comes from. Search results are the sources they came from. Text, markup and
formatting are left out. A node's signature tells what its colour mode shows: in the
colours of roles that is the look without the tier (`Form`); the browser may have saved
that mode (`SavedModes`). The size of a node, which the solar map's signature leaves out,
is no part of a look. The focus of `Details` keeps the set it saved at the click (`keep`), while hosts
and edges (`joined`) come and go under it; `Restyled` re-applies that set, and a
recolouring undims everything in GL and vis (`Recolor`). The solar map's selection by
rectangle has a dimming of its own, in `CosmosScene`. `Hub` and `GraphMirror` overlap on purpose: `Hub` has the hub's
interleaving with a plain screen, `GraphMirror` the page's interleaving with a plain hub.

*History variables* (`missed`, `lost`, `given`, `seen`, `cursorRun`, `want`, `births`, `washed`)
are never read by a guard of an action.

### The renderers: LabelAtlas, GLScene, CosmosScene

A turn of the page changes DataSets and bodies and marks what is stale; a frame or a
timer brings the buffers up to date, and only those that are marked. In `GLScene` these
are `Turn`, `SetValueRange`, `Ease`, `Snap`, `Select`, `Spawn` against `Draw` and
`Hover`, with the camera's `UserMoves`, `Fit` and `FitPoll`; `Asked` of `LabelAtlas` is
`_atlasSprite`. In `CosmosScene` the DataSet events, `Move`, `Focus`, `RectSelect`,
`Click`, `Hover`, `Zoom` and `SetRawTopology` stand against `TopoFires`, `StyleFires`,
`Frame` and `ParticleFrame`, which all upload parts of the same arrays. A place is the
column of the hit grid it falls in, a size its value scaled to a few numbers, a label a
text with an extent, a particle its step along an edge. `_particleCap` adapts to the frame
time between 60 and 240: `Spawn` takes any cap of `Caps`. Shaders and pixel geometry are
left out. A restyle writes the place its DataSet item has, which may not be where the body
is: `Turn` moves it there. History: `bare` (which buffers do not know where a node has
been put, by a redraw that marks nothing, or a restyle, which marks no edges), `unpushed`.

## What the runs check

| run | instance | shows |
| --- | --- | --- |
| `store_safety` | 2 packets sharing a row, 2 flows, 1 file, batch 2, channel 1, drain 1, 2 captures, 2 processes, 1 fault; 3.7 million states | bucket ledger, agreement of the tables, completeness, monotone totals, refinement of `PcapCache` |
| `store_live` | a file of 3 packets, or live; `-db-packets` off, every packet and 1/2; channel 2, batch 2, drain 2; 1 process, 1 fault, fairness; 222 thousand states | `EndCapture` and `Close` return, queued rows reach the writer, the row ledger in every index mode: each row stored, waiting or in a count of drops, and what `EndCapture` and `Close` may leave unwritten |
| `hub_reconnect` | one browser, two connections, two graphs, chunks of two nodes, send buffer of two, one event; 2.6 million states | one close, no send after it; the queue rebuilds the hub's baseline; edges have their ends |
| `hub_races` | one connection, two graphs, three stored windows, three events; 5.4 million states | nothing is forgotten by the flags |
| `hub_live` | one connection, three graphs, three windows, one event, every second rebuild of a large graph, fairness | dropped clients are disconnected; screens catch up |
| `graph_merges` | three hosts' addresses, one taken for a group's, two link-layer endpoints, two names, three MACs; any four of six packets, three clock periods, sweeps of one node and two edges; 309 thousand states | indexes, adjacency, counts and anchors follow every re-keying; a packet's addresses, MACs and edge end up together; decay takes no host that was heard, and leaves only stale edges bare |
| `playback` | two controls (one deferred), two files and a vanished one, two captures of different bounds, four sockets, three events, fairness | the server plays what the page shows; the slider settles; one file at a time; the live stream comes back |
| `mirror` | three nodes, one edge, two looks that differ in their tier only, starting in the colours of roles, two spots, chunks of two, labels up to two nodes, two messages under way, four changes, two lost connections, resyncs or themes; 3.9 million states | the picture is the server's baseline; gliding nodes move; looks are current, but for a tier not shown yet |
| `packets` | ring of two, polls of two, cache of two, a file of two, four packets per run, two calls under way, three acts | the ring across its wrap; no packet falls between polls; payloads on their id |
| `finder` | two hosts, two queries, three searches, one retry, two protocols, two streams, four acts, an edge that comes and goes; symmetric in each set; 585 thousand states | panel and focus follow the user, and the dimming the focus; details arrive; popup and windows are current |
| `renderers` | two nodes joined both ways, two places, two values; an atlas of 4 by 4 that three of four texts fill; three acts in GL, four in the solar map; 1.9 million states | buffers, hits, particles, fit, atlas; arrays, colours, places and frozen sizes |
| `details_hang` | two hosts, four acts, fair microtasks | violated: a page that comes back to its events |

The bounds are the least that let each interesting case happen: a channel of one
is full after one row; with a file of three packets, a channel, a batch and a drain of
two leave one row at the stamp and none after `Close` (the code's 16384, 5000 and 20000
leave up to 1383, and none); two packets that share
a row make a cumulative row change in two flushes; two processes and two captures
make a crash, a retry, a prune and a reused rowid possible; a second fault only
repeats the first. The proofs remove the bounds for safety. For the hub: a picture of
three nodes in chunks of two has an edge across chunks; a full picture is more than a
send buffer of two holds, once a reader is slow; a second connection of the same
browser meets the first one's screen; three events put a packet, an edit or a message
before, inside and after one tick. For the graph: with the threshold at one period and
the MAC window at two, as 60 and 90 seconds, an anchor can be fresh, silent but not yet
swept, or gone; four packets promote two hosts, find the MAC shared or the host
re-addressed, and come once more; the address taken for a group's comes with a MAC, the
endpoint of an LLDP frame is a MAC itself; one node per sweep makes a corpse wait for its turn.
For the page: three user events suffice to enter a mode, act in it and leave it, or
to lose the socket in between, with two files or captures to confuse; two messages and
a held delta put a full before, between and after two deltas; a ring and cache of two
wrap and evict with the third packet, and two calls answer in either order; three
searches make one outdated twice; four acts focus a host, let an edge come or go under
the focus, recolour and draw again. Looks that differ in their tier only are those a
signature can miss, and a browser that starts in the colours of roles misses them before
the first switch. For the renderers: one act changes a body, the next
comes before or after the frame, the third undoes it; in the GL instance the least
place and value of the first picture are the smallest there are (the others are shifts of
it), a later turn changes one node, as several turns before a frame change several, and
one that moves a node by a restyle does nothing else; the third text fills the
atlas and the fourth wipes it. Every module but `CaptureStore`, `Hub` and
`GraphIdentity` counts acts of its environment in `acts` or `events`, and stops when they
are used up and all is quiet: this is why `CHECK_DEADLOCK` is off there. In
`CaptureStore` the last process has exited; in `Hub` events and connections are used up
and the hub idles.

One type invariant per module is a conjunct of a property of its run
(`IdentitiesResolve`, `ScreensAreSound`, `PositionsAgree`, `MirrorIsWhole`,
`TableIsComplete`, `WindowsAgree`, `ParticlesFlow`); that of `CaptureStore` is proved.

*Fairness.* `main`, the channel send and the writer's own steps are weakly fair
(goroutines run; SQL statements end). A Go select picks among ready cases at
random, so a case that stays ready is not passed over for ever: strong fairness
for `WriterServesFlush` and `WriterSeesDone`, which compete with a channel that
can be always ready. The ticker is weakly fair. Boot, signals, packets, crashes
and faults are the environment's and have no fairness.
In the hub, the steps of a tick, the pumps and the browser's timer are weakly fair,
and a read fails once its socket is closed. The select picks at random among what is
ready whenever the hub is back there, and the tick's timer is re-armed at the end of
each tick: strong fairness for `Register`, `Unregister`, `ResyncAll` and `TickStarts`.
`CountersSpec` adds that ticks keep falling past the counters' interval if ticks keep
coming at all. Connections, packets, edits and controls have no fairness.
In `Playback` retry timers fire, a closing socket ends its handshake, and an attempt to
connect that the network does not break opens (breaks are counted in `MaxEvents`). In
`Details` the browser empties its microtask queue.

### What the code does not do

`details_hang`, the finding of `PROJECT.json`: hovering a node starts a fetch of its
detail; clicking it before the answer makes `showNodeDetails` ask again, which
`fetchNodeDetail` refuses at once because one is pending, with the bare meta;
the continuation takes it for the detail, shows the node again and asks again. Promise
continuations run before events, so the answer is never taken and the tab hangs.

The following definitions are true to what a comment of the code says and do **not** hold;
each stays in its module, and added to the named configuration as the only property it
shows the counterexample. No run checks them.

| property | configuration | what happens |
| --- | --- | --- |
| `CaptureStore!CompleteIsFullyIngested` (store.go:190) | `CaptureStore_safety` | `flush` forgets what a failed transaction held, and `EndCapture` stamps the capture complete all the same: the cache then serves a part of the file |
| `CaptureStore!StoredTotalsAreCumulative` (writer.go:52) | `CaptureStore_live` | `main` ends the capture without waiting for the ingest goroutine: a packet recorded after `dropCapture` restarts a cumulative row, and the last flush overwrites the larger total |
| `GraphIdentity!PromotionKeepsNames` (graph.go:629) | `GraphIdentity_merges` | a host that has its name is keyed by it, and the promotion to the MAC mistakes a name that is the node's id for a missing one |
| `Hub!ScreenIsBaseline`, `GraphMirror!HeldDeltasCoalesce` (app.js:2697) | `Hub_races`; `GraphMirror_stream` | the throttle keeps the newest of two pending deltas, but a delta is a difference to the one before it: the older one's changes are lost until the next full |
| `Hub!CountersRefresh` (websocket.go:94) | `Hub_live` with `CountersSpec`, `Graphs <- CountedGraphs`, `FirstGraph <- Grown` | a tick within a second of the last counts frame clears the dirty flag without sending counters; if traffic stops there they are never sent |
| `Playback!ReplayShowsOffset` (app.js:2893) | `Playback_sessions` | a replay frame carries no `fullDone`, so what an earlier offset has not yet stays drawn after scrubbing back |
| `PacketPanel!PayloadOfItsPacket` (app.js:2138) | `PacketPanel_table` | ids start at 1 in every run and file, so a late answer of another one fills the inspector |
| `GLScene!FitOfTheirOwn` (glrenderer.js:548) | `Renderers_frames` | the Fit button does not count as the user's camera move: the automatic fit goes on |

The invariants of the passing runs exempt exactly these cases (`lossy`, `late`,
`lost`, `adrift`, `bare`), and four more that the code gives no word on, each modelled:

* a count of dropped rows is forgotten by a flush that has nothing else to write
  (`writer.go:249-252`; `unreported`), and rows of a replay beyond one drain are written
  only after its capture is stamped complete (`FewLeft`);
* in the colours of roles a delta that changes only a node's tier is spared, the DataSet
  item keeps the old tier, and a switch to the colours of traffic paints that one until the
  node's next delta (`app.js:2980-2989`, `3500-3508`; `LooksCurrent` asks for the latest
  tier only of what was drawn in the colours of traffic since);
* a recolouring undims the hosts outside the focus in GL and vis until the next drawn
  update (`app.js:3500-3515`, `glrenderer.js:607`; `washed`), and what is dimmed then is
  what lay outside the focus at the click: a neighbour that joins later is dimmed, one
  whose edge is gone stays bright (`app.js:3292`);
* a recolouring writes the place of the last restyle over a body that has been eased or
  dragged since, and marks nodes and hits but not edges: lines end where the node was
  until something marks them (`app.js:3500-3510`, `glrenderer.js:532-533`, `605-606`; `bare`).

Where a MAC is both an endpoint and beside an address, a heard host can be swept, as said
under *Limits* of `GraphIdentity`; names and addresses that no node lists keep index
entries that lead nowhere.

Further observations, met while modelling and left as modelled or out:
a browser in raw mode since its reconnection that leaves it between a tick's two reads of
the client gets a difference to an empty baseline before its full picture, and draws it on
what the earlier connection left (`websocket.go:441`; `adrift` exempts it until the next
full completes);
two sockets after a replay entered and left while a retry is pending, and a live socket
that opens during a replay; a replay answer or a held delta drawn after the graph was
cleared for the other mode; pausing at the end of a stored capture leaves the server
at the end while the page rewinds; `recolorAllNodes` forgets the subnet and tail flags and
uses cached overrides; a node's carry-over loses the MACs of its detail; a first
chunk of a full cancels a held delta, and what that one would have removed stays, an edge
possibly without its end, until the full's last chunk (`app.js:2664`; `lost` exempts it); a server restart leaves the
packet cursor ahead, and the table stands still until ids catch up; arrow keys index the
unfiltered table with the filtered index; an inspector opened without a selection stays
at "Loading…"; the search popup returns after the box is cleared; a replay search does not
outdate a payload search; the stream list takes the last answer, and a closed stream
window reopens; a refused `/api/node` is asked for ever; in GL, dragging a pinned node
or selecting only redraws without marking buffers, and the last particle's dot stays;
in the solar map the rectangle's dimming waits for the next colour push, and adds and
removes that keep coming postpone the rebuild.

## What is proved

`CaptureStore_proofs` proves, for every value of the constants that satisfies
`ConstantsAssumption` (any number of packets, captures, processes and faults, any
capacities): `TypeOK`, `BucketLedger`, `RowLedger`, `TablesAgree`,
`CompleteIsExact` and the action property `TotalsGrow`.

None of these is inductive. The inductive invariant `IInv` is built in layers, each
inductive relative to the ones before it. *Control*: without an open session
memory is empty; the writer is between the two halves of a flush request exactly
while `EndCapture` waits; a batch exists only inside a transaction. *RowControl*:
the session's row is open until `EndCapture` stamps it, and is pruned only when
nothing is left to write. *Ledgers*: the buckets in memory are exactly what was
recorded since the last snapshot. *Aggregates*: until `dropCapture` the cumulative
rows are exact and every packet since the snapshot has its rows dirty; from
`EndCapture`'s snapshot on nothing is dirty; a batch holds the snapshot's counts
for its rows, and what it leaves out is already stored; between flushes the stored
set is the last snapshot. `TablesAgree` then follows from the batch facts at each
commit, `CompleteIsExact` from the flushed facts at the stamp, `TotalsGrow` from
comparing stored totals with the last snapshot. Counting rests on lemmas on the
cardinality of `InKey` and `InFlow` from the library's finite-set theorems. *Drains*
follows the rows of a replay: while the writer serves `EndCapture` no new ones come, so
what waits when it replies is what was queued, at most a channel and a batch less one,
less one drain; and less two when the writer has seen `done` and left.

`Hub_proofs` proves `ChannelClosedOnce` for any number of connections, graphs, events
and any send buffer, from no assumption on the constants. Its inductive invariant
`ChannelInv` says that a client of the hub has been registered and its channel is open,
that a connection is handed to the hub once, and that within a tick the current client
and those still to come are the hub's: `trySend` takes out only the current one, which
is then left, and `Unregister` waits for the end of the tick.
It also proves `NothingForgotten`, under `HubAssumption` and whatever `Picture` is.
`CatchUpInv` generalises it to every moment of a tick: a client's last view was built from
what there is now, or the client is `Due`: a flag, a dirty graph, an override handler
between its save and its mark, or a place in the tick under way still leads to it.
`SnapshotIsCurrent` is what makes the shared snapshot safe (it is the graph, or the graph
is dirty again), `ModeAgrees` what makes the mode read before the build safe.
It proves `StreamRebuildsBaseline` and `ScreensAreSound` under `HubAssumption` too: for any
pictures, chunk size, send buffer, browsers and connections. As in `GraphMirror` the argument
is about drawings, but the throttle is in it: `Start` is what a screen draws once its held
delta is applied, `Turn` what one message makes of a drawing. `Holds` says of a queue that every
prefix of it, from `Start`, leaves no edge without an end, and that all of it ends in the
hub's baseline if the connection is still the hub's: one that was dropped as a slow consumer
keeps what was queued, which leads nowhere in particular. `Forgets` says the same from *any*
drawing that lost a delta, at any message that does not continue a chunked picture: this is
what makes a delta that overwrites a held one, or the first chunk of a full that cancels it,
harmless after the next complete full. `Leads` is the tick's half: what a build sends takes
any drawing of the old baseline to the new one, by an induction over the chunks (what is not
yet named is dropped by the last). `OneOpen` is what keeps an earlier connection's frames out
of the screen, and `Ordered` that a browser is never handed the middle of a picture first.

`GraphIdentity_proofs` proves `AdjacencyExact` and `AnchorsHold` for any addresses,
names, MACs, packets, caps and thresholds, with no assumption on the constants. The
argument is about graph values: `GraphInv` (the fields are there, the adjacency index is
exact, anchors lead to live nodes that carry the MAC and are not shared) is kept by every
helper of the manager, and `Ingest` is a composition of helpers. Two lemmas carry it. A
merge keeps it because no re-keyed edge contains the old end, so none lands on an edge
that is about to go, and because an anchor is repointed together with the MACs of its
node (`MergeKeeps`); every other change only makes the graph grow in the sense of
`Grown`. `AnchorsHold` is inductive as it stands; the sweep's cleanup needs just that, as
it drops an anchor only through the list of the node that goes.

It also proves `TrafficAccounted`, again for any values of the constants. The library's
sum over a set is a chosen recursive function on the set's parts, which no prover here can
unfold by induction over an operator. `Sums` names that function, `SumsExist` builds one
for every finite set, and `SumsAgree` (by a least counterexample) shows that there is only
one; from there `TotalAdd`, `TotalSplit`, `TotalPlus` and `TotalFibres` are the laws of
finite sums: one more term, two disjoint sets, two weights, and a set cut into the fibres
of a map. A merge is such a map: `Rekeyed` sends each edge that stays to the edge it
becomes, `Sources` are its fibres, and what it sends to a loop is folded away
(`MergedEdgesCount`); at the nodes two terms become one (`MergedNodesCount`). `Counts` says
of a helper how many packets it adds to nodes and to edges: one and none for an endpoint,
none and one for an edge, none at all for MACs, promotions and demotions, so a packet adds
two and one (`IngestedCounts`) and `LedgerInv` balances at every step. Of `GraphInv` it
needs the shape of the records only.

`IdentitiesResolve` is proved under `GraphAssumption`, for any packets: types, listed
addresses and where a packet lands need nothing of the endpoints. `Sound` says that every
value has its type and an address in a list leads to the node that lists it; `Follows` that
every node of one graph has become a node of the next, alone or with others, where its
addresses lead and its MACs are carried and anchored, unless they are gateways'. Each helper
of the manager takes a sound graph to a sound one that follows it (`MergeSound` carries this,
`AlikeSound` and `LandedSound` do for what only adds), so that what the first half of a
packet has put together (`On`), the second half cannot take apart, whatever it folds,
promotes or demotes: `IngestedSound`. `SoundInv` is the invariant.

The part on shared MACs, and `DecayTakesOnlySilent`, ask for `LinkLayerApart`: no MAC that
is an endpoint of its own is beside an address too, and names look like no address, MAC or
label. Without it they do not hold (see *Limits*), so it is a hypothesis, in the property
and of the theorems, and not of the model; `MCGraphIdentity` assumes it of its instance,
where TLC evaluates it. `HostsInv` is the invariant. `Sorted`: a name or label in use is the
id of its own node, and a node that is no group's has an address that is none. `Keyed`: a
node whose id is an address, or a MAC seen beside one, has that index entry, so a merge
into the id cannot land on a node that someone else's entry leads to. `Lasting` and
`Recent`: both ends of an edge that is not due, and the node of an address heard within the
threshold, are there and were seen no earlier. Neither half is inductive through the middle
of a packet, so both have an exemption that is empty between steps. A merge keeps the
`LastSeen` of the node that stays, which may be older than its new edges, until
`AddOrUpdateNode` stamps it: `Fresh` exempts that id (`MergeFresh`, `LandedHosts`). And when
a MAC turns out to be a gateway's its entry goes before the node that is keyed by it does:
`Hosts` exempts that MAC (`DemoteHosts`). `NodesFolded`, `EdgesFolded` and `GraphFolded` say
in one closed form what `MergeNodeInto` computes; every other lemma argues from those.

`CaptureStore_proofs` also proves `ImplementsPcapCache` under `ConstantsAssumption`: the
initial state maps to an initial state, every step to a step of `PcapCache` or a stutter.
The mapping (`CacheOf`, `PhaseOf`, `CountsOf`, `WholeOf`) reads tables and the control of
`main`, so `IInv` is not enough; `ReplayInv` adds what the graph of a replay shows while
it parses, that a file has at most one row, that only sessions without a file record
late, and that a row of a file never counts more than the file. With these a stamp makes
a cached capture whole unless a flush failed, and a prune or a retry makes it absent.

`Finder_proofs` proves `ViewFollowsUser` and `DetailsArrive` for any hosts, queries and
streams and any number of acts, under `DetailsAssumption` (`None` is no host, no panel
and no metadata; `Peer` is a function on hosts). `DimmedByFocus`, the half of
`ViewFollowsUser` about the focus, is inductive with the types of what it speaks of
(`SightTypes`). `DetailInv` adds two facts. `Looping`:
a continuation that is due belongs to the node of the panel, which is still in view, not
loaded and being fetched. `Awaited`: a panel of a node that has not left the view since,
and has no detail, has a call of its own under way. Search, menus and stream windows
change these variables only by showing a host, which is a lemma. It proves `PopupIsCurrent`
and `WindowsAgree` too, under `FinderAssumption`. For the popup, `GuardsAreNewest`:
`serverSearchId` is the number of the newest search and `payloadSearchId` that of the
newest of the capture, all later ones being replay searches, so an answer that passes its
guard is of the search that is shown. For the windows, what is in the stream window always
belongs to the stream of its title (`MenuInv`); the bounds of the counters complete the types.

`GraphMirror_proofs` proves `GlidersMove` and `LooksCurrent` for any graph, and from no
assumption on what the server sends: `PageInv` is kept by each operator the callbacks are
built from, for any message at all. What it adds to the two is that a signature, when
there is one, is what the mode it was drawn in tells of the version drawn. It proves `MirrorIsWhole` (types, edges with their
ends, and the mirror rebuilt from what is under way) for any pictures and chunk sizes
under `MirrorAssumption`. The argument leaves the page for *drawings*: the nodes and edges the
page knows of (`meta`), its resync sets and the flags that messages change; `Dressed` says
apart that the DataSets hold just what the page knows of. `MessagesDraw` says that a callback changes the
drawing as one closed form does, so that the whole stream under way has a run of drawings,
which ends in the server's baseline (`Landing`). Taking the oldest message leaves that run's
rest; sending one appends to it; a full picture in chunks ends where the picture does, from
wherever it starts, because its removals take all that no chunk has named. What a lost delta
would have changed is forgotten by the next full: two runs that differ only before it agree
after its last chunk (`FullsForget`).

`Playback_proofs` proves `OneFileDrawn`, `ScrubSettles` and `PositionsAgree` for any
controls, files, captures, offsets, sockets and number of events, under
`PlaybackAssumption`. `Numbered` says that no request has a sequence number that
was not given yet, and that the one with the newest number asks for the file in replay
and, unless the trailing timer is to ask again, for its offset; `Covered` that the
present offset is drawn, or the newest request still under way to bring it. For
`PositionsAgree`, `Foretold` looks ahead: what the server will hold of a control, or of the
position, once it has taken all that is under way on the page's open socket, is what the
page shows. A message decides its own kind and no other, and taking the oldest one changes
nothing of that outcome, each a lemma.

`PacketPanel_proofs` proves `RingHoldsNewest`, `PayloadOfItsId` and `TableIsComplete`
(rows, cache, `NothingSkipped`) for any size of ring, batch, cache and file and any
number of packets, restarts, overlapping polls and acts, under `PanelAssumption`. `RingOK`
reads the ring from its head: place `i` holds the id `next - size - 1 + i`, before the wrap
and after. `CacheInv` says that an evicted id stood below `CacheSize` others. `InspectorInv`
that the newest inspector number belongs to the packet shown. `CoverInv` that whatever
the ring still has up to the cursor, or up to the id an answer under way will move it to,
is with the page, or in that answer, as long as both are of one run of the server.

`Renderers_proofs` proves `BuffersFollow`, `ParticlesFlow`, `AutoFitYields`, `SpritesApart`,
`SolarFollows` and the action property `SizesFrozen`, for any nodes, edges, places, values,
texts and canvas, under `SceneAssumption`, `AtlasAssumption` and `RenderersAssumption`. Only
one renderer exists at a time, so the inductive `PageInv` has a part for each. For GL,
`BuffersOK`: a buffer that is not dirty is as the bodies say, but for nodes moved without marking that
buffer (`bare`: a bare redraw marks none, a restyle at another place not the edges), and what is dirty has a frame queued, unless there is nothing
to draw; `CameraOK`, `PartsOK`, and `Packed`, which adds to `SpritesApart` that every sprite is
behind the cursor: above the shelf, or on it, left of the cursor and no higher than its row.
For the solar map: `Topology` (the arrays list the bodies, or a rebuild is awaited), `Looks`
and `Places` (colours and places are the bodies', or marked with their push or frame to
come) and `Frozen` (a frozen size is the uploaded one); from the last, `SizesFrozen`. `Trail`
says that streaks stay within their cap and that the loop runs while any is left. What the loops compute (`Kept`, `AskedAll`, `EnteredAll`) is
proved by induction on the loop's counter: recursive functions over an initial segment of
the naturals, with `LeastNat` (the library's well-founded minimum) in place of its induction
theorems, whose operator parameter the provers cannot instantiate.

Only model-checked: liveness (out of the prover's reach) and the violation. Every other
property of a run is stated by a theorem.

## Plan

Done: `CaptureStore`* with `PcapCache`*, `GraphIdentity`*, `Hub`*, the page
(`Playback`*, `GraphMirror`*, `Details`*, `Finder`*, `PacketPanel`*) and its renderers
(`LabelAtlas`*, `GLScene`*, `CosmosScene`*; those marked * have proofs). Left, in this order:

1. An abstract mirror (a queue of differences to a baseline) that both `Hub` and
   `GraphMirror` implement.
2. `StreamLRU`: cap, agreement of map and list.
3. `CapturePause` (local and SSH, signal order) and `PcapWriter`.
4. `RateLimiter`, `TickPacer`, `RoleDamping`: numeric edges.
5. `ReplayCache`, `DNSResolver`: work done outside a lock.
6. `DaemonLifecycle`, `LogRotate`: two processes on one file.
7. `BulkLoad`; the timeline cache; view hysteresis.

Hazards of these parts that are not in `PROJECT.json`: the replay cache closes a reader
another request uses (`replaycache.go:38`); the refill of the rate limiter
(`ratelimit.go:61`); two signals served out of order (`main.go:417`); two starts that
both pass the PID check (`daemon.go:21`); rotation by two processes (`logrotate.go:133`);
a timeline cache of a capture that still records (`timeline.go:78`); the view table's
reset (`view.go:219`); equal ports (`stream.go:171`).

## Not modelled

* The 3D game mode of `app.js` (5284 to 8900): a Three.js scene with its own animation
  loop, physics and input, on random numbers and floating-point geometry; nothing but the
  node list comes in and nothing goes out. The chimpy walker, the flow overlay, legends,
  statistics charts and form fields likewise only draw what is there.
* `search-worker.js` is loaded by no page; `colorutil.js` is pure conversion.
* vis-network, the third renderer, is a vendored library; shaders, CSS and the geometry of
  pixels have no state a property could be about.
* Packet parsing, classification and vendor tables: pure lookups. Flag parsing.
* The server's layouts, grouping and tooltips: geometry over a snapshot.
* What the plan above has left.

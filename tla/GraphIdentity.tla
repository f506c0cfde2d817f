---------------------------- MODULE GraphIdentity ----------------------------
(***************************************************************************)
(* The graph manager (graph/graph.go, graph/decay.go): which host a packet *)
(* belongs to.  A node is keyed by an address, by a host name or by a MAC, *)
(* and is re-keyed whenever a packet tells more (or less) about its host;  *)
(* three index maps and an adjacency index must follow every re-keying.    *)
(*                                                                         *)
(* `g' is the part of Manager guarded by m.mu, passed through the helpers  *)
(* of one critical section as a value:                                     *)
(*   nodes   id -> node            edges  set of one or two ids -> edge    *)
(*   ipTo, nameTo, macTo           the index maps to node ids              *)
(*   shared  MACs seen on two live hosts                                   *)
(*   adj     id -> set of edges (edgesByNode)                              *)
(* An edge is keyed by the set of its ends: getCanonicalEdgeID joins them  *)
(* in string order, which Rank gives.  Byte counters, protocols, flows,    *)
(* ports, peers and search text are left out.                              *)
(***************************************************************************)
EXTENDS Naturals, Sequences, FiniteSets, FiniteSetsExt, Loops

CONSTANTS
  Addrs,        \* addresses a packet can name (an L2 endpoint is a MAC)
  Names,        \* host names DNS or LLDP can give
  Macs,         \* MACs that isHostMAC accepts; any other one is NoMac
  NoName, NoMac,
  GroupLabel,   \* the label of each multicast or broadcast address
  Rank,         \* the order of strings, the empty one included
  Packets,      \* the packets on the wire
  Threshold,    \* -node-ttl
  MacWindow,    \* macActiveWindow
  NodeCap,      \* maxNodeRemovalsPerSweep
  EdgeCap,      \* maxEdgeRemovalsPerSweep
  MaxPackets,   \* bound: packets ingested
  MaxTime       \* bound: the clock

VARIABLES
  g,            \* the graph under Manager.mu
  now,          \* the clock, in units of the decay threshold's resolution
  sweep,        \* "idle", or "edges" between the two halves of cleanup
  ledger,       \* packets ingested, and what decay has taken away with it
  heard         \* address -> when a packet last named it

vars == <<g, now, sweep, ledger, heard>>

Groups == DOMAIN GroupLabel
Labels == {GroupLabel[a] : a \in Groups}
Ids    == Addrs \cup Names \cup Macs \cup Labels

ASSUME GraphAssumption ==
  /\ Groups \subseteq Addrs
  /\ NoName \notin Ids
  /\ NoMac \notin Macs
  /\ Rank \in [Ids \cup {NoName} -> Nat]
  /\ \A a, b \in Ids \cup {NoName} : Rank[a] = Rank[b] => a = b
  /\ Packets \subseteq [src : Addrs, dst : Addrs,
                        srcName : Names \cup Addrs \cup {NoName},
                        dstName : Names \cup Addrs \cup {NoName},
                        srcMAC : Macs \cup {NoMac}, dstMAC : Macs \cup {NoMac}]
  /\ Threshold \in Nat /\ MacWindow \in Nat
  /\ NodeCap \in Nat /\ EdgeCap \in Nat
  /\ MaxPackets \in Nat /\ MaxTime \in Nat

\* The MACs beside the addresses of some packet, as IP and ARP frames have them.
MacsBeside == Macs \cap ({p.srcMAC : p \in Packets} \cup {p.dstMAC : p \in Packets})

\* The MACs that LLDP, CDP and STP frames have for endpoints (extractL2Endpoints,
\* capture.go:524-531) are not seen beside an address too, and the names of devices and of
\* DNS look like no address, MAC or label: a hypothesis of some theorems, which an instance
\* may or may not satisfy.  Without it the code does otherwise (see HeardHostsStay).
LinkLayerApart ==
  /\ Addrs \cap MacsBeside = {} /\ Addrs \cap Names = {} /\ Names \cap MacsBeside = {}
  /\ Labels \cap (Addrs \cup Names \cup MacsBeside) = {}
  /\ \A p \in Packets : p.srcName \in Names \cup {p.src, NoName} /\ p.dstName \in Names \cup {p.dst, NoName}

-----------------------------------------------------------------------------
(* Maps *)

Put(f, k, v)   == [x \in DOMAIN f \cup {k} |-> IF x = k THEN v ELSE f[x]]
Without(f, S)  == [x \in DOMAIN f \ S |-> f[x]]
\* Variant: lookups keep naming the node that was merged away.
RepointedNever(f, old, new) == f

Repointed(f, old, new) == [x \in DOMAIN f |-> IF f[x] = old THEN new ELSE f[x]]
Resolve(f, k)  == IF k \in DOMAIN f THEN f[k] ELSE k

Elements(s) == {s[i] : i \in DOMAIN s}

\* What s lacks of t is appended to it, in t's order.
Extended(s, t) ==
  s \o Kept(t, {i \in DOMAIN t : t[i] \notin Elements(s)})

(* The adjacency index *)

\* Variant: an edge is dropped at one of its ends only.
UnindexedAtOneEnd(adj, E) ==
  LET left == [n \in DOMAIN adj |-> {e \in adj[n] :
                 ~(e \in E /\ n \in e /\ \A x \in e : Rank[n] <= Rank[x])}]
  IN  [n \in {k \in DOMAIN left : left[k] # {}} |-> left[n]]

Unindexed(adj, E) ==
  LET left == [n \in DOMAIN adj |-> {e \in adj[n] : ~(e \in E /\ n \in e)}]
  IN  [n \in {k \in DOMAIN left : left[k] # {}} |-> left[n]]

Indexed(adj, E) ==
  [n \in DOMAIN adj \cup UNION E |->
     (IF n \in DOMAIN adj THEN adj[n] ELSE {}) \cup {e \in E : n \in e}]

-----------------------------------------------------------------------------
(* Merging: node `old' and its edges are folded into `new'.  The key of an *)
(* edge changes with its end, an edge between the two disappears, and two  *)
(* edges that become one add up, forward to forward.                       *)

Rekeyed(e, old, new) == {IF x = old THEN new ELSE x : x \in e}

\* Variant: a merge takes over the addresses and the counts, not the MACs.
MergedNodeWithoutMACs(nodes, new, old, name) ==
  IF new \notin DOMAIN nodes
  THEN [nodes[old] EXCEPT !.name = name]
  ELSE [nodes[new] EXCEPT
          !.packets = @ + nodes[old].packets,
          !.ips     = Extended(@, nodes[old].ips)]

MergedNode(nodes, new, old, name) ==
  IF new \notin DOMAIN nodes
  THEN [nodes[old] EXCEPT !.name = name]
  ELSE [nodes[new] EXCEPT
          !.packets = @ + nodes[old].packets,
          !.ips     = Extended(@, nodes[old].ips),
          !.macs    = @ \cup nodes[old].macs]

MergedNodes(nodes, new, old, name) ==
  IF old \notin DOMAIN nodes
  THEN nodes
  ELSE Without(Put(nodes, new, MergedNode(nodes, new, old, name)), {old})

\* The edges that become e, e itself if it is there and does not touch old.
Sources(edges, e, new, old) ==
  {s \in DOMAIN edges : Rekeyed(s, old, new) = e /\ (old \in s => Cardinality(e) = 2)}

\* Variant: of two edges that become one, the larger counts survive.
MergedEdgeByMax(edges, S) ==
  [fwd  |-> Max({edges[s].fwd : s \in S}),
   rev  |-> Max({edges[s].rev : s \in S}),
   seen |-> Max({edges[s].seen : s \in S})]

MergedEdge(edges, S) ==
  [fwd  |-> MapThenSumSet(LAMBDA s : edges[s].fwd, S),
   rev  |-> MapThenSumSet(LAMBDA s : edges[s].rev, S),
   seen |-> Max({edges[s].seen : s \in S})]

MergeNodeInto(gr, new, old, name) ==
  LET moved  == {e \in DOMAIN gr.edges : old \in e}
      loops  == {e \in moved : Rekeyed(e, old, new) = {new}}
      landed == {Rekeyed(e, old, new) : e \in moved \ loops}
      added  == landed \ DOMAIN gr.edges
  IN [gr EXCEPT
        !.nodes = MergedNodes(@, new, old, name),
        !.edges = [e \in (DOMAIN @ \ moved) \cup landed |->
                     MergedEdge(@, Sources(@, e, new, old))],
        !.adj   = Indexed(Unindexed(@, moved), added),
        !.ipTo  = Repointed(@, old, new),
        !.macTo = Repointed(@, old, new),
        !.folded = @ + MapThenSumSet(LAMBDA e : gr.edges[e].fwd + gr.edges[e].rev, loops)]

-----------------------------------------------------------------------------
(* One endpoint of a packet *)

UseName(ip, name) == name # NoName /\ name # ip

\* A usable name decides whose node it is, and is taken if it is nobody's.
NodeIDOf(gr, ip, name) == IF UseName(ip, name) THEN Resolve(gr.nameTo, name) ELSE ip

Named(gr, ip, name) ==
  IF UseName(ip, name) THEN [gr EXCEPT !.nameTo = Put(@, name, NodeIDOf(gr, ip, name))] ELSE gr

\* A node the address belonged to before is folded into the one it belongs to now.
Joined(gr, ip, name) ==
  LET id == NodeIDOf(gr, ip, name)
  IN IF Resolve(gr.ipTo, ip) # id /\ ip \in DOMAIN gr.ipTo
     THEN MergeNodeInto(Named(gr, ip, name), id, gr.ipTo[ip], name)
     ELSE Named(gr, ip, name)

AddOrUpdateNode(gr, ip, given, t) ==
  LET name    == IF ip \in Groups THEN GroupLabel[ip] ELSE given
      id      == NodeIDOf(gr, ip, name)
      joined  == Joined(gr, ip, name)
      fresh   == [name |-> name, ips |-> <<ip>>, macs |-> {}, packets |-> 1,
                  seen |-> t, group |-> ip \in Groups]
      \* The test that would append ip to the list reads the entry just
      \* written for it, so a node that exists keeps its list.
      updated == [joined.nodes[id] EXCEPT
                    !.packets = @ + 1,
                    !.seen    = t,
                    !.name    = IF UseName(ip, name) /\ @ = id THEN name ELSE @,
                    !.group   = @ \/ ip \in Groups]
  IN [joined EXCEPT
        !.ipTo  = Put(@, ip, id),
        !.nodes = Put(@, id, IF id \in DOMAIN @ THEN updated ELSE fresh)]

\* The addresses of a list that are not those of groups, in order.
HostAddrs(s) == Kept(s, {i \in DOMAIN s : s[i] \notin Groups})

PromoteNodeIDToMAC(gr, id, mac) ==
  IF id = mac \/ mac \in gr.shared \/ gr.nodes[id].group \/ id \in Macs
  THEN gr
  ELSE LET own    == gr.nodes[id].name
           hosts  == HostAddrs(gr.nodes[id].ips)
           name   == IF own \notin {NoName, id} THEN own
                     ELSE IF hosts # <<>> THEN Head(hosts) ELSE id
           merged == MergeNodeInto(gr, mac, id, name)
           kept   == IF id \in DOMAIN gr.nameTo /\ gr.nameTo[id] = id
                     THEN Without(gr.nameTo, {id}) ELSE gr.nameTo
       IN [merged EXCEPT
             !.nodes[mac].name = IF @ \in {NoName, mac} THEN name ELSE @,
             !.macTo  = Put(@, mac, mac),
             !.nameTo = IF name # mac THEN Put(kept, name, mac) ELSE kept]

DemoteMACIdentity(gr, mac) ==
  IF mac \notin DOMAIN gr.nodes
  THEN gr
  ELSE LET hosts == HostAddrs(gr.nodes[mac].ips)
           new   == IF hosts = <<>> THEN mac ELSE Head(hosts)
           own   == gr.nodes[mac].name
           name  == IF own \in {NoName, mac} THEN new ELSE own
           merged == MergeNodeInto(gr, new, mac, name)
       IN IF new = mac
          THEN gr
          ELSE [merged EXCEPT
                  !.nodes[new].name = IF @ \in {NoName, mac} THEN name ELSE @]

\* The node of one end of a packet and the MAC beside it.  A second live
\* node on the MAC makes it a gateway's; a silent one is the same host under
\* an address it had before.
RecordMAC(gr, id, mac, t) ==
  LET noted  == [gr EXCEPT !.nodes[id].macs = @ \cup {mac}]
      anchor == gr.macTo[mac]
      Anchored(h) == PromoteNodeIDToMAC([h EXCEPT !.macTo = Put(@, mac, id)], id, mac)
      Free   == mac \in DOMAIN gr.macTo => anchor = id \/ anchor \notin DOMAIN gr.nodes
  IN IF mac \notin Macs \/ id \notin DOMAIN gr.nodes THEN gr
     ELSE IF mac \in gr.shared THEN noted
     ELSE IF Free THEN Anchored(noted)
     ELSE IF t - gr.nodes[anchor].seen < MacWindow
          THEN DemoteMACIdentity([noted EXCEPT !.shared = @ \cup {mac},
                                               !.macTo  = Without(@, {mac})], mac)
          ELSE Anchored(MergeNodeInto(noted, id, anchor, gr.nodes[id].name))

AddOrUpdateEdge(gr, src, dst, t) ==
  LET from == Resolve(gr.ipTo, src)
      to   == Resolve(gr.ipTo, dst)
      e    == {from, to}
      isForward == Rank[from] <= Rank[to]
      was  == IF e \in DOMAIN gr.edges THEN gr.edges[e] ELSE [fwd |-> 0, rev |-> 0, seen |-> t]
  IN [gr EXCEPT
        !.edges = Put(@, e, [fwd  |-> was.fwd + (IF isForward THEN 1 ELSE 0),
                             rev  |-> was.rev + (IF isForward THEN 0 ELSE 1),
                             seen |-> t]),
        !.adj   = IF e \in DOMAIN gr.edges THEN @ ELSE Indexed(@, {e})]

Ingested(gr, p, t) ==
  LET ends == AddOrUpdateNode(AddOrUpdateNode(gr, p.src, p.srcName, t), p.dst, p.dstName, t)
      src  == RecordMAC(ends, ends.ipTo[p.src], p.srcMAC, t)
      dst  == RecordMAC(src, src.ipTo[p.dst], p.dstMAC, t)
  IN  AddOrUpdateEdge(dst, p.src, p.dst, t)

-----------------------------------------------------------------------------
(* The system *)

Empty == [x \in {} |-> x]

Init ==
  /\ g = [nodes |-> Empty, edges |-> Empty, ipTo |-> Empty, nameTo |-> Empty,
          macTo |-> Empty, shared |-> {}, adj |-> Empty, folded |-> 0]
  /\ now = 0
  /\ sweep = "idle"
  /\ ledger = [packets |-> 0, nodes |-> 0, edges |-> 0]
  /\ heard = Empty

Ingest ==
  \E p \in Packets :
    /\ ledger.packets < MaxPackets
    /\ g' = Ingested(g, p, now)
    /\ ledger' = [ledger EXCEPT !.packets = @ + 1]
    /\ heard' = Put(Put(heard, p.src, now), p.dst, now)
    /\ UNCHANGED <<now, sweep>>

\* Variant: a node goes at the threshold, not past it.
StaleNodesEarly == {n \in DOMAIN g.nodes : now - g.nodes[n].seen >= Threshold}

StaleNodes == {n \in DOMAIN g.nodes : now - g.nodes[n].seen > Threshold}
StaleEdges == {e \in DOMAIN g.edges : now - g.edges[e].seen > Threshold}

NodeEarlier(a, b) ==
  \/ g.nodes[a].seen < g.nodes[b].seen
  \/ g.nodes[a].seen = g.nodes[b].seen /\ Rank[a] < Rank[b]

\* Edge ids compare as strings: first by the lower end, then by the other.
Low(e)  == CHOOSE x \in e : \A y \in e : Rank[x] <= Rank[y]
High(e) == CHOOSE x \in e : \A y \in e : Rank[y] <= Rank[x]
EdgeEarlier(a, b) ==
  \/ g.edges[a].seen < g.edges[b].seen
  \/ /\ g.edges[a].seen = g.edges[b].seen
     /\ \/ Rank[Low(a)] < Rank[Low(b)]
        \/ Low(a) = Low(b) /\ Rank[High(a)] < Rank[High(b)]

\* A sweep takes the longest silent, up to its cap.
StalestNodes ==
  {n \in StaleNodes : Cardinality({k \in StaleNodes : NodeEarlier(k, n)}) < NodeCap}
StalestEdges ==
  {e \in StaleEdges : Cardinality({k \in StaleEdges : EdgeEarlier(k, e)}) < EdgeCap}

RemoveStaleNodes ==
  /\ sweep = "idle"
  /\ LET gone  == StalestNodes
         addrs == UNION {Elements(g.nodes[n].ips) : n \in gone}
         names == gone \cup {g.nodes[n].name : n \in gone}
         macs  == {m \in DOMAIN g.macTo : g.macTo[m] \in gone /\ m \in g.nodes[g.macTo[m]].macs}
     IN /\ g' = [g EXCEPT !.nodes  = Without(@, gone),
                          !.ipTo   = Without(@, addrs),
                          !.nameTo = Without(@, names),
                          !.macTo  = Without(@, macs)]
        /\ ledger' = [ledger EXCEPT
             !.nodes = @ + MapThenSumSet(LAMBDA n : g.nodes[n].packets, gone)]
  /\ sweep' = "edges"
  /\ UNCHANGED <<now, heard>>

RemoveStaleEdges ==
  /\ sweep = "edges"
  /\ LET gone == StalestEdges
     IN /\ g' = [g EXCEPT !.edges = Without(@, gone),
                          !.adj   = Unindexed(@, gone)]
        /\ ledger' = [ledger EXCEPT
             !.edges = @ + MapThenSumSet(LAMBDA e : g.edges[e].fwd + g.edges[e].rev, gone)]
  /\ sweep' = "idle"
  /\ UNCHANGED <<now, heard>>

Tick ==
  /\ now < MaxTime
  /\ now' = now + 1
  /\ UNCHANGED <<g, sweep, ledger, heard>>

Next == Ingest \/ RemoveStaleNodes \/ RemoveStaleEdges \/ Tick

Spec == Init /\ [][Next]_vars

-----------------------------------------------------------------------------
(* Properties *)

Node == [name : Ids \cup {NoName}, ips : Seq(Addrs), macs : SUBSET Macs,
         packets : Nat, seen : 0..MaxTime, group : BOOLEAN]
Edge == [fwd : Nat, rev : Nat, seen : 0..MaxTime]
EdgeIds == {{a, b} : a, b \in Ids}

\* A map from some of S to T.
IsMap(f, S, T) == DOMAIN f \subseteq S /\ \A x \in DOMAIN f : f[x] \in T

\* The shape of Manager's maps, and of what the model adds to them.
TypeOK ==
  /\ IsMap(g.nodes, Ids, Node)
  /\ IsMap(g.edges, EdgeIds, Edge)
  /\ IsMap(g.ipTo, Addrs, Ids)
  /\ IsMap(g.nameTo, Ids, Ids)
  /\ IsMap(g.macTo, Macs, Ids)
  /\ g.shared \subseteq Macs
  /\ IsMap(g.adj, Ids, SUBSET EdgeIds)
  /\ g.folded \in Nat
  /\ now \in 0..MaxTime
  /\ sweep \in {"idle", "edges"}
  /\ ledger \in [packets : 0..MaxPackets, nodes : Nat, edges : Nat]
  /\ IsMap(heard, Addrs, 0..MaxTime)

\* edgesByNode (graph.go:165-168) lists under every end of an edge exactly
\* the edges with that end, and keeps no empty set, through every insert,
\* delete and re-key.
AdjacencyExact ==
  g.adj = [n \in UNION DOMAIN g.edges |-> {e \in DOMAIN g.edges : n \in e}]

\* An address in a node's list resolves to that node: no address is listed by two nodes,
\* and a merge moves the index with the list.  The converse does not hold: a node does
\* not list what came to it by its name (graph.go:344), and the index entry of such an
\* address outlives the node, as a name's entry outlives a MAC's node (graph.go:673, 707).
ListedResolves ==
  \A n \in DOMAIN g.nodes : \A a \in Elements(g.nodes[n].ips) :
    a \in DOMAIN g.ipTo /\ g.ipTo[a] = n

\* A MAC that anchors a node anchors a live one, which carries the MAC, and
\* is not a gateway's.
AnchorsHold ==
  \A m \in DOMAIN g.macTo :
    /\ m \notin g.shared
    /\ g.macTo[m] \in DOMAIN g.nodes
    /\ m \in g.nodes[g.macTo[m]].macs

\* Decay takes no host that was heard within the threshold, under any of its addresses:
\* whatever merges and re-keyings lie between, the address still resolves to a node of the
\* graph, last seen no earlier.  A MAC that is an endpoint of its own and is then seen
\* beside an address breaks this: the node of the address is folded into the endpoint's,
\* which keeps its own time (graph.go:401, 664).
HeardHostsStay ==
  \A a \in DOMAIN heard : now - heard[a] <= Threshold =>
    /\ a \in DOMAIN g.ipTo
    /\ g.ipTo[a] \in DOMAIN g.nodes
    /\ g.nodes[g.ipTo[a]].seen >= heard[a]

\* No packet is lost or counted twice by merging: what was ingested is what
\* nodes and edges hold, what decay removed with them, and the traffic
\* between two nodes that turned out to be one host.
TrafficAccounted ==
  /\ 2 * ledger.packets = ledger.nodes
       + MapThenSumSet(LAMBDA n : g.nodes[n].packets, DOMAIN g.nodes)
  /\ ledger.packets = ledger.edges + g.folded
       + MapThenSumSet(LAMBDA e : g.edges[e].fwd + g.edges[e].rev, DOMAIN g.edges)

\* An edge that lost an end to decay is itself due to decay: the picture
\* keeps no live edge to a node that is gone.
BareEdgesAreStale ==
  \A e \in DOMAIN g.edges : e \subseteq DOMAIN g.nodes \/ e \in StaleEdges

\* A shared MAC is no node's identity (graph.go:618-619): the host that was
\* keyed by it before the second one appeared is keyed by an address again,
\* and nothing that is still in the indexes brings the MAC back.
SharedMacIsNoIdentity == g.shared \cap DOMAIN g.nodes = {}

\* The step that ingests p.
Ingests(p) == g' = Ingested(g, p, now) /\ ledger'.packets # ledger.packets

\* Address a is on a node, which carries the MAC m beside it; m anchors that same node,
\* unless it is a gateway's.
Belongs(a, m) ==
  /\ a \in DOMAIN g.ipTo
  /\ g.ipTo[a] \in DOMAIN g.nodes
  /\ m \in Macs => /\ m \in g.nodes[g.ipTo[a]].macs
                   /\ m \in g.shared \/ (m \in DOMAIN g.macTo /\ g.macTo[m] = g.ipTo[a])

\* Whatever a packet re-keys, folds, promotes or demotes, it leaves each of its addresses and
\* the MAC beside it on one node of the graph, and the edge seen now between the two nodes;
\* the second end's MAC may fold or demote the node of the first.
PacketsLand ==
  [][\A p \in Packets : Ingests(p) =>
       /\ Belongs(p.src, p.srcMAC)' /\ Belongs(p.dst, p.dstMAC)'
       /\ LET e == {g'.ipTo[p.src], g'.ipTo[p.dst]}
          IN  e \in DOMAIN g'.edges /\ g'.edges[e].seen = now]_vars

\* graph.go:629: "Human-readable Hostname and multi-IP lists are preserved."
\* A packet whose source has a resolved name leaves the source's node under
\* some resolved name.
PromotionKeepsNames ==
  [][\A p \in Packets : Ingests(p) /\ p.srcName \in Names /\ p.src \notin Groups =>
       g'.nodes[g'.ipTo[p.src]].name \in Names]_vars

\* Every variable has its type; an address that a node lists resolves to it; a packet lands,
\* both addresses with their MACs, on the nodes its edge joins; and, when link-layer
\* endpoints are apart, a MAC that two hosts have is no identity (resolveNodeID,
\* AddOrUpdateNode, recordMACLocked, demoteMACIdentity).
IdentitiesResolve ==
  /\ [](TypeOK /\ ListedResolves /\ (LinkLayerApart => SharedMacIsNoIdentity))
  /\ PacketsLand

\* Decay takes no host that was heard within its time, and leaves an edge without an end
\* only until the next sweep (decayGraph).
DecayTakesOnlySilent == HeardHostsStay /\ BareEdgesAreStale
=============================================================================

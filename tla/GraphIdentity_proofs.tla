------------------------- MODULE GraphIdentity_proofs -------------------------
(***************************************************************************)
(* Proofs about GraphIdentity for every value of its constants: the        *)
(* adjacency index is exact, a MAC anchors only a live node that carries   *)
(* it and is not a gateway's, no packet is lost or counted twice, an       *)
(* address leads to the node that lists it, and a packet lands on the      *)
(* nodes its edge joins; and, while a MAC that is an endpoint of its own   *)
(* is not seen beside an address too, a gateway's MAC is no identity and   *)
(* decay takes only what is silent.                                        *)
(*                                                                         *)
(* The argument is about graphs, not about the system: each helper of the  *)
(* manager takes a graph with GraphInv to a graph with GraphInv and counts *)
(* what it should, and Ingest is a composition of helpers.  A sum over a   *)
(* finite set is a function on its parts that takes the set apart one      *)
(* element at a time; there is one such function, and its value does not   *)
(* depend on the order.                                                    *)
(***************************************************************************)
EXTENDS GraphIdentity, FiniteSetTheorems, WellFoundedInduction, TLAPS

Fields == {"nodes", "edges", "ipTo", "nameTo", "macTo", "shared", "adj", "folded"}
NodeFields == {"name", "ips", "macs", "packets", "seen", "group"}

AdjOf(D) == [n \in UNION D |-> {e \in D : n \in e}]

Shape(gr) ==
  /\ DOMAIN gr = Fields
  /\ \A n \in DOMAIN gr.nodes : DOMAIN gr.nodes[n] = NodeFields
Adjacent(gr) == gr.adj = AdjOf(DOMAIN gr.edges)
Anchors(gr) ==
  \A m \in DOMAIN gr.macTo :
    /\ m \notin gr.shared
    /\ gr.macTo[m] \in DOMAIN gr.nodes
    /\ m \in gr.nodes[gr.macTo[m]].macs

GraphInv(gr) == Shape(gr) /\ Adjacent(gr) /\ Anchors(gr)

-----------------------------------------------------------------------------
(* Maps and the adjacency index *)

\* Unindexing some edges of an exact index leaves the exact index of the rest.
LEMMA UnindexedExact ==
  ASSUME NEW D, NEW E
  PROVE  Unindexed(AdjOf(D), E) = AdjOf(D \ E)
<1> DEFINE left == [n \in DOMAIN AdjOf(D) |-> {e \in AdjOf(D)[n] : ~(e \in E /\ n \in e)}]
<1>1. DOMAIN left = UNION D /\ \A n \in UNION D : left[n] = {e \in D \ E : n \in e}
  BY DEF AdjOf
<1>2. {k \in DOMAIN left : left[k] # {}} = UNION (D \ E)
  <2>1. ASSUME NEW k \in UNION (D \ E) PROVE k \in DOMAIN left /\ left[k] # {}
    BY <1>1, <2>1
  <2>2. ASSUME NEW k \in DOMAIN left, left[k] # {} PROVE k \in UNION (D \ E)
    BY <1>1, <2>2
  <2> QED BY <2>1, <2>2
<1>3. Unindexed(AdjOf(D), E) = [n \in {k \in DOMAIN left : left[k] # {}} |-> left[n]]
  BY DEF Unindexed
<1> HIDE DEF left
<1>4. \A n \in UNION (D \ E) : left[n] = {e \in D \ E : n \in e}
  BY <1>1
<1> QED BY <1>2, <1>3, <1>4 DEF AdjOf

\* Indexing edges in an exact index gives the exact index of all of them.
LEMMA IndexedExact ==
  ASSUME NEW D, NEW E
  PROVE  Indexed(AdjOf(D), E) = AdjOf(D \cup E)
<1>1. DOMAIN AdjOf(D) \cup UNION E = UNION (D \cup E)
  BY DEF AdjOf
<1>2. ASSUME NEW n \in UNION (D \cup E)
      PROVE  (IF n \in DOMAIN AdjOf(D) THEN AdjOf(D)[n] ELSE {}) \cup {e \in E : n \in e}
               = {e \in D \cup E : n \in e}
  BY DEF AdjOf
<1> QED BY <1>1, <1>2 DEF Indexed, AdjOf

-----------------------------------------------------------------------------
(* Merging *)

\* The edges a merge re-keys, and the ids they get.
Moved(gr, old) == {e \in DOMAIN gr.edges : old \in e}
Landed(gr, new, old) ==
  {Rekeyed(e, old, new) :
     e \in Moved(gr, old) \ {e \in Moved(gr, old) : Rekeyed(e, old, new) = {new}}}

\* M is, field by field, what a merge of old into new makes of gr.
FieldsMerged(gr, M, new, old, name) ==
  /\ DOMAIN M = Fields
  /\ M.nodes = MergedNodes(gr.nodes, new, old, name)
  /\ DOMAIN M.edges = (DOMAIN gr.edges \ Moved(gr, old)) \cup Landed(gr, new, old)
  /\ M.adj = Indexed(Unindexed(gr.adj, Moved(gr, old)),
                     Landed(gr, new, old) \ DOMAIN gr.edges)
  /\ M.macTo = Repointed(gr.macTo, old, new)
  /\ M.shared = gr.shared

\* MergeNodeInto does that.
LEMMA MergeFields ==
  ASSUME NEW gr, NEW new, NEW old, NEW name, Shape(gr)
  PROVE  FieldsMerged(gr, MergeNodeInto(gr, new, old, name), new, old, name)
  BY DEF MergeNodeInto, Shape, Fields, Moved, Landed, FieldsMerged

\* The adjacency index follows the re-keying of a merge: no re-keyed edge
\* meets an id that is about to go, since the old end is in none of them.
LEMMA MergeAdjacent ==
  ASSUME NEW gr, NEW new, NEW old, NEW name, Shape(gr), Adjacent(gr), new # old
  PROVE  Adjacent(MergeNodeInto(gr, new, old, name))
<1> DEFINE D      == DOMAIN gr.edges
           moved  == Moved(gr, old)
           landed == Landed(gr, new, old)
           M      == MergeNodeInto(gr, new, old, name)
<1>1. DOMAIN M.edges = (D \ moved) \cup landed
      /\ M.adj = Indexed(Unindexed(gr.adj, moved), landed \ D)
  <2>1. FieldsMerged(gr, M, new, old, name)
    BY MergeFields
  <2> QED BY <2>1 DEF FieldsMerged
<1>2. \A e : old \notin Rekeyed(e, old, new)
  BY DEF Rekeyed
<1>3. \A e \in landed : e \notin moved
  BY <1>2 DEF Moved, Landed
<1>4. (D \ moved) \cup (landed \ D) = (D \ moved) \cup landed
  BY <1>3
<1>5. gr.adj = AdjOf(D)
  BY DEF Adjacent
<1> HIDE DEF D, moved, landed, M
<1>6. M.adj = AdjOf((D \ moved) \cup (landed \ D))
  <2>1. Unindexed(gr.adj, moved) = AdjOf(D \ moved)
    BY <1>5, UnindexedExact
  <2>2. Indexed(AdjOf(D \ moved), landed \ D) = AdjOf((D \ moved) \cup (landed \ D))
    BY IndexedExact
  <2> QED BY <1>1, <2>1, <2>2
<1>7. M.adj = AdjOf(DOMAIN M.edges)
  BY <1>1, <1>4, <1>6
<1> QED BY <1>7 DEF Adjacent, M

\* N is what a merge of old into new may make of nodes.
NodesMerged(nodes, N, new, old) ==
  /\ old \notin DOMAIN nodes => N = nodes
  /\ old \in DOMAIN nodes =>
       /\ DOMAIN N = (DOMAIN nodes \cup {new}) \ {old}
       /\ nodes[old].macs \subseteq N[new].macs
  /\ new \in DOMAIN nodes => nodes[new].macs \subseteq N[new].macs
  /\ \A n \in DOMAIN nodes \ {new, old} : N[n] = nodes[n]
  /\ \A n \in DOMAIN N : DOMAIN N[n] = NodeFields

\* Which nodes a merge leaves, and that the MACs of both are on the new one.
LEMMA MergeNodes ==
  ASSUME NEW gr, NEW new, NEW old, NEW name, Shape(gr), new # old
  PROVE  NodesMerged(gr.nodes, MergedNodes(gr.nodes, new, old, name), new, old)
<1> DEFINE nodes == gr.nodes
           K     == MergedNode(nodes, new, old, name)
           N     == MergedNodes(nodes, new, old, name)
<1>0. \A n \in DOMAIN nodes : DOMAIN nodes[n] = NodeFields
  BY DEF Shape
<1>1. CASE old \notin DOMAIN nodes
  BY <1>0, <1>1 DEF MergedNodes, NodesMerged
<1>2. CASE old \in DOMAIN nodes
  <2>1. DOMAIN K = NodeFields /\ nodes[old].macs \subseteq K.macs
        /\ (new \in DOMAIN nodes => nodes[new].macs \subseteq K.macs)
    <3>1. CASE new \in DOMAIN nodes
      <4>1. K = [nodes[new] EXCEPT
                   !.packets = @ + nodes[old].packets,
                   !.ips     = Extended(@, nodes[old].ips),
                   !.macs    = @ \cup nodes[old].macs]
        BY <3>1 DEF MergedNode
      <4> QED BY <1>0, <3>1, <4>1 DEF NodeFields
    <3>2. CASE new \notin DOMAIN nodes
      <4>1. K = [nodes[old] EXCEPT !.name = name]
        BY <3>2 DEF MergedNode
      <4> QED BY <1>0, <1>2, <3>2, <4>1 DEF NodeFields
    <3> QED BY <3>1, <3>2
  <2>2. N = Without(Put(nodes, new, K), {old})
    BY <1>2 DEF MergedNodes
  <2> HIDE DEF K, N
  <2>3. DOMAIN N = (DOMAIN nodes \cup {new}) \ {old}
        /\ N[new] = K
        /\ \A n \in DOMAIN nodes \ {new, old} : N[n] = nodes[n]
    <3>1. DOMAIN Put(nodes, new, K) = DOMAIN nodes \cup {new}
          /\ Put(nodes, new, K)[new] = K
          /\ \A n \in DOMAIN nodes \ {new} : Put(nodes, new, K)[n] = nodes[n]
      BY DEF Put
    <3> QED BY <2>2, <3>1 DEF Without
  <2>4. \A n \in DOMAIN N : DOMAIN N[n] = NodeFields
    BY <1>0, <2>1, <2>3
  <2> QED BY <1>2, <2>1, <2>3, <2>4 DEF N, NodesMerged
<1> QED BY <1>1, <1>2

\* M is what a merge of old into new may make of gr.
Merged(gr, M, new, old) ==
  /\ GraphInv(M)
  /\ M.shared = gr.shared
  /\ DOMAIN M.macTo = DOMAIN gr.macTo
  /\ new \in DOMAIN gr.nodes \/ old \in DOMAIN gr.nodes => new \in DOMAIN M.nodes
  /\ old \in DOMAIN gr.nodes => gr.nodes[old].macs \subseteq M.nodes[new].macs
  /\ new \in DOMAIN gr.nodes => gr.nodes[new].macs \subseteq M.nodes[new].macs

\* A merge keeps the invariant, the shared MACs and the anchored ones.
LEMMA MergeKeeps ==
  ASSUME NEW gr, NEW new, NEW old, NEW name, GraphInv(gr), new # old
  PROVE  Merged(gr, MergeNodeInto(gr, new, old, name), new, old)
<1> DEFINE M == MergeNodeInto(gr, new, old, name)
           N == MergedNodes(gr.nodes, new, old, name)
<1>0. Shape(gr) /\ Adjacent(gr) /\ Anchors(gr)
  BY DEF GraphInv
<1>1. /\ DOMAIN M = Fields
      /\ M.nodes = N
      /\ M.macTo = Repointed(gr.macTo, old, new)
      /\ M.shared = gr.shared
  <2>1. FieldsMerged(gr, M, new, old, name)
    BY <1>0, MergeFields
  <2> QED BY <2>1 DEF FieldsMerged
<1>2. Adjacent(M)
  BY <1>0, MergeAdjacent
<1>3. NodesMerged(gr.nodes, N, new, old)
  BY <1>0, MergeNodes
<1> HIDE DEF M, N
<1>4. DOMAIN M.macTo = DOMAIN gr.macTo
      /\ \A m \in DOMAIN gr.macTo :
           M.macTo[m] = IF gr.macTo[m] = old THEN new ELSE gr.macTo[m]
  BY <1>1 DEF Repointed
<1>5. Anchors(M)
  <2> SUFFICES ASSUME NEW m \in DOMAIN gr.macTo
               PROVE  m \notin M.shared /\ M.macTo[m] \in DOMAIN M.nodes
                      /\ m \in M.nodes[M.macTo[m]].macs
    BY <1>4 DEF Anchors
  <2>1. m \notin gr.shared /\ gr.macTo[m] \in DOMAIN gr.nodes
        /\ m \in gr.nodes[gr.macTo[m]].macs
    BY <1>0 DEF Anchors
  <2>2. CASE gr.macTo[m] = old
    BY <1>1, <1>3, <1>4, <2>1, <2>2 DEF NodesMerged
  <2>3. CASE gr.macTo[m] = new
    <3>1. M.macTo[m] = new /\ m \in N[new].macs
      BY <1>3, <1>4, <2>1, <2>3 DEF NodesMerged
    <3>2. new \in DOMAIN N
      BY <1>3, <2>1, <2>3 DEF NodesMerged
    <3> QED BY <1>1, <2>1, <3>1, <3>2
  <2>4. CASE gr.macTo[m] \notin {old, new}
    <3>1. M.macTo[m] = gr.macTo[m] /\ N[gr.macTo[m]] = gr.nodes[gr.macTo[m]]
      BY <1>3, <1>4, <2>1, <2>4 DEF NodesMerged
    <3>2. gr.macTo[m] \in DOMAIN N
      BY <1>3, <2>1, <2>4 DEF NodesMerged
    <3> QED BY <1>1, <2>1, <3>1, <3>2
  <2> QED BY <2>2, <2>3, <2>4
<1>6. Shape(M)
  BY <1>1, <1>3 DEF Shape, NodesMerged
<1>7. new \in DOMAIN gr.nodes \/ old \in DOMAIN gr.nodes => new \in DOMAIN N
  BY <1>3 DEF NodesMerged
<1> QED BY <1>1, <1>2, <1>3, <1>4, <1>5, <1>6, <1>7 DEF GraphInv, Merged, NodesMerged, M

-----------------------------------------------------------------------------
(* The other helpers *)

\* h has the edges of gr, its nodes with all their MACs, and no anchor that
\* is neither an old one nor a node carrying the MAC.
Grown(gr, h) ==
  /\ DOMAIN h = Fields
  /\ h.edges = gr.edges
  /\ h.adj = gr.adj
  /\ \A n \in DOMAIN h.nodes : DOMAIN h.nodes[n] = NodeFields
  /\ \A n \in DOMAIN gr.nodes : n \in DOMAIN h.nodes /\ gr.nodes[n].macs \subseteq h.nodes[n].macs
  /\ \A m \in DOMAIN h.macTo :
       /\ m \notin h.shared
       /\ \/ m \in DOMAIN gr.macTo /\ h.macTo[m] = gr.macTo[m]
          \/ h.macTo[m] \in DOMAIN h.nodes /\ m \in h.nodes[h.macTo[m]].macs

\* A graph that only grew keeps the invariant.
LEMMA GrownKeeps ==
  ASSUME NEW gr, NEW h, GraphInv(gr), Grown(gr, h)
  PROVE  GraphInv(h)
<1>1. Shape(h)
  BY DEF Grown, Shape
<1>2. Adjacent(h)
  BY DEF Grown, GraphInv, Adjacent
<1>3. ASSUME NEW m \in DOMAIN h.macTo
      PROVE  /\ m \notin h.shared
             /\ h.macTo[m] \in DOMAIN h.nodes
             /\ m \in h.nodes[h.macTo[m]].macs
  BY DEF Grown, GraphInv, Anchors
<1> QED BY <1>1, <1>2, <1>3 DEF GraphInv, Anchors

\* One endpoint of a packet.
LEMMA AddOrUpdateNodeKeeps ==
  ASSUME NEW gr, NEW ip, NEW given, NEW t, GraphInv(gr)
  PROVE  GraphInv(AddOrUpdateNode(gr, ip, given, t))
<1> DEFINE name    == IF ip \in Groups THEN GroupLabel[ip] ELSE given
           useName == UseName(ip, name)
           id      == NodeIDOf(gr, ip, name)
           named   == Named(gr, ip, name)
           joined  == Joined(gr, ip, name)
           fresh   == [name |-> name, ips |-> <<ip>>, macs |-> {}, packets |-> 1,
                       seen |-> t, group |-> ip \in Groups]
           updated == [joined.nodes[id] EXCEPT
                         !.packets = @ + 1,
                         !.seen    = t,
                         !.name    = IF useName /\ @ = id THEN name ELSE @,
                         !.group   = @ \/ ip \in Groups]
           node    == IF id \in DOMAIN joined.nodes THEN updated ELSE fresh
           result  == AddOrUpdateNode(gr, ip, given, t)
<1>1. result = [joined EXCEPT
                  !.ipTo  = Put(@, ip, id),
                  !.nodes = Put(@, id, IF id \in DOMAIN @ THEN updated ELSE fresh)]
  BY DEF AddOrUpdateNode
<1>2. GraphInv(named)
  <2>1. CASE useName
    <3>1. named = [gr EXCEPT !.nameTo = Put(@, name, id)]
      BY <2>1 DEF Named
    <3> HIDE DEF named, useName, name, id
    <3>2. Grown(gr, named)
      BY <3>1 DEF Grown, GraphInv, Shape, Fields, Anchors
    <3> QED BY <3>2, GrownKeeps
  <2>2. CASE ~useName
    BY <2>2 DEF Named
  <2> QED BY <2>1, <2>2
<1>3. GraphInv(joined)
  <2>1. CASE Resolve(gr.ipTo, ip) # id /\ ip \in DOMAIN gr.ipTo
    <3>1. gr.ipTo[ip] # id
      BY <2>1 DEF Resolve
    <3>2. joined = MergeNodeInto(named, id, gr.ipTo[ip], name)
      BY <2>1 DEF Joined
    <3> HIDE DEF named, id, name, joined
    <3> QED BY <1>2, <3>1, <3>2, MergeKeeps DEF Merged
  <2>2. CASE ~(Resolve(gr.ipTo, ip) # id /\ ip \in DOMAIN gr.ipTo)
    <3>1. joined = named
      BY <2>2 DEF Joined
    <3> QED BY <1>2, <3>1
  <2> QED BY <2>1, <2>2
<1>4. DOMAIN node = NodeFields
      /\ (id \in DOMAIN joined.nodes => joined.nodes[id].macs \subseteq node.macs)
  <2>1. CASE id \in DOMAIN joined.nodes
    <3>1. DOMAIN joined.nodes[id] = NodeFields
      BY <1>3, <2>1 DEF GraphInv, Shape
    <3>2. node = updated
      BY <2>1
    <3> HIDE DEF joined, id, useName, name
    <3> QED BY <3>1, <3>2 DEF NodeFields
  <2>2. CASE id \notin DOMAIN joined.nodes
    <3>1. node = fresh
      BY <2>2
    <3>2. DOMAIN fresh = NodeFields
      BY DEF NodeFields
    <3> QED BY <2>2, <3>1, <3>2
  <2> QED BY <2>1, <2>2
<1>5. result = [joined EXCEPT !.ipTo = Put(@, ip, id), !.nodes = Put(@, id, node)]
  <2> HIDE DEF joined, id, updated, fresh, result
  <2>1. DOMAIN joined = Fields
    BY <1>3 DEF GraphInv, Shape
  <2> QED BY <1>1, <2>1 DEF Fields
<1> HIDE DEF joined, id, node, result
<1>6. /\ DOMAIN result = Fields
      /\ result.nodes = Put(joined.nodes, id, node)
      /\ result.edges = joined.edges
      /\ result.adj = joined.adj
      /\ result.macTo = joined.macTo
      /\ result.shared = joined.shared
  BY <1>3, <1>5 DEF GraphInv, Shape, Fields
<1>7. Grown(joined, result)
  <2>1. /\ DOMAIN result.nodes = DOMAIN joined.nodes \cup {id}
        /\ result.nodes[id] = node
        /\ \A n \in DOMAIN joined.nodes : n # id => result.nodes[n] = joined.nodes[n]
    BY <1>6 DEF Put
  <2>2. \A n \in DOMAIN result.nodes : DOMAIN result.nodes[n] = NodeFields
    BY <1>3, <1>4, <2>1 DEF GraphInv, Shape
  <2>3. \A n \in DOMAIN joined.nodes :
          n \in DOMAIN result.nodes /\ joined.nodes[n].macs \subseteq result.nodes[n].macs
    BY <1>4, <2>1
  <2>4. \A m \in DOMAIN result.macTo : m \notin result.shared
    BY <1>3, <1>6 DEF GraphInv, Anchors
  <2> QED BY <1>6, <2>2, <2>3, <2>4 DEF Grown
<1>8. GraphInv(result)
  BY <1>3, <1>7, GrownKeeps
<1> QED BY <1>8 DEF result

\* Re-keying a node to its own MAC.
LEMMA PromoteKeeps ==
  ASSUME NEW gr, NEW id, NEW mac, GraphInv(gr),
         id \in DOMAIN gr.nodes, mac \in gr.nodes[id].macs
  PROVE  GraphInv(PromoteNodeIDToMAC(gr, id, mac))
<1> DEFINE own    == gr.nodes[id].name
           hosts  == HostAddrs(gr.nodes[id].ips)
           name   == IF own \notin {NoName, id} THEN own
                     ELSE IF hosts # <<>> THEN Head(hosts) ELSE id
           merged == MergeNodeInto(gr, mac, id, name)
           kept   == IF id \in DOMAIN gr.nameTo /\ gr.nameTo[id] = id
                     THEN Without(gr.nameTo, {id}) ELSE gr.nameTo
           result == [merged EXCEPT
                        !.nodes[mac].name = IF @ \in {NoName, mac} THEN name ELSE @,
                        !.macTo  = Put(@, mac, mac),
                        !.nameTo = IF name # mac THEN Put(kept, name, mac) ELSE kept]
           stays  == id = mac \/ mac \in gr.shared \/ gr.nodes[id].group \/ id \in Macs
<1>1. PromoteNodeIDToMAC(gr, id, mac) = IF stays THEN gr ELSE result
  BY DEF PromoteNodeIDToMAC
<1>2. CASE stays
  BY <1>1, <1>2
<1>3. CASE ~stays
  <2>1. id # mac /\ mac \notin gr.shared
    BY <1>3
  <2> HIDE DEF name, kept, merged
  <2>2. Merged(gr, merged, mac, id)
    BY <2>1, MergeKeeps DEF merged
  <2>3. /\ GraphInv(merged)
        /\ mac \notin merged.shared
        /\ mac \in DOMAIN merged.nodes
        /\ mac \in merged.nodes[mac].macs
    BY <2>1, <2>2 DEF Merged
  <2>4. DOMAIN merged = Fields /\ DOMAIN merged.nodes[mac] = NodeFields
    BY <2>3 DEF GraphInv, Shape
  <2>5. /\ DOMAIN result = Fields
        /\ result.edges = merged.edges /\ result.adj = merged.adj
        /\ result.shared = merged.shared
        /\ result.macTo = Put(merged.macTo, mac, mac)
        /\ DOMAIN result.nodes = DOMAIN merged.nodes
        /\ \A n \in DOMAIN merged.nodes : n # mac => result.nodes[n] = merged.nodes[n]
        /\ DOMAIN result.nodes[mac] = NodeFields
        /\ result.nodes[mac].macs = merged.nodes[mac].macs
    BY <2>3, <2>4 DEF Fields, NodeFields
  <2> HIDE DEF result
  <2>6. Grown(merged, result)
    <3>1. \A n \in DOMAIN result.nodes : DOMAIN result.nodes[n] = NodeFields
      BY <2>3, <2>5 DEF GraphInv, Shape
    <3>2. ASSUME NEW m \in DOMAIN result.macTo
          PROVE  /\ m \notin result.shared
                 /\ \/ m \in DOMAIN merged.macTo /\ result.macTo[m] = merged.macTo[m]
                    \/ result.macTo[m] \in DOMAIN result.nodes
                       /\ m \in result.nodes[result.macTo[m]].macs
      <4>1. CASE m = mac
        BY <2>3, <2>5, <4>1 DEF Put
      <4>2. CASE m # mac
        BY <2>3, <2>5, <4>2 DEF Put, GraphInv, Anchors
      <4> QED BY <4>1, <4>2
    <3> QED BY <2>5, <3>1, <3>2 DEF Grown
  <2>7. GraphInv(result)
    BY <2>3, <2>6, GrownKeeps
  <2> QED BY <1>1, <1>3, <2>7
<1> QED BY <1>2, <1>3

\* Re-keying a node from a MAC that turned out to be a gateway's.
LEMMA DemoteKeeps ==
  ASSUME NEW gr, NEW mac, GraphInv(gr)
  PROVE  GraphInv(DemoteMACIdentity(gr, mac))
<1> DEFINE hosts == HostAddrs(gr.nodes[mac].ips)
           new   == IF hosts = <<>> THEN mac ELSE Head(hosts)
           own   == gr.nodes[mac].name
           name  == IF own \in {NoName, mac} THEN new ELSE own
           merged == MergeNodeInto(gr, new, mac, name)
           result == [merged EXCEPT
                        !.nodes[new].name = IF @ \in {NoName, mac} THEN name ELSE @]
<1>1. DemoteMACIdentity(gr, mac) =
        IF mac \notin DOMAIN gr.nodes \/ new = mac THEN gr ELSE result
  BY DEF DemoteMACIdentity
<1>2. CASE mac \notin DOMAIN gr.nodes \/ new = mac
  BY <1>1, <1>2
<1>3. CASE ~(mac \notin DOMAIN gr.nodes \/ new = mac)
  <2>1. mac \in DOMAIN gr.nodes /\ new # mac
    BY <1>3
  <2> HIDE DEF name, new, merged
  <2>2. Merged(gr, merged, new, mac)
    BY <2>1, MergeKeeps DEF merged
  <2>3. GraphInv(merged) /\ new \in DOMAIN merged.nodes
    BY <2>1, <2>2 DEF Merged
  <2>4. DOMAIN merged = Fields /\ DOMAIN merged.nodes[new] = NodeFields
    BY <2>3 DEF GraphInv, Shape
  <2>5. /\ DOMAIN result = Fields
        /\ result.edges = merged.edges /\ result.adj = merged.adj
        /\ result.shared = merged.shared /\ result.macTo = merged.macTo
        /\ DOMAIN result.nodes = DOMAIN merged.nodes
        /\ \A n \in DOMAIN merged.nodes : n # new => result.nodes[n] = merged.nodes[n]
        /\ DOMAIN result.nodes[new] = NodeFields
        /\ result.nodes[new].macs = merged.nodes[new].macs
    BY <2>3, <2>4 DEF Fields, NodeFields
  <2> HIDE DEF result
  <2>6. Grown(merged, result)
    BY <2>3, <2>5 DEF GraphInv, Shape, Anchors, Grown
  <2>7. GraphInv(result)
    BY <2>3, <2>6, GrownKeeps
  <2> QED BY <1>1, <1>3, <2>7
<1> QED BY <1>2, <1>3

\* The MAC beside one end of a packet: noted on the node, and an anchor, a
\* re-addressing or a gateway.
LEMMA RecordMACKeeps ==
  ASSUME NEW gr, NEW id, NEW mac, NEW t, GraphInv(gr)
  PROVE  GraphInv(RecordMAC(gr, id, mac, t))
<1> DEFINE noted  == [gr EXCEPT !.nodes[id].macs = @ \cup {mac}]
           anchor == gr.macTo[mac]
           Anchored(h) == PromoteNodeIDToMAC([h EXCEPT !.macTo = Put(@, mac, id)], id, mac)
           Free   == mac \in DOMAIN gr.macTo => anchor = id \/ anchor \notin DOMAIN gr.nodes
           gateway == [noted EXCEPT !.shared = @ \cup {mac}, !.macTo = Without(@, {mac})]
           moved   == MergeNodeInto(noted, id, anchor, gr.nodes[id].name)
           result == RecordMAC(gr, id, mac, t)
<1>1. result =
        IF mac \notin Macs \/ id \notin DOMAIN gr.nodes THEN gr
        ELSE IF mac \in gr.shared THEN noted
        ELSE IF Free THEN Anchored(noted)
        ELSE IF t - gr.nodes[anchor].seen < MacWindow
             THEN DemoteMACIdentity(gateway, mac)
             ELSE Anchored(moved)
  BY DEF RecordMAC
<1>2. CASE id \notin DOMAIN gr.nodes
  BY <1>1, <1>2
<1>3. CASE id \in DOMAIN gr.nodes
  <2>1. DOMAIN gr = Fields /\ DOMAIN gr.nodes[id] = NodeFields
    BY <1>3 DEF GraphInv, Shape
  <2>2. /\ DOMAIN noted = Fields
        /\ noted.edges = gr.edges /\ noted.adj = gr.adj
        /\ noted.shared = gr.shared /\ noted.macTo = gr.macTo
        /\ DOMAIN noted.nodes = DOMAIN gr.nodes
        /\ \A n \in DOMAIN gr.nodes : n # id => noted.nodes[n] = gr.nodes[n]
        /\ DOMAIN noted.nodes[id] = NodeFields
        /\ noted.nodes[id].macs = gr.nodes[id].macs \cup {mac}
    BY <1>3, <2>1 DEF Fields, NodeFields
  <2>3. gateway = [noted EXCEPT !.shared = @ \cup {mac}, !.macTo = Without(@, {mac})]
    OBVIOUS
  <2> HIDE DEF noted, gateway
  <2>4. GraphInv(noted)
    <3>1. Grown(gr, noted)
      BY <2>2 DEF GraphInv, Shape, Anchors, Grown
    <3> QED BY <3>1, GrownKeeps
  <2>5. ASSUME NEW h, GraphInv(h), mac \notin h.shared,
               id \in DOMAIN h.nodes, mac \in h.nodes[id].macs
        PROVE  GraphInv(Anchored(h))
    <3> DEFINE k == [h EXCEPT !.macTo = Put(@, mac, id)]
    <3>1. /\ DOMAIN k = Fields
          /\ k.edges = h.edges /\ k.adj = h.adj /\ k.nodes = h.nodes
          /\ k.shared = h.shared /\ k.macTo = Put(h.macTo, mac, id)
      BY <2>5 DEF GraphInv, Shape, Fields
    <3> HIDE DEF k
    <3>2. Grown(h, k)
      <4>1. ASSUME NEW m \in DOMAIN k.macTo
            PROVE  /\ m \notin k.shared
                   /\ \/ m \in DOMAIN h.macTo /\ k.macTo[m] = h.macTo[m]
                      \/ k.macTo[m] \in DOMAIN k.nodes /\ m \in k.nodes[k.macTo[m]].macs
        <5>1. CASE m = mac
          BY <2>5, <3>1, <5>1 DEF Put
        <5>2. CASE m # mac
          BY <2>5, <3>1, <5>2 DEF Put, GraphInv, Anchors
        <5> QED BY <5>1, <5>2
      <4> QED BY <2>5, <3>1, <4>1 DEF GraphInv, Shape, Grown
    <3>3. GraphInv(k)
      BY <2>5, <3>2, GrownKeeps
    <3> QED BY <2>5, <3>1, <3>3, PromoteKeeps DEF k
  <2>6. CASE mac \in gr.shared
    BY <1>1, <2>4, <2>6
  <2>7. CASE mac \notin gr.shared /\ Free
    <3>1. GraphInv(Anchored(noted))
      BY <1>3, <2>2, <2>4, <2>5, <2>7
    <3> HIDE DEF Anchored, Free
    <3> QED BY <1>1, <2>7, <3>1
  <2>8. CASE mac \notin gr.shared /\ ~Free
    <3>1. GraphInv(DemoteMACIdentity(gateway, mac))
      <4>1. /\ DOMAIN gateway = Fields
            /\ gateway.edges = noted.edges /\ gateway.adj = noted.adj
            /\ gateway.nodes = noted.nodes
            /\ gateway.shared = noted.shared \cup {mac}
            /\ gateway.macTo = Without(noted.macTo, {mac})
        BY <2>2, <2>3 DEF Fields
      <4>2. Grown(noted, gateway)
        BY <2>4, <4>1 DEF Without, GraphInv, Shape, Anchors, Grown
      <4> QED BY <2>4, <4>2, GrownKeeps, DemoteKeeps
    <3>2. GraphInv(Anchored(moved))
      <4>1. anchor # id
        BY <2>8
      <4> DEFINE M == MergeNodeInto(noted, id, anchor, gr.nodes[id].name)
      <4>2. Merged(noted, M, id, anchor)
        BY <2>4, <4>1, MergeKeeps
      <4>3. moved = M
        OBVIOUS
      <4> HIDE DEF M, moved, anchor
      <4>4. /\ GraphInv(moved) /\ mac \notin moved.shared
            /\ id \in DOMAIN moved.nodes /\ mac \in moved.nodes[id].macs
        BY <1>3, <2>2, <2>8, <4>2, <4>3 DEF Merged
      <4> HIDE DEF Anchored
      <4> QED BY <2>5, <4>4
    <3> HIDE DEF Anchored, Free, moved, anchor
    <3> QED BY <1>1, <2>8, <3>1, <3>2
  <2> QED BY <2>6, <2>7, <2>8
<1> QED BY <1>2, <1>3

\* The edge of a packet.
LEMMA AddOrUpdateEdgeKeeps ==
  ASSUME NEW gr, NEW src, NEW dst, NEW t, GraphInv(gr)
  PROVE  GraphInv(AddOrUpdateEdge(gr, src, dst, t))
<1> DEFINE e == {Resolve(gr.ipTo, src), Resolve(gr.ipTo, dst)}
           R == AddOrUpdateEdge(gr, src, dst, t)
<1>1. /\ DOMAIN R = Fields
      /\ R.nodes = gr.nodes /\ R.macTo = gr.macTo /\ R.shared = gr.shared
      /\ DOMAIN R.edges = DOMAIN gr.edges \cup {e}
      /\ R.adj = IF e \in DOMAIN gr.edges THEN gr.adj ELSE Indexed(gr.adj, {e})
  BY DEF AddOrUpdateEdge, GraphInv, Shape, Fields, Put
<1> HIDE DEF e, R
<1>2. Adjacent(R)
  <2>1. gr.adj = AdjOf(DOMAIN gr.edges)
    BY DEF GraphInv, Adjacent
  <2>2. CASE e \in DOMAIN gr.edges
    <3>1. DOMAIN R.edges = DOMAIN gr.edges
      BY <1>1, <2>2
    <3> QED BY <1>1, <2>1, <2>2, <3>1 DEF Adjacent
  <2>3. CASE e \notin DOMAIN gr.edges
    <3>1. Indexed(AdjOf(DOMAIN gr.edges), {e}) = AdjOf(DOMAIN gr.edges \cup {e})
      BY IndexedExact
    <3> QED BY <1>1, <2>1, <2>3, <3>1 DEF Adjacent
  <2> QED BY <2>2, <2>3
<1>3. Shape(R) /\ Anchors(R)
  BY <1>1 DEF GraphInv, Shape, Anchors
<1> QED BY <1>2, <1>3 DEF GraphInv, R

-----------------------------------------------------------------------------
(* Sums over finite sets *)

\* Among some naturals there is a least one.
LEMMA LeastNat ==
  ASSUME NEW T, T \subseteq Nat, T # {}
  PROVE  \E x \in T : \A y \in T : x <= y
<1> DEFINE R == OpToRel(<, Nat)
<1>1. IsWellFoundedOn(R, Nat)
  BY NatLessThanWellFounded
<1>2. \A x, y \in Nat : y < x => <<y, x>> \in R
  BY DEF OpToRel
<1> HIDE DEF R
<1>3. PICK x \in T : \A y \in T : ~ (<<y, x>> \in R)
  BY <1>1, WFMin
<1>4. ASSUME NEW y \in T PROVE x <= y
  <2>1. x \in Nat /\ y \in Nat /\ ~(y < x)
    BY <1>2, <1>3
  <2> QED BY <2>1
<1> QED BY <1>4

\* The parts of a finite set are all in G when G has a part as soon as it has those
\* that lack one more element.
LEMMA AllParts ==
  ASSUME NEW S, IsFiniteSet(S), NEW G,
         \A s \in SUBSET S : (\A x \in s : s \ {x} \in G) => s \in G
  PROVE  SUBSET S \subseteq G
<1> DEFINE Bad == {s \in SUBSET S : s \notin G}
           Sizes == {Cardinality(s) : s \in Bad}
<1> SUFFICES ASSUME Bad # {} PROVE FALSE
  OBVIOUS
<1>1. \A s \in SUBSET S : IsFiniteSet(s) /\ Cardinality(s) \in Nat
  BY FS_Subset, FS_CardinalityType
<1>2. Sizes \subseteq Nat /\ Sizes # {}
  BY <1>1
<1>3. PICK s \in Bad : \A t \in Bad : Cardinality(s) <= Cardinality(t)
  <2>1. PICK c \in Sizes : \A y \in Sizes : c <= y
    BY <1>2, LeastNat
  <2> QED BY <2>1
<1>4. \A x \in s : Cardinality(s \ {x}) = Cardinality(s) - 1
  BY <1>1, <1>3, FS_RemoveElement
<1>5. ASSUME NEW x \in s PROVE s \ {x} \in G
  BY <1>1, <1>3, <1>4
<1> QED BY <1>3, <1>5

Pick(s) == CHOOSE x \in s : TRUE

\* h gives every part of S the sum of w over it.
Sums(h, w, S) ==
  h = [s \in SUBSET S |-> IF s = {} THEN 0 ELSE w[Pick(s)] + h[s \ {Pick(s)}]]

Total(w, S) == (CHOOSE h : Sums(h, w, S))[S]

Numbers(w, S) == \A x \in S : w[x] \in Nat

\* The element picked is one of them.
LEMMA PickIn == \A s : s # {} => Pick(s) \in s
  BY DEF Pick

\* Reading h.
LEMMA SumsAt ==
  ASSUME NEW h, NEW w, NEW S, Sums(h, w, S)
  PROVE  /\ h[{}] = 0
         /\ \A s \in SUBSET S : s # {} => h[s] = w[Pick(s)] + h[s \ {Pick(s)}]
  BY DEF Sums

\* There is at most one such h, even for two weights that agree on S.
LEMMA SumsAgree ==
  ASSUME NEW S, IsFiniteSet(S), NEW w, NEW v, \A x \in S : w[x] = v[x],
         NEW h, Sums(h, w, S), NEW k, Sums(k, v, S)
  PROVE  h = k
<1> DEFINE G == {s \in SUBSET S : h[s] = k[s]}
<1>1. ASSUME NEW s \in SUBSET S, \A x \in s : s \ {x} \in G PROVE h[s] = k[s]
  <2>1. CASE s = {}
    BY <2>1, SumsAt
  <2>2. CASE s # {}
    <3>1. Pick(s) \in s
      BY <2>2, PickIn
    <3>2. h[s \ {Pick(s)}] = k[s \ {Pick(s)}] /\ w[Pick(s)] = v[Pick(s)]
      BY <1>1, <3>1
    <3> QED BY <2>2, <3>2, SumsAt
  <2> QED BY <2>1, <2>2
<1>2. SUBSET S \subseteq G
  <2>1. \A s \in SUBSET S : (\A x \in s : s \ {x} \in G) => s \in G
    BY <1>1
  <2> HIDE DEF G
  <2> QED BY <2>1, AllParts
<1>3. \A s \in SUBSET S : h[s] = k[s]
  BY <1>2
<1>4. h = [s \in SUBSET S |-> h[s]] /\ k = [s \in SUBSET S |-> k[s]]
  BY DEF Sums
<1> QED BY <1>3, <1>4

\* The parts of S of at most n elements.
Small(S, n) == {s \in SUBSET S : Cardinality(s) <= n}

\* The sums can be built up from the smaller parts.
LEMMA SumsExist ==
  ASSUME NEW S, IsFiniteSet(S), NEW w
  PROVE  \E h : Sums(h, w, S)
<1> DEFINE Built(h, n) == [s \in Small(S, n) |->
                            IF s = {} THEN 0 ELSE w[Pick(s)] + h[s \ {Pick(s)}]]
           T == {n \in Nat : \E h : h = Built(h, n)}
<1>1. \A s \in SUBSET S : /\ Cardinality(s) \in Nat /\ Cardinality(s) <= Cardinality(S)
                          /\ Cardinality(s) = 0 => s = {}
                          /\ \A x \in s : Cardinality(s \ {x}) = Cardinality(s) - 1
  BY FS_Subset, FS_CardinalityType, FS_EmptySet, FS_RemoveElement
<1>2. 0 \in T
  <2> DEFINE h == [s \in Small(S, 0) |-> 0]
  <2>1. \A s \in Small(S, 0) : s = {}
    BY <1>1 DEF Small
  <2>2. h = Built(h, 0)
    BY <2>1
  <2> QED BY <2>2
<1>3. ASSUME NEW n \in T PROVE n + 1 \in T
  <2>1. PICK h : h = Built(h, n)
    OBVIOUS
  <2> DEFINE k == Built(h, n + 1)
  <2>2. ASSUME NEW s \in Small(S, n + 1), s # {}
        PROVE  k[s \ {Pick(s)}] = h[s \ {Pick(s)}]
    <3> DEFINE r == s \ {Pick(s)}
    <3>1. r \in Small(S, n) /\ r \in Small(S, n + 1)
      BY <1>1, <2>2, PickIn DEF Small
    <3>2. h[r] = IF r = {} THEN 0 ELSE w[Pick(r)] + h[r \ {Pick(r)}]
      BY <2>1, <3>1
    <3>3. k[r] = IF r = {} THEN 0 ELSE w[Pick(r)] + h[r \ {Pick(r)}]
      BY <3>1
    <3> QED BY <3>2, <3>3
  <2>3. k = Built(k, n + 1)
    BY <2>2
  <2>4. \E c : c = Built(c, n + 1)
    BY <2>3
  <2> QED BY <2>4
<1>4. \A n \in Nat : n \in T
  <2> DEFINE Bad == {n \in Nat : n \notin T}
  <2> SUFFICES ASSUME Bad # {} PROVE FALSE
    OBVIOUS
  <2> HIDE DEF T
  <2>1. PICK n \in Bad : \A m \in Bad : n <= m
    BY LeastNat
  <2>2. n # 0 /\ n - 1 \in Nat /\ n - 1 \notin Bad
    BY <1>2, <2>1
  <2>3. (n - 1) + 1 \in T
    BY <1>3, <2>2
  <2> QED BY <2>1, <2>3
<1>5. Small(S, Cardinality(S)) = SUBSET S /\ Cardinality(S) \in Nat
  BY <1>1 DEF Small
<1>6. PICK h : h = Built(h, Cardinality(S))
  BY <1>4, <1>5
<1>7. Sums(h, w, S)
  BY <1>5, <1>6 DEF Sums
<1> QED BY <1>7

\* The sum over a part, read from any h.
LEMMA TotalIs ==
  ASSUME NEW S, IsFiniteSet(S), NEW w, NEW h, Sums(h, w, S), NEW T \in SUBSET S
  PROVE  h[T] = Total(w, T)
<1> DEFINE k == [s \in SUBSET T |-> h[s]]
           j == CHOOSE c : Sums(c, w, T)
<1>1. IsFiniteSet(T)
  BY FS_Subset
<1>2. Sums(k, w, T)
  <2>1. ASSUME NEW s \in SUBSET T
        PROVE  k[s] = IF s = {} THEN 0 ELSE w[Pick(s)] + k[s \ {Pick(s)}]
    <3>1. s \in SUBSET S /\ s \ {Pick(s)} \in SUBSET T
      OBVIOUS
    <3>2. h[{}] = 0 /\ (s # {} => h[s] = w[Pick(s)] + h[s \ {Pick(s)}])
      <4>1. \A r \in SUBSET S : r # {} => h[r] = w[Pick(r)] + h[r \ {Pick(r)}]
        BY SumsAt, Zenon
      <4>2. h[{}] = 0
        BY SumsAt, Zenon
      <4> QED BY <3>1, <4>1, <4>2, Zenon
    <3>3. k[s] = h[s] /\ k[s \ {Pick(s)}] = h[s \ {Pick(s)}]
      BY <3>1
    <3> HIDE DEF k
    <3> QED BY <3>2, <3>3
  <2>2. k = [s \in SUBSET T |-> k[s]]
    OBVIOUS
  <2> HIDE DEF k
  <2> QED BY <2>1, <2>2 DEF Sums
<1>3. Sums(j, w, T)
  BY <1>1, SumsExist
<1> HIDE DEF k, j
<1>4. k = j
  BY <1>1, <1>2, <1>3, SumsAgree
<1>5. k[T] = h[T]
  BY DEF k
<1> QED BY <1>4, <1>5 DEF Total, j

\* Nothing sums to nothing.
LEMMA TotalEmpty == ASSUME NEW w PROVE Total(w, {}) = 0
<1>1. PICK h : Sums(h, w, {})
  BY FS_EmptySet, SumsExist
<1>2. h[{}] = Total(w, {})
  BY <1>1, FS_EmptySet, TotalIs
<1> QED BY <1>1, <1>2, SumsAt

\* What is summed can be taken out in any order.
LEMMA TotalTake ==
  ASSUME NEW S, IsFiniteSet(S), NEW w, Numbers(w, S)
  PROVE  /\ Total(w, S) \in Nat
         /\ \A x \in S : Total(w, S) = w[x] + Total(w, S \ {x})
<1>1. PICK h : Sums(h, w, S)
  BY SumsExist
<1>0. /\ h[{}] = 0
      /\ \A s \in SUBSET S : s # {} => h[s] = w[Pick(s)] + h[s \ {Pick(s)}]
  BY <1>1, SumsAt
<1>2. \A s \in SUBSET S : h[s] \in Nat
  <2> DEFINE G == {s \in SUBSET S : h[s] \in Nat}
  <2>1. ASSUME NEW s \in SUBSET S, \A x \in s : s \ {x} \in G PROVE h[s] \in Nat
    <3>1. CASE s = {}
      BY <1>0, <3>1
    <3>2. CASE s # {}
      <4>1. Pick(s) \in s /\ w[Pick(s)] \in Nat
        BY <3>2, PickIn DEF Numbers
      <4>2. h[s \ {Pick(s)}] \in Nat
        BY <2>1, <4>1
      <4> QED BY <1>0, <3>2, <4>1, <4>2
    <3> QED BY <3>1, <3>2
  <2>2. \A s \in SUBSET S : (\A x \in s : s \ {x} \in G) => s \in G
    BY <2>1
  <2>3. SUBSET S \subseteq G
    <3> HIDE DEF G
    <3> QED BY <2>2, AllParts
  <2> QED BY <2>3
<1> DEFINE G == {s \in SUBSET S : \A x \in s : h[s] = w[x] + h[s \ {x}]}
<1>3. ASSUME NEW s \in SUBSET S, \A x \in s : s \ {x} \in G, NEW x \in s
      PROVE  h[s] = w[x] + h[s \ {x}]
  <2> DEFINE p == Pick(s)
             r == (s \ {p}) \ {x}
  <2>1. p \in s /\ w[p] \in Nat /\ w[x] \in Nat
    BY PickIn DEF Numbers
  <2>2. h[s] = w[p] + h[s \ {p}]
    BY <1>0
  <2> HIDE DEF p
  <2>3. CASE x = p
    BY <2>2, <2>3
  <2>4. CASE x # p
    <3>1. h[s \ {p}] = w[x] + h[r]
      BY <1>3, <2>1, <2>4
    <3>2. (s \ {x}) \ {p} = r
      OBVIOUS
    <3>3. h[s \ {x}] = w[p] + h[r]
      BY <1>3, <2>1, <2>4, <3>2
    <3>4. h[r] \in Nat
      BY <1>2
    <3> QED BY <2>1, <2>2, <3>1, <3>3, <3>4
  <2> QED BY <2>3, <2>4
<1>4. SUBSET S \subseteq G
  <2>1. \A s \in SUBSET S : (\A x \in s : s \ {x} \in G) => s \in G
    BY <1>3
  <2> HIDE DEF G
  <2> QED BY <2>1, AllParts
<1>5. \A s \in SUBSET S : h[s] = Total(w, s)
  BY <1>1, TotalIs
<1>6. \A x \in S : h[S] = w[x] + h[S \ {x}]
  BY <1>4
<1> QED BY <1>2, <1>5, <1>6

\* One more.
LEMMA TotalAdd ==
  ASSUME NEW S, IsFiniteSet(S), NEW w, NEW x, x \notin S, Numbers(w, S \cup {x})
  PROVE  Total(w, S \cup {x}) = w[x] + Total(w, S)
<1>1. IsFiniteSet(S \cup {x})
  BY FS_AddElement
<1>2. (S \cup {x}) \ {x} = S
  OBVIOUS
<1> QED BY <1>1, <1>2, TotalTake

\* Two weights that agree on S.
LEMMA TotalSame ==
  ASSUME NEW S, IsFiniteSet(S), NEW w, NEW v, \A x \in S : w[x] = v[x]
  PROVE  Total(w, S) = Total(v, S)
<1>1. PICK h : Sums(h, w, S)
  BY SumsExist
<1>2. PICK k : Sums(k, v, S)
  BY SumsExist
<1>3. h = k
  BY <1>1, <1>2, SumsAgree
<1> QED BY <1>1, <1>2, <1>3, TotalIs

\* The parts of a finite set are all in G when the empty one is and G has what one of
\* its members becomes with an element more.
LEMMA GrowingParts ==
  ASSUME NEW S, IsFiniteSet(S), NEW G, {} \in G,
         \A s \in SUBSET S : \A x \in S \ s : s \in G => s \cup {x} \in G
  PROVE  SUBSET S \subseteq G
<1>1. ASSUME NEW s \in SUBSET S, \A x \in s : s \ {x} \in G PROVE s \in G
  <2>1. CASE s = {}
    BY <2>1
  <2>2. ASSUME NEW x \in s PROVE s \in G
    <3>1. s \ {x} \in SUBSET S /\ x \in S \ (s \ {x}) /\ s \ {x} \in G
      BY <1>1
    <3>2. (s \ {x}) \cup {x} = s
      OBVIOUS
    <3>3. (s \ {x}) \cup {x} \in G
      BY <3>1
    <3> QED BY <3>2, <3>3
  <2> QED BY <2>1, <2>2
<1> QED BY <1>1, AllParts

\* A sum over a set is that over a part and that over the rest.
LEMMA TotalSplit ==
  ASSUME NEW S, IsFiniteSet(S), NEW w, Numbers(w, S), NEW T \in SUBSET S
  PROVE  Total(w, S) = Total(w, T) + Total(w, S \ T)
<1> DEFINE R == S \ T
           G == {s \in SUBSET R : Total(w, T \cup s) = Total(w, T) + Total(w, s)}
<1>1. IsFiniteSet(R) /\ \A s \in SUBSET S : IsFiniteSet(s) /\ Numbers(w, s) /\ Total(w, s) \in Nat
  BY FS_Subset, TotalTake DEF Numbers
<1>2. {} \in G
  <2>1. T \cup {} = T
    OBVIOUS
  <2>2. Total(w, T) + 0 = Total(w, T)
    BY <1>1
  <2> QED BY <2>1, <2>2, TotalEmpty
<1>3. ASSUME NEW s \in SUBSET R, NEW x \in R \ s, s \in G PROVE s \cup {x} \in G
  <2>1. x \notin s /\ x \notin T \cup s /\ (T \cup s) \cup {x} = T \cup (s \cup {x})
    OBVIOUS
  <2>2. Total(w, s \cup {x}) = w[x] + Total(w, s)
    BY <1>1, <2>1, TotalAdd
  <2>3. Total(w, (T \cup s) \cup {x}) = w[x] + Total(w, T \cup s)
    <3>1. T \cup s \in SUBSET S /\ (T \cup s) \cup {x} \in SUBSET S
      OBVIOUS
    <3> QED BY <1>1, <2>1, <3>1, TotalAdd
  <2>4. w[x] \in Nat /\ Total(w, s) \in Nat /\ Total(w, T) \in Nat
    BY <1>1 DEF Numbers
  <2>5. Total(w, T \cup s) = Total(w, T) + Total(w, s)
    BY <1>3
  <2>6. Total(w, T \cup (s \cup {x})) = w[x] + Total(w, T \cup s)
    BY <2>1, <2>3, Zenon
  <2>7. w[x] + (Total(w, T) + Total(w, s)) = Total(w, T) + (w[x] + Total(w, s))
    BY <2>4
  <2>8. Total(w, T \cup (s \cup {x})) = Total(w, T) + Total(w, s \cup {x})
    BY <2>2, <2>5, <2>6, <2>7, Zenon
  <2> QED BY <2>8
<1>4. R \in G
  <2>1. \A s \in SUBSET R : \A x \in R \ s : s \in G => s \cup {x} \in G
    BY <1>3
  <2> HIDE DEF G
  <2>2. SUBSET R \subseteq G
    BY <1>1, <1>2, <2>1, GrowingParts, SMTT(30)
  <2> QED BY <2>2
<1>5. T \cup R = S
  OBVIOUS
<1> QED BY <1>4, <1>5

\* The sum of two weights.
LEMMA TotalPlus ==
  ASSUME NEW S, IsFiniteSet(S), NEW u, NEW v, Numbers(u, S), Numbers(v, S),
         NEW w, \A x \in S : w[x] = u[x] + v[x]
  PROVE  Total(w, S) = Total(u, S) + Total(v, S)
<1> DEFINE G == {s \in SUBSET S : Total(w, s) = Total(u, s) + Total(v, s)}
<1>1. \A s \in SUBSET S : /\ IsFiniteSet(s) /\ Numbers(u, s) /\ Numbers(v, s) /\ Numbers(w, s)
                          /\ Total(u, s) \in Nat /\ Total(v, s) \in Nat
  <2> SUFFICES ASSUME NEW s \in SUBSET S
               PROVE  /\ IsFiniteSet(s) /\ Numbers(u, s) /\ Numbers(v, s) /\ Numbers(w, s)
                      /\ Total(u, s) \in Nat /\ Total(v, s) \in Nat
    OBVIOUS
  <2>1. IsFiniteSet(s)
    BY FS_Subset
  <2>2. Numbers(u, s) /\ Numbers(v, s) /\ Numbers(w, s)
    BY DEF Numbers
  <2> QED BY <2>1, <2>2, TotalTake
<1>2. {} \in G
  <2>1. Total(u, {}) = 0 /\ Total(v, {}) = 0 /\ Total(w, {}) = 0
    BY TotalEmpty
  <2> QED BY <2>1
<1>3. ASSUME NEW s \in SUBSET S, NEW x \in S \ s, s \in G PROVE s \cup {x} \in G
  <2>1. s \cup {x} \in SUBSET S /\ x \notin s
    OBVIOUS
  <2>2. /\ Total(u, s \cup {x}) = u[x] + Total(u, s)
        /\ Total(v, s \cup {x}) = v[x] + Total(v, s)
        /\ Total(w, s \cup {x}) = w[x] + Total(w, s)
    BY <1>1, <2>1, TotalAdd
  <2>3. u[x] \in Nat /\ v[x] \in Nat /\ Total(u, s) \in Nat /\ Total(v, s) \in Nat
    BY <1>1 DEF Numbers
  <2> QED BY <1>3, <2>1, <2>2, <2>3
<1>4. \A s \in SUBSET S : \A x \in S \ s : s \in G => s \cup {x} \in G
  BY <1>3
<1> HIDE DEF G
<1>5. S \in G
  BY <1>2, <1>4, GrowingParts
<1> QED BY <1>5 DEF G

\* What p sends to d.
Fibre(p, S, d) == {x \in S : p[x] = d}

\* A sum taken by fibres: v sums w over what p sends to each d.
LEMMA TotalFibres ==
  ASSUME NEW S, IsFiniteSet(S), NEW D, IsFiniteSet(D), NEW w, Numbers(w, S),
         NEW p, \A x \in S : p[x] \in D,
         NEW v, \A d \in D : v[d] = Total(w, Fibre(p, S, d))
  PROVE  Total(v, D) = Total(w, S)
<1> DEFINE Over(s) == {x \in S : p[x] \in s}
           G == {s \in SUBSET D : Total(v, s) = Total(w, Over(s))}
<1>1. \A T \in SUBSET S : IsFiniteSet(T) /\ Numbers(w, T) /\ Total(w, T) \in Nat
  BY FS_Subset, TotalTake DEF Numbers
<1>2. \A d \in D : v[d] \in Nat
  BY <1>1 DEF Fibre
<1>3. {} \in G
  <2>1. Over({}) = {}
    OBVIOUS
  <2> QED BY <2>1, TotalEmpty
<1>4. ASSUME NEW s \in SUBSET D, NEW d \in D \ s, s \in G PROVE s \cup {d} \in G
  <2> DEFINE F == {x \in S : p[x] = d}
  <2>1. F \in SUBSET Over(s \cup {d}) /\ Over(s \cup {d}) \ F = Over(s) /\ Over(s \cup {d}) \in SUBSET S
    OBVIOUS
  <2>2. Total(w, Over(s \cup {d})) = Total(w, F) + Total(w, Over(s))
    <3> DEFINE U == Over(s \cup {d})
    <3>1. IsFiniteSet(U) /\ Numbers(w, U)
      BY <1>1, <2>1
    <3>2. F \in SUBSET U /\ U \ F = Over(s)
      BY <2>1
    <3> HIDE DEF F, Over, U
    <3>3. Total(w, U) = Total(w, F) + Total(w, U \ F)
      BY <3>1, <3>2, TotalSplit
    <3> QED BY <3>2, <3>3 DEF U
  <2>3. Total(v, s \cup {d}) = v[d] + Total(v, s)
    <3>1. IsFiniteSet(s) /\ Numbers(v, s \cup {d})
      BY <1>2, FS_Subset DEF Numbers
    <3> QED BY <3>1, TotalAdd
  <2>4. v[d] = Total(w, F)
    BY DEF Fibre
  <2> HIDE DEF F, Over
  <2> QED BY <1>4, <2>2, <2>3, <2>4
<1>5. \A s \in SUBSET D : \A d \in D \ s : s \in G => s \cup {d} \in G
  BY <1>4
<1>6. D \in G
  <2> HIDE DEF G
  <2> QED BY <1>3, <1>5, GrowingParts
<1>7. Over(D) = S
  OBVIOUS
<1> QED BY <1>6, <1>7

-----------------------------------------------------------------------------
(* Counting the packets of a graph *)

\* What each node and each edge counts.
PacketsAt(nodes) == [n \in DOMAIN nodes |-> nodes[n].packets]
Forward(edges)  == [e \in DOMAIN edges |-> edges[e].fwd]
Reverse(edges)  == [e \in DOMAIN edges |-> edges[e].rev]
Traffic(edges)  == [e \in DOMAIN edges |-> edges[e].fwd + edges[e].rev]

\* What the library's sums over nodes and edges are.
LEMMA PacketsTotal ==
  ASSUME NEW f, NEW S \in SUBSET DOMAIN f, IsFiniteSet(S)
  PROVE  MapThenSumSet(LAMBDA n : f[n].packets, S) = Total(PacketsAt(f), S)
<1> DEFINE w == PacketsAt(f)
           R(h) == h = [s \in SUBSET S |-> IF s = {} THEN 0 ELSE f[Pick(s)].packets + h[s \ {Pick(s)}]]
           j == CHOOSE h : R(h)
<1>1. MapThenSumSet(LAMBDA n : f[n].packets, S) = j[S]
  BY DEF MapThenSumSet, MapThenFoldSet, Pick
<1>2. \A s \in SUBSET S : s # {} => w[Pick(s)] = f[Pick(s)].packets
  BY PickIn DEF PacketsAt
<1>3. \A h : R(h) <=> Sums(h, w, S)
  BY <1>2 DEF Sums
<1>4. \E h : Sums(h, w, S)
  BY SumsExist
<1> HIDE DEF R, w
<1>5. R(j)
  BY <1>3, <1>4
<1>6. Sums(j, w, S)
  BY <1>3, <1>5
<1> HIDE DEF j
<1>7. j[S] = Total(w, S)
  BY <1>6, TotalIs
<1> QED BY <1>1, <1>7 DEF w

\* The sum over edges of the packets that went forward.
LEMMA ForwardTotal ==
  ASSUME NEW f, NEW S \in SUBSET DOMAIN f, IsFiniteSet(S)
  PROVE  MapThenSumSet(LAMBDA e : f[e].fwd, S) = Total(Forward(f), S)
<1> DEFINE w == Forward(f)
           R(h) == h = [s \in SUBSET S |-> IF s = {} THEN 0 ELSE f[Pick(s)].fwd + h[s \ {Pick(s)}]]
           j == CHOOSE h : R(h)
<1>1. MapThenSumSet(LAMBDA e : f[e].fwd, S) = j[S]
  BY DEF MapThenSumSet, MapThenFoldSet, Pick
<1>2. \A s \in SUBSET S : s # {} => w[Pick(s)] = f[Pick(s)].fwd
  BY PickIn DEF Forward
<1>3. \A h : R(h) <=> Sums(h, w, S)
  BY <1>2 DEF Sums
<1>4. \E h : Sums(h, w, S)
  BY SumsExist
<1> HIDE DEF R, w
<1>5. R(j)
  BY <1>3, <1>4
<1>6. Sums(j, w, S)
  BY <1>3, <1>5
<1> HIDE DEF j
<1>7. j[S] = Total(w, S)
  BY <1>6, TotalIs
<1> QED BY <1>1, <1>7 DEF w

\* The sum over edges of the packets that went back.
LEMMA ReverseTotal ==
  ASSUME NEW f, NEW S \in SUBSET DOMAIN f, IsFiniteSet(S)
  PROVE  MapThenSumSet(LAMBDA e : f[e].rev, S) = Total(Reverse(f), S)
<1> DEFINE w == Reverse(f)
           R(h) == h = [s \in SUBSET S |-> IF s = {} THEN 0 ELSE f[Pick(s)].rev + h[s \ {Pick(s)}]]
           j == CHOOSE h : R(h)
<1>1. MapThenSumSet(LAMBDA e : f[e].rev, S) = j[S]
  BY DEF MapThenSumSet, MapThenFoldSet, Pick
<1>2. \A s \in SUBSET S : s # {} => w[Pick(s)] = f[Pick(s)].rev
  BY PickIn DEF Reverse
<1>3. \A h : R(h) <=> Sums(h, w, S)
  BY <1>2 DEF Sums
<1>4. \E h : Sums(h, w, S)
  BY SumsExist
<1> HIDE DEF R, w
<1>5. R(j)
  BY <1>3, <1>4
<1>6. Sums(j, w, S)
  BY <1>3, <1>5
<1> HIDE DEF j
<1>7. j[S] = Total(w, S)
  BY <1>6, TotalIs
<1> QED BY <1>1, <1>7 DEF w

\* The sum over edges of the packets in both directions.
LEMMA TrafficTotal ==
  ASSUME NEW f, NEW S \in SUBSET DOMAIN f, IsFiniteSet(S)
  PROVE  MapThenSumSet(LAMBDA e : f[e].fwd + f[e].rev, S) = Total(Traffic(f), S)
<1> DEFINE w == Traffic(f)
           R(h) == h = [s \in SUBSET S |->
                          IF s = {} THEN 0
                          ELSE (f[Pick(s)].fwd + f[Pick(s)].rev) + h[s \ {Pick(s)}]]
           j == CHOOSE h : R(h)
<1>1. MapThenSumSet(LAMBDA e : f[e].fwd + f[e].rev, S) = j[S]
  BY DEF MapThenSumSet, MapThenFoldSet, Pick
<1>2. \A s \in SUBSET S : s # {} => w[Pick(s)] = f[Pick(s)].fwd + f[Pick(s)].rev
  BY PickIn DEF Traffic
<1>3. \A h : R(h) <=> Sums(h, w, S)
  BY <1>2 DEF Sums
<1>4. \E h : Sums(h, w, S)
  BY SumsExist
<1> HIDE DEF R, w
<1>5. R(j)
  BY <1>3, <1>4
<1>6. Sums(j, w, S)
  BY <1>3, <1>5
<1> HIDE DEF j
<1>7. j[S] = Total(w, S)
  BY <1>6, TotalIs
<1> QED BY <1>1, <1>7 DEF w

\* A graph whose packets can be counted: finitely many nodes and edges, every edge
\* between two nodes or one, all counts numbers.
CountedNodes(nodes) ==
  IsFiniteSet(DOMAIN nodes) /\ \A n \in DOMAIN nodes : nodes[n].packets \in Nat
CountedEdges(edges) ==
  /\ IsFiniteSet(DOMAIN edges)
  /\ \A e \in DOMAIN edges : \E a, b : e = {a, b}
  /\ \A e \in DOMAIN edges : edges[e].fwd \in Nat /\ edges[e].rev \in Nat
Counted(gr) == CountedNodes(gr.nodes) /\ CountedEdges(gr.edges) /\ gr.folded \in Nat

AtNodes(nodes) == Total(PacketsAt(nodes), DOMAIN nodes)
OnEdges(edges) == Total(Traffic(edges), DOMAIN edges)

\* h counts k more packets at its nodes and l more on its edges or folded than gr.
Counts(gr, h, k, l) ==
  /\ Counted(h)
  /\ AtNodes(h.nodes) = AtNodes(gr.nodes) + k
  /\ OnEdges(h.edges) + h.folded = (OnEdges(gr.edges) + gr.folded) + l

\* What is counted is a number.
LEMMA CountsAreNumbers ==
  ASSUME NEW gr, Counted(gr)
  PROVE  /\ Numbers(PacketsAt(gr.nodes), DOMAIN gr.nodes)
         /\ Numbers(Forward(gr.edges), DOMAIN gr.edges)
         /\ Numbers(Reverse(gr.edges), DOMAIN gr.edges)
         /\ Numbers(Traffic(gr.edges), DOMAIN gr.edges)
         /\ AtNodes(gr.nodes) \in Nat /\ OnEdges(gr.edges) \in Nat
<1>1. /\ Numbers(PacketsAt(gr.nodes), DOMAIN gr.nodes)
      /\ Numbers(Forward(gr.edges), DOMAIN gr.edges)
      /\ Numbers(Reverse(gr.edges), DOMAIN gr.edges)
      /\ Numbers(Traffic(gr.edges), DOMAIN gr.edges)
  BY DEF Counted, CountedNodes, CountedEdges, Numbers, PacketsAt, Forward, Reverse, Traffic
<1> QED BY <1>1, TotalTake DEF Counted, CountedNodes, CountedEdges, AtNodes, OnEdges

\* Nodes with the same ids and packets count the same.
LEMMA SameNodes ==
  ASSUME NEW N, NEW M, CountedNodes(N), DOMAIN M = DOMAIN N,
         \A n \in DOMAIN N : M[n].packets = N[n].packets
  PROVE  CountedNodes(M) /\ AtNodes(M) = AtNodes(N)
<1>1. PacketsAt(M) = PacketsAt(N)
  BY DEF PacketsAt
<1> QED BY <1>1 DEF CountedNodes, AtNodes

\* A change that leaves nodes' packets and the edges alone counts nothing.
LEMMA CountsStay ==
  ASSUME NEW gr, NEW h, Counted(gr), DOMAIN h.nodes = DOMAIN gr.nodes,
         \A n \in DOMAIN gr.nodes : h.nodes[n].packets = gr.nodes[n].packets,
         h.edges = gr.edges, h.folded = gr.folded
  PROVE  Counts(gr, h, 0, 0)
<1>1. CountedNodes(h.nodes) /\ AtNodes(h.nodes) = AtNodes(gr.nodes)
  BY SameNodes DEF Counted
<1>2. AtNodes(gr.nodes) \in Nat /\ OnEdges(gr.edges) \in Nat /\ gr.folded \in Nat
  BY CountsAreNumbers DEF Counted
<1> QED BY <1>1, <1>2 DEF Counts, Counted

\* One change after another.
LEMMA CountsChain ==
  ASSUME NEW gr, NEW h, NEW m, Counted(gr),
         NEW k1 \in Nat, NEW l1 \in Nat, NEW k2 \in Nat, NEW l2 \in Nat,
         Counts(gr, h, k1, l1), Counts(h, m, k2, l2)
  PROVE  Counts(gr, m, k1 + k2, l1 + l2)
<1>1. /\ AtNodes(gr.nodes) \in Nat /\ OnEdges(gr.edges) \in Nat /\ gr.folded \in Nat
  BY CountsAreNumbers DEF Counted
<1>2. /\ AtNodes(h.nodes) = AtNodes(gr.nodes) + k1
      /\ AtNodes(m.nodes) = AtNodes(h.nodes) + k2
      /\ OnEdges(h.edges) + h.folded = (OnEdges(gr.edges) + gr.folded) + l1
      /\ OnEdges(m.edges) + m.folded = (OnEdges(h.edges) + h.folded) + l2
      /\ Counted(m)
  BY DEF Counts
<1>3. AtNodes(m.nodes) = AtNodes(gr.nodes) + (k1 + k2)
  BY <1>1, <1>2
<1>4. OnEdges(m.edges) + m.folded = (OnEdges(gr.edges) + gr.folded) + (l1 + l2)
  BY <1>1, <1>2
<1> QED BY <1>2, <1>3, <1>4 DEF Counts

\* A merge neither loses nor doubles a packet at the nodes.
LEMMA MergedNodesCount ==
  ASSUME NEW nodes, CountedNodes(nodes), \A n \in DOMAIN nodes : DOMAIN nodes[n] = NodeFields,
         NEW new, NEW old, new # old, NEW name
  PROVE  /\ CountedNodes(MergedNodes(nodes, new, old, name))
         /\ AtNodes(MergedNodes(nodes, new, old, name)) = AtNodes(nodes)
<1> DEFINE K == MergedNode(nodes, new, old, name)
           N == MergedNodes(nodes, new, old, name)
           D == DOMAIN nodes
           R == D \ {new, old}
           w == PacketsAt(nodes)
           v == PacketsAt(N)
<1>1. CASE old \notin D
  BY <1>1 DEF MergedNodes
<1>2. CASE old \in D
  <2>1. N = Without(Put(nodes, new, K), {old})
    BY <1>2 DEF MergedNodes
  <2>2. K.packets = IF new \in D THEN nodes[new].packets + nodes[old].packets ELSE nodes[old].packets
    <3>1. CASE new \in D
      <4>1. K = [nodes[new] EXCEPT
                   !.packets = @ + nodes[old].packets,
                   !.ips     = Extended(@, nodes[old].ips),
                   !.macs    = @ \cup nodes[old].macs]
        BY <3>1 DEF MergedNode
      <4> QED BY <3>1, <4>1 DEF NodeFields
    <3>2. CASE new \notin D
      <4>1. K = [nodes[old] EXCEPT !.name = name]
        BY <3>2 DEF MergedNode
      <4> QED BY <1>2, <3>2, <4>1 DEF NodeFields
    <3> QED BY <3>1, <3>2
  <2> HIDE DEF K, N
  <2>3. DOMAIN N = R \cup {new} /\ N[new] = K /\ \A n \in R : N[n] = nodes[n]
    <3>1. /\ DOMAIN Put(nodes, new, K) = D \cup {new}
          /\ Put(nodes, new, K)[new] = K
          /\ \A n \in D \ {new} : Put(nodes, new, K)[n] = nodes[n]
      BY DEF Put
    <3> QED BY <2>1, <3>1 DEF Without
  <2>4. /\ IsFiniteSet(D) /\ IsFiniteSet(R) /\ IsFiniteSet(R \cup {new}) /\ IsFiniteSet(R \cup {old})
        /\ nodes[old].packets \in Nat /\ K.packets \in Nat
        /\ (new \in D => nodes[new].packets \in Nat)
    <3>1. IsFiniteSet(D) /\ nodes[old].packets \in Nat /\ (new \in D => nodes[new].packets \in Nat)
      BY <1>2 DEF CountedNodes
    <3>2. IsFiniteSet(R)
      BY <3>1, FS_Subset
    <3>3. IsFiniteSet(R \cup {new}) /\ IsFiniteSet(R \cup {old})
      BY <3>2, FS_AddElement
    <3>4. K.packets \in Nat
      BY <2>2, <3>1
    <3> QED BY <3>1, <3>2, <3>3, <3>4
  <2>5. CountedNodes(N)
    BY <2>3, <2>4 DEF CountedNodes
  <2>6. /\ Numbers(w, D) /\ \A n \in D : w[n] = nodes[n].packets
        /\ Numbers(v, R \cup {new}) /\ v[new] = K.packets /\ \A n \in R : v[n] = w[n]
    BY <2>3, <2>5 DEF Numbers, PacketsAt, CountedNodes
  <2> HIDE DEF w, v
  <2>7. Total(v, R \cup {new}) = K.packets + Total(w, R)
    <3>1. Total(v, R \cup {new}) = v[new] + Total(v, R)
      BY <2>4, <2>6, TotalAdd
    <3>2. Total(v, R) = Total(w, R)
      BY <2>4, <2>6, TotalSame
    <3> QED BY <2>6, <3>1, <3>2
  <2>8. Numbers(w, R \cup {old}) /\ Total(w, R) \in Nat
    <3>1. Numbers(w, R \cup {old}) /\ Numbers(w, R)
      BY <1>2, <2>6 DEF Numbers
    <3> QED BY <2>4, <3>1, TotalTake
  <2>9. Total(w, R \cup {old}) = nodes[old].packets + Total(w, R)
    <3>1. old \notin R
      OBVIOUS
    <3>2. Total(w, R \cup {old}) = w[old] + Total(w, R)
      BY <2>4, <2>8, <3>1, TotalAdd
    <3> QED BY <1>2, <2>6, <3>2
  <2>10. Total(v, R \cup {new}) = Total(w, D)
    <3>1. CASE new \in D
      <4>1. (R \cup {old}) \cup {new} = D /\ new \notin R \cup {old}
        BY <1>2, <3>1
      <4>2. Total(w, (R \cup {old}) \cup {new}) = w[new] + Total(w, R \cup {old})
        BY <2>4, <2>6, <4>1, TotalAdd
      <4>3. Total(w, D) = nodes[new].packets + (nodes[old].packets + Total(w, R))
        BY <2>6, <2>9, <3>1, <4>1, <4>2
      <4>4. Total(v, R \cup {new}) = (nodes[new].packets + nodes[old].packets) + Total(w, R)
        BY <2>2, <2>7, <3>1
      <4> HIDE DEF D, R
      <4> QED BY <2>4, <2>8, <3>1, <4>3, <4>4
    <3>2. CASE new \notin D
      <4>1. R \cup {old} = D
        BY <1>2, <3>2
      <4> QED BY <2>2, <2>7, <2>9, <3>2, <4>1
    <3> QED BY <3>1, <3>2
  <2>11. AtNodes(N) = Total(v, R \cup {new}) /\ AtNodes(nodes) = Total(w, D)
    BY <2>3 DEF AtNodes, w, v
  <2> QED BY <2>5, <2>10, <2>11 DEF N
<1> QED BY <1>1, <1>2

\* The edges after a merge, and those it folds.
Merging(gr, new, old) == (DOMAIN gr.edges \ Moved(gr, old)) \cup Landed(gr, new, old)
LoopsOf(gr, new, old) == {e \in Moved(gr, old) : Rekeyed(e, old, new) = {new}}

\* Each edge but the loops becomes one edge after the merge.
EachIntoOne(gr, new, old) ==
  /\ \A e \in Merging(gr, new, old) : \E a, b : e = {a, b}
  /\ \A s \in DOMAIN gr.edges \ LoopsOf(gr, new, old) :
       Rekeyed(s, old, new) \in Merging(gr, new, old)
  /\ \A e \in Merging(gr, new, old) : \A s :
       s \in Sources(gr.edges, e, new, old) <=>
         s \in DOMAIN gr.edges \ LoopsOf(gr, new, old) /\ Rekeyed(s, old, new) = e

\* Which edges become which: all but those between old and new, each into one.
LEMMA SourcesAre ==
  ASSUME NEW gr, NEW new, NEW old, new # old, CountedEdges(gr.edges)
  PROVE  EachIntoOne(gr, new, old)
<1> DEFINE D == DOMAIN gr.edges
           E == Merging(gr, new, old)
           L == LoopsOf(gr, new, old)
<1>1. \A s : old \notin s => Rekeyed(s, old, new) = s
  BY DEF Rekeyed
<1>2. \A a, b : Rekeyed({a, b}, old, new) = {IF a = old THEN new ELSE a, IF b = old THEN new ELSE b}
  BY DEF Rekeyed
<1>3. \A e \in D : \E a, b : e = {a, b}
  BY DEF CountedEdges
<1>4. \A s \in D \ L : Rekeyed(s, old, new) \in E
  BY <1>1 DEF Moved, Landed, Merging, LoopsOf
<1>5. ASSUME NEW e \in E PROVE \E a, b : e = {a, b}
  <2>1. CASE e \in D
    BY <1>3, <2>1
  <2>2. CASE e \notin D
    <3>1. PICK s \in D : e = Rekeyed(s, old, new)
      BY <1>5, <2>2 DEF Landed, Moved, Merging
    <3>2. PICK a, b : s = {a, b}
      BY <1>3
    <3> DEFINE x == IF a = old THEN new ELSE a
               y == IF b = old THEN new ELSE b
    <3>3. e = {x, y}
      BY <1>2, <3>1, <3>2
    <3> HIDE DEF x, y
    <3> QED BY <3>3
  <2> QED BY <2>1, <2>2
<1>6. ASSUME NEW s \in D, old \in s
      PROVE  Cardinality(Rekeyed(s, old, new)) = 2 <=> s \notin L
  <2>1. PICK b : s = {old, b}
    <3>1. PICK a, c : s = {a, c}
      BY <1>3, <1>6
    <3>2. CASE a = old
      BY <3>1, <3>2
    <3>3. CASE c = old
      <4>1. s = {old, a}
        BY <3>1, <3>3
      <4> QED BY <4>1
    <3> QED BY <1>6, <3>1, <3>2, <3>3
  <2>2. Rekeyed(s, old, new) = {new, IF b = old THEN new ELSE b}
    BY <1>2, <2>1
  <2>3. s \in L <=> b = old \/ b = new
    BY <1>6, <2>2 DEF Moved, LoopsOf
  <2>4. CASE b = old \/ b = new
    <3>1. Rekeyed(s, old, new) = {new}
      BY <2>2, <2>4
    <3>2. Cardinality({new}) = 1
      BY FS_Singleton
    <3> QED BY <2>3, <2>4, <3>1, <3>2
  <2>5. CASE ~(b = old \/ b = new)
    <3>1. Rekeyed(s, old, new) = {new} \cup {b} /\ b \notin {new}
      BY <2>2, <2>5
    <3>2. IsFiniteSet({new}) /\ Cardinality({new}) = 1
      BY FS_Singleton
    <3>3. Cardinality({new} \cup {b}) = 1 + 1
      BY <3>1, <3>2, FS_AddElement
    <3> QED BY <2>3, <2>5, <3>1, <3>3
  <2> QED BY <2>4, <2>5
<1>7. \A s \in L : old \in s
  BY DEF Moved, LoopsOf
<1>8. ASSUME NEW e \in E, NEW x
      PROVE  x \in Sources(gr.edges, e, new, old) <=> x \in D \ L /\ Rekeyed(x, old, new) = e
  <2>1. ASSUME NEW s \in D, Rekeyed(s, old, new) = e
        PROVE  (old \in s => Cardinality(e) = 2) <=> s \notin L
    BY <1>6, <1>7, <2>1
  <2> QED BY <2>1 DEF Sources
<1> QED BY <1>4, <1>5, <1>8 DEF EachIntoOne

\* The re-keyed edges are finitely many.
LEMMA LandedFinite ==
  ASSUME NEW gr, NEW new, NEW old, IsFiniteSet(DOMAIN gr.edges)
  PROVE  IsFiniteSet(Landed(gr, new, old))
<1> DEFINE M == Moved(gr, old) \ {e \in Moved(gr, old) : Rekeyed(e, old, new) = {new}}
           T == Landed(gr, new, old)
           f == [e \in M |-> Rekeyed(e, old, new)]
<1>1. IsFiniteSet(M)
  BY FS_Subset DEF Moved
<1>2. f \in Surjection(M, T)
  BY DEF Surjection, Landed
<1> QED BY <1>1, <1>2, FS_Surjection

\* A merge neither loses nor doubles a packet on the edges: what ran between the two
\* nodes is folded.
LEMMA MergedEdgesCount ==
  ASSUME NEW gr, Shape(gr), Counted(gr), NEW new, NEW old, new # old, NEW name
  PROVE  LET M == MergeNodeInto(gr, new, old, name)
         IN  /\ CountedEdges(M.edges) /\ M.folded \in Nat
             /\ OnEdges(M.edges) + M.folded = OnEdges(gr.edges) + gr.folded
<1> DEFINE M == MergeNodeInto(gr, new, old, name)
           D == DOMAIN gr.edges
           E == Merging(gr, new, old)
           L == LoopsOf(gr, new, old)
           S(e) == Sources(gr.edges, e, new, old)
           w == Traffic(gr.edges)
           u == Forward(gr.edges)
           r == Reverse(gr.edges)
           p == [s \in D \ L |-> Rekeyed(s, old, new)]
           v == Traffic(M.edges)
<1>1. /\ M.edges = [e \in E |-> MergedEdge(gr.edges, S(e))]
      /\ M.folded = gr.folded + MapThenSumSet(LAMBDA e : gr.edges[e].fwd + gr.edges[e].rev, L)
  BY DEF MergeNodeInto, Shape, Fields, Moved, Landed, Merging, LoopsOf
<1>2. /\ IsFiniteSet(D) /\ IsFiniteSet(E) /\ L \in SUBSET D /\ IsFiniteSet(L)
      /\ CountedEdges(gr.edges) /\ gr.folded \in Nat
  <2>1. IsFiniteSet(D) /\ CountedEdges(gr.edges) /\ gr.folded \in Nat
    BY DEF Counted, CountedEdges
  <2>2. L \in SUBSET D
    BY DEF Moved, LoopsOf
  <2>3. IsFiniteSet(L) /\ IsFiniteSet(D \ Moved(gr, old))
    BY <2>1, <2>2, FS_Subset
  <2>4. IsFiniteSet(Landed(gr, new, old))
    BY <2>1, LandedFinite
  <2>5. IsFiniteSet(E)
    BY <2>3, <2>4, FS_Union DEF Merging
  <2> QED BY <2>1, <2>2, <2>3, <2>5
<1>3. /\ \A e \in E : \E a, b : e = {a, b}
      /\ \A s \in D \ L : p[s] \in E
      /\ \A e \in E : S(e) = Fibre(p, D \ L, e)
  <2>2. \A s \in D \ L : p[s] = Rekeyed(s, old, new)
    OBVIOUS
  <2> HIDE DEF p
  <2>3. /\ \A e \in E : \E a, b : e = {a, b}
        /\ \A s \in D \ L : Rekeyed(s, old, new) \in E
        /\ \A e \in E : \A s : s \in S(e) <=> s \in D \ L /\ Rekeyed(s, old, new) = e
    <3>1. CountedEdges(gr.edges)
      BY <1>2
    <3>2. EachIntoOne(gr, new, old)
      BY <3>1, SourcesAre
    <3> QED BY <3>2 DEF EachIntoOne
  <2>4. ASSUME NEW e \in E PROVE S(e) = Fibre(p, D \ L, e)
    <3>1. \A s : s \in S(e) <=> s \in D \ L /\ p[s] = e
      BY <2>2, <2>3
    <3> HIDE DEF S, D, L, p
    <3> QED BY <3>1 DEF Fibre
  <2> QED BY <2>2, <2>3, <2>4
<1>4. Numbers(w, D) /\ Numbers(u, D) /\ Numbers(r, D) /\ \A s \in D : w[s] = u[s] + r[s]
  <2>1. Numbers(w, D) /\ Numbers(u, D) /\ Numbers(r, D)
    BY CountsAreNumbers
  <2> QED BY <2>1 DEF Traffic, Forward, Reverse
<1> HIDE DEF M, E, L, S, p
<1>5. \A e \in E : S(e) \in SUBSET D /\ IsFiniteSet(S(e))
  BY <1>2, <1>3, FS_Subset DEF Fibre
<1>6. ASSUME NEW e \in E
      PROVE  /\ M.edges[e].fwd = Total(u, S(e)) /\ M.edges[e].rev = Total(r, S(e))
             /\ M.edges[e].fwd \in Nat /\ M.edges[e].rev \in Nat
             /\ M.edges[e].fwd + M.edges[e].rev = Total(w, S(e))
  <2>1. M.edges[e] = MergedEdge(gr.edges, S(e))
    BY <1>1
  <2>2. /\ M.edges[e].fwd = MapThenSumSet(LAMBDA s : gr.edges[s].fwd, S(e))
        /\ M.edges[e].rev = MapThenSumSet(LAMBDA s : gr.edges[s].rev, S(e))
    BY <2>1 DEF MergedEdge
  <2>3. M.edges[e].fwd = Total(u, S(e))
    BY <1>5, <2>2, ForwardTotal
  <2>4. M.edges[e].rev = Total(r, S(e))
    BY <1>5, <2>2, ReverseTotal
  <2>5. /\ Numbers(u, S(e)) /\ Numbers(r, S(e)) /\ \A s \in S(e) : w[s] = u[s] + r[s]
    BY <1>4, <1>5 DEF Numbers
  <2>6. Total(u, S(e)) \in Nat /\ Total(r, S(e)) \in Nat
    BY <1>5, <2>5, TotalTake
  <2>7. Total(w, S(e)) = Total(u, S(e)) + Total(r, S(e))
    <3> HIDE DEF u, r, w
    <3> QED BY <1>5, <2>5, TotalPlus
  <2> QED BY <2>3, <2>4, <2>6, <2>7
<1>7. DOMAIN M.edges = E
  BY <1>1
<1>8. CountedEdges(M.edges)
  BY <1>2, <1>3, <1>6, <1>7 DEF CountedEdges
<1>9. OnEdges(M.edges) = Total(w, D \ L)
  <2> DEFINE F == D \ L
  <2>1. \A e \in E : v[e] = Total(w, Fibre(p, F, e))
    BY <1>3, <1>6, <1>7 DEF Traffic
  <2>2. IsFiniteSet(F) /\ Numbers(w, F) /\ \A s \in F : p[s] \in E
    BY <1>2, <1>3, <1>4, FS_Subset DEF Numbers
  <2> HIDE DEF v, w, F
  <2>3. Total(v, E) = Total(w, F)
    BY <1>2, <2>1, <2>2, TotalFibres
  <2> QED BY <1>7, <2>3 DEF OnEdges, v, F
<1>10. OnEdges(gr.edges) = Total(w, L) + Total(w, D \ L)
  <2>1. Total(w, D) = Total(w, L) + Total(w, D \ L)
    <3> HIDE DEF w, D
    <3> QED BY <1>2, <1>4, TotalSplit
  <2> QED BY <2>1 DEF OnEdges
<1>11. M.folded = gr.folded + Total(w, L)
  BY <1>1, <1>2, TrafficTotal
<1>12. Total(w, L) \in Nat /\ Total(w, D \ L) \in Nat
  <2>1. Numbers(w, L) /\ Numbers(w, D \ L) /\ IsFiniteSet(D \ L)
    BY <1>2, <1>4, FS_Subset DEF Numbers
  <2> QED BY <1>2, <2>1, TotalTake
<1>13. M.folded \in Nat
  BY <1>2, <1>11, <1>12
<1>14. OnEdges(M.edges) + M.folded = OnEdges(gr.edges) + gr.folded
  <2> HIDE DEF w, D
  <2> QED BY <1>2, <1>9, <1>10, <1>11, <1>12
<1> QED BY <1>8, <1>13, <1>14 DEF M

\* So a merge counts nothing.
LEMMA MergeCounts ==
  ASSUME NEW gr, Shape(gr), Counted(gr), NEW new, NEW old, new # old, NEW name
  PROVE  Counts(gr, MergeNodeInto(gr, new, old, name), 0, 0)
<1> DEFINE M == MergeNodeInto(gr, new, old, name)
<1>1. M.nodes = MergedNodes(gr.nodes, new, old, name)
  <2>1. FieldsMerged(gr, M, new, old, name)
    BY MergeFields
  <2> QED BY <2>1 DEF FieldsMerged
<1>2. CountedNodes(M.nodes) /\ AtNodes(M.nodes) = AtNodes(gr.nodes)
  BY <1>1, MergedNodesCount DEF Shape, Counted
<1>3. /\ CountedEdges(M.edges) /\ M.folded \in Nat
      /\ OnEdges(M.edges) + M.folded = OnEdges(gr.edges) + gr.folded
  BY MergedEdgesCount
<1>4. AtNodes(gr.nodes) \in Nat /\ OnEdges(gr.edges) \in Nat /\ gr.folded \in Nat
  BY CountsAreNumbers DEF Counted
<1> HIDE DEF M
<1>5. Counts(gr, M, 0, 0)
  BY <1>2, <1>3, <1>4 DEF Counts, Counted
<1> QED BY <1>5 DEF M

\* A merge keeps the fields.
LEMMA MergeShape ==
  ASSUME NEW gr, Shape(gr), NEW new, NEW old, new # old, NEW name
  PROVE  Shape(MergeNodeInto(gr, new, old, name))
<1> DEFINE M == MergeNodeInto(gr, new, old, name)
<1>1. FieldsMerged(gr, M, new, old, name)
  BY MergeFields
<1>2. NodesMerged(gr.nodes, MergedNodes(gr.nodes, new, old, name), new, old)
  BY MergeNodes
<1> HIDE DEF M
<1>3. Shape(M)
  BY <1>1, <1>2 DEF FieldsMerged, NodesMerged, Shape
<1> QED BY <1>3 DEF M

\* One node more, or one packet more at a node.
LEMMA OneMoreAtNode ==
  ASSUME NEW nodes, CountedNodes(nodes), NEW id, NEW v,
         v.packets = IF id \in DOMAIN nodes THEN nodes[id].packets + 1 ELSE 1
  PROVE  CountedNodes(Put(nodes, id, v)) /\ AtNodes(Put(nodes, id, v)) = AtNodes(nodes) + 1
<1> DEFINE N == Put(nodes, id, v)
           D == DOMAIN nodes
           R == D \ {id}
           w == PacketsAt(nodes)
           u == PacketsAt(N)
<1>1. DOMAIN N = R \cup {id} /\ N[id] = v /\ \A n \in R : N[n] = nodes[n]
  BY DEF Put
<1>2. IsFiniteSet(D) /\ \A n \in D : nodes[n].packets \in Nat
  BY DEF CountedNodes
<1>3. v.packets \in Nat
  BY <1>2
<1>4. IsFiniteSet(R) /\ IsFiniteSet(R \cup {id})
  <2>1. IsFiniteSet(R)
    BY <1>2, FS_Subset
  <2> QED BY <2>1, FS_AddElement
<1> HIDE DEF N
<1>5. CountedNodes(N)
  BY <1>1, <1>2, <1>3, <1>4 DEF CountedNodes
<1>6. /\ Numbers(w, R) /\ \A n \in D : w[n] = nodes[n].packets
      /\ Numbers(u, R \cup {id}) /\ u[id] = v.packets /\ \A n \in R : u[n] = w[n]
  BY <1>1, <1>2, <1>5 DEF Numbers, PacketsAt, CountedNodes
<1>7. AtNodes(N) = Total(u, R \cup {id}) /\ AtNodes(nodes) = Total(w, D)
  BY <1>1 DEF AtNodes
<1> HIDE DEF w, u
<1>8. Total(u, R \cup {id}) = v.packets + Total(w, R)
  <2>1. Total(u, R \cup {id}) = u[id] + Total(u, R)
    BY <1>4, <1>6, TotalAdd
  <2>2. Total(u, R) = Total(w, R)
    BY <1>4, <1>6, TotalSame
  <2> QED BY <1>6, <2>1, <2>2
<1>9. Total(w, R) \in Nat
  BY <1>4, <1>6, TotalTake
<1>10. CASE id \in D
  <2>1. Total(w, D) = w[id] + Total(w, R)
    <3>1. Numbers(w, D)
      BY <1>2, <1>6 DEF Numbers
    <3> QED BY <1>2, <1>10, <3>1, TotalTake
  <2>2. w[id] = nodes[id].packets /\ nodes[id].packets \in Nat
    BY <1>2, <1>6, <1>10
  <2>3. Total(u, R \cup {id}) = Total(w, D) + 1
    <3> HIDE DEF D, R
    <3> QED BY <1>8, <1>9, <1>10, <2>1, <2>2 DEF D
  <2> QED BY <1>5, <1>7, <2>3 DEF N
<1>11. CASE id \notin D
  <2>1. R = D
    BY <1>11
  <2>2. Total(u, R \cup {id}) = Total(w, D) + 1
    BY <1>8, <1>9, <1>11, <2>1
  <2> QED BY <1>5, <1>7, <2>2 DEF N
<1> QED BY <1>10, <1>11

\* One packet more on an edge, there or not.
LEMMA OneMoreOnEdge ==
  ASSUME NEW edges, CountedEdges(edges), NEW e, \E a, b : e = {a, b}, NEW v,
         v.fwd \in Nat, v.rev \in Nat,
         v.fwd + v.rev = IF e \in DOMAIN edges THEN (edges[e].fwd + edges[e].rev) + 1 ELSE 1
  PROVE  CountedEdges(Put(edges, e, v)) /\ OnEdges(Put(edges, e, v)) = OnEdges(edges) + 1
<1> DEFINE N == Put(edges, e, v)
           D == DOMAIN edges
           R == D \ {e}
           w == Traffic(edges)
           u == Traffic(N)
<1>1. DOMAIN N = R \cup {e} /\ N[e] = v /\ \A x \in R : N[x] = edges[x]
  BY DEF Put
<1>2. /\ IsFiniteSet(D) /\ \A x \in D : edges[x].fwd \in Nat /\ edges[x].rev \in Nat
      /\ \A x \in D : \E a, b : x = {a, b}
  BY DEF CountedEdges
<1>3. IsFiniteSet(R) /\ IsFiniteSet(R \cup {e})
  <2>1. IsFiniteSet(R)
    BY <1>2, FS_Subset
  <2> QED BY <2>1, FS_AddElement
<1> HIDE DEF N
<1>4. CountedEdges(N)
  <2>1. \A x \in DOMAIN N : \E a, b : x = {a, b}
    BY <1>1, <1>2
  <2>2. \A x \in DOMAIN N : N[x].fwd \in Nat /\ N[x].rev \in Nat
    BY <1>1, <1>2
  <2> QED BY <1>1, <1>3, <2>1, <2>2 DEF CountedEdges
<1>5. /\ Numbers(w, D) /\ \A x \in D : w[x] = edges[x].fwd + edges[x].rev
      /\ Numbers(u, R \cup {e}) /\ u[e] = v.fwd + v.rev /\ \A x \in R : u[x] = w[x]
  <2>1. \A x \in D : w[x] = edges[x].fwd + edges[x].rev /\ w[x] \in Nat
    BY <1>2 DEF Traffic
  <2>2. u[e] = v.fwd + v.rev /\ u[e] \in Nat
    BY <1>1 DEF Traffic
  <2>3. \A x \in R : u[x] = w[x]
    BY <1>1 DEF Traffic
  <2> HIDE DEF u, w
  <2>4. Numbers(w, D) /\ Numbers(u, R \cup {e})
    BY <2>1, <2>2, <2>3 DEF Numbers
  <2> QED BY <2>1, <2>2, <2>3, <2>4
<1>6. OnEdges(N) = Total(u, R \cup {e}) /\ OnEdges(edges) = Total(w, D)
  BY <1>1 DEF OnEdges
<1> HIDE DEF w, u
<1>7. Total(u, R \cup {e}) = (v.fwd + v.rev) + Total(w, R)
  <2>1. Total(u, R \cup {e}) = u[e] + Total(u, R)
    BY <1>3, <1>5, TotalAdd
  <2>2. Total(u, R) = Total(w, R)
    BY <1>3, <1>5, TotalSame
  <2> QED BY <1>5, <2>1, <2>2
<1>8. Total(w, R) \in Nat
  <2>1. Numbers(w, R)
    BY <1>5 DEF Numbers
  <2> QED BY <1>3, <2>1, TotalTake
<1>9. CASE e \in D
  <2>1. Total(w, D) = w[e] + Total(w, R)
    <3>1. IsFiniteSet(D) /\ Numbers(w, D) /\ e \in D
      BY <1>2, <1>5, <1>9
    <3> HIDE DEF D
    <3> QED BY <3>1, TotalTake
  <2>2. w[e] = edges[e].fwd + edges[e].rev /\ w[e] \in Nat
    BY <1>5, <1>9 DEF Numbers
  <2>3. v.fwd + v.rev = w[e] + 1
    BY <1>9, <2>2
  <2>4. Total(u, R \cup {e}) = Total(w, D) + 1
    <3> HIDE DEF D, R
    <3> QED BY <1>7, <1>8, <2>1, <2>2, <2>3
  <2> QED BY <1>4, <1>6, <2>4 DEF N
<1>10. CASE e \notin D
  <2>1. R = D
    BY <1>10
  <2>2. v.fwd + v.rev = 1
    BY <1>10
  <2>3. Total(u, R \cup {e}) = Total(w, D) + 1
    BY <1>7, <1>8, <2>1, <2>2
  <2> QED BY <1>4, <1>6, <2>3 DEF N
<1> QED BY <1>9, <1>10

\* Taking nodes away takes their packets away.
LEMMA LessNodes ==
  ASSUME NEW nodes, CountedNodes(nodes), NEW gone \in SUBSET DOMAIN nodes
  PROVE  /\ CountedNodes(Without(nodes, gone))
         /\ MapThenSumSet(LAMBDA n : nodes[n].packets, gone) \in Nat
         /\ AtNodes(nodes) = MapThenSumSet(LAMBDA n : nodes[n].packets, gone)
                               + AtNodes(Without(nodes, gone))
<1> DEFINE N == Without(nodes, gone)
           D == DOMAIN nodes
           w == PacketsAt(nodes)
           u == PacketsAt(N)
<1>1. DOMAIN N = D \ gone /\ \A n \in D \ gone : N[n] = nodes[n]
  BY DEF Without
<1>2. IsFiniteSet(D) /\ IsFiniteSet(gone) /\ IsFiniteSet(D \ gone)
  <2>1. IsFiniteSet(D)
    BY DEF CountedNodes
  <2> QED BY <2>1, FS_Subset
<1>3. CountedNodes(N)
  BY <1>1, <1>2 DEF CountedNodes, Without
<1>4. /\ Numbers(w, D) /\ Numbers(w, gone) /\ \A n \in D \ gone : u[n] = w[n]
  BY <1>1 DEF CountedNodes, Numbers, PacketsAt
<1>5. MapThenSumSet(LAMBDA n : nodes[n].packets, gone) = Total(w, gone)
  BY <1>2, PacketsTotal
<1>6. AtNodes(N) = Total(u, D \ gone) /\ AtNodes(nodes) = Total(w, D)
  BY <1>1 DEF AtNodes
<1> HIDE DEF w, u, N
<1>7. Total(u, D \ gone) = Total(w, D \ gone)
  BY <1>2, <1>4, TotalSame
<1>8. Total(w, D) = Total(w, gone) + Total(w, D \ gone)
  BY <1>2, <1>4, TotalSplit
<1>9. Total(w, gone) \in Nat
  BY <1>2, <1>4, TotalTake
<1> QED BY <1>3, <1>5, <1>6, <1>7, <1>8, <1>9 DEF N

\* Taking edges away takes their packets away.
LEMMA LessEdges ==
  ASSUME NEW edges, CountedEdges(edges), NEW gone \in SUBSET DOMAIN edges
  PROVE  /\ CountedEdges(Without(edges, gone))
         /\ MapThenSumSet(LAMBDA e : edges[e].fwd + edges[e].rev, gone) \in Nat
         /\ OnEdges(edges) = MapThenSumSet(LAMBDA e : edges[e].fwd + edges[e].rev, gone)
                               + OnEdges(Without(edges, gone))
<1> DEFINE N == Without(edges, gone)
           D == DOMAIN edges
           w == Traffic(edges)
           u == Traffic(N)
<1>1. DOMAIN N = D \ gone /\ \A e \in D \ gone : N[e] = edges[e]
  BY DEF Without
<1>2. IsFiniteSet(D) /\ IsFiniteSet(gone) /\ IsFiniteSet(D \ gone)
  <2>1. IsFiniteSet(D)
    BY DEF CountedEdges
  <2> QED BY <2>1, FS_Subset
<1>4. /\ Numbers(w, D) /\ Numbers(w, gone) /\ \A e \in D \ gone : u[e] = w[e]
  BY <1>1 DEF CountedEdges, Numbers, Traffic
<1>5. MapThenSumSet(LAMBDA e : edges[e].fwd + edges[e].rev, gone) = Total(w, gone)
  BY <1>2, TrafficTotal
<1>6. OnEdges(N) = Total(u, D \ gone) /\ OnEdges(edges) = Total(w, D)
  BY <1>1 DEF OnEdges
<1> HIDE DEF w, u, N
<1>3. CountedEdges(N)
  BY <1>1, <1>2 DEF CountedEdges
<1>7. Total(u, D \ gone) = Total(w, D \ gone)
  BY <1>2, <1>4, TotalSame
<1>8. Total(w, D) = Total(w, gone) + Total(w, D \ gone)
  BY <1>2, <1>4, TotalSplit
<1>9. Total(w, gone) \in Nat
  BY <1>2, <1>4, TotalTake
<1> QED BY <1>3, <1>5, <1>6, <1>7, <1>8, <1>9 DEF N

\* One endpoint of a packet counts it once at a node.
LEMMA AddOrUpdateNodeCounts ==
  ASSUME NEW gr, NEW ip, NEW given, NEW t, GraphInv(gr), Counted(gr)
  PROVE  Counts(gr, AddOrUpdateNode(gr, ip, given, t), 1, 0)
<1> DEFINE name    == IF ip \in Groups THEN GroupLabel[ip] ELSE given
           useName == UseName(ip, name)
           id      == NodeIDOf(gr, ip, name)
           named   == Named(gr, ip, name)
           joined  == Joined(gr, ip, name)
           fresh   == [name |-> name, ips |-> <<ip>>, macs |-> {}, packets |-> 1,
                       seen |-> t, group |-> ip \in Groups]
           updated == [joined.nodes[id] EXCEPT
                         !.packets = @ + 1,
                         !.seen    = t,
                         !.name    = IF useName /\ @ = id THEN name ELSE @,
                         !.group   = @ \/ ip \in Groups]
           node    == IF id \in DOMAIN joined.nodes THEN updated ELSE fresh
           result  == AddOrUpdateNode(gr, ip, given, t)
<1>1. result = [joined EXCEPT
                  !.ipTo  = Put(@, ip, id),
                  !.nodes = Put(@, id, IF id \in DOMAIN @ THEN updated ELSE fresh)]
  BY DEF AddOrUpdateNode
<1>2. Shape(named) /\ Counted(named) /\ Counts(gr, named, 0, 0)
  <2>1. Shape(gr)
    BY DEF GraphInv
  <2>2. Shape(named) /\ named.nodes = gr.nodes /\ named.edges = gr.edges /\ named.folded = gr.folded
    <3>1. CASE useName
      <4>1. named = [gr EXCEPT !.nameTo = Put(@, name, id)]
        BY <3>1 DEF Named
      <4> HIDE DEF named, useName, name, id
      <4> QED BY <2>1, <4>1 DEF Shape, Fields
    <3>2. CASE ~useName
      BY <2>1, <3>2 DEF Named
    <3> QED BY <3>1, <3>2
  <2> HIDE DEF named
  <2>3. Counts(gr, named, 0, 0)
    BY <2>2, CountsStay
  <2> QED BY <2>2, <2>3 DEF Counts
<1>3. Shape(joined) /\ Counts(named, joined, 0, 0)
  <2>1. CASE Resolve(gr.ipTo, ip) # id /\ ip \in DOMAIN gr.ipTo
    <3>1. gr.ipTo[ip] # id
      BY <2>1 DEF Resolve
    <3>2. joined = MergeNodeInto(named, id, gr.ipTo[ip], name)
      BY <2>1 DEF Joined
    <3> HIDE DEF named, id, name, joined
    <3> QED BY <1>2, <3>1, <3>2, MergeCounts, MergeShape
  <2>2. CASE ~(Resolve(gr.ipTo, ip) # id /\ ip \in DOMAIN gr.ipTo)
    <3>1. joined = named
      BY <2>2 DEF Joined
    <3> HIDE DEF named, joined
    <3> QED BY <1>2, <3>1, CountsStay
  <2> QED BY <2>1, <2>2
<1>4. node.packets = IF id \in DOMAIN joined.nodes THEN joined.nodes[id].packets + 1 ELSE 1
  <2>1. CASE id \in DOMAIN joined.nodes
    <3>1. DOMAIN joined.nodes[id] = NodeFields
      BY <1>3, <2>1 DEF Shape
    <3>2. node = updated
      BY <2>1
    <3> HIDE DEF joined, id, useName, name
    <3> QED BY <2>1, <3>1, <3>2 DEF NodeFields
  <2>2. CASE id \notin DOMAIN joined.nodes
    BY <2>2
  <2> QED BY <2>1, <2>2
<1>5. /\ result.nodes = Put(joined.nodes, id, node)
      /\ result.edges = joined.edges /\ result.folded = joined.folded
  <2> HIDE DEF joined, id, updated, fresh, result
  <2>1. DOMAIN joined = Fields
    BY <1>3 DEF Shape
  <2> QED BY <1>1, <2>1 DEF Fields
<1> HIDE DEF named, joined, id, node, result
<1>6. Counted(joined) /\ AtNodes(joined.nodes) \in Nat /\ OnEdges(joined.edges) \in Nat
      /\ joined.folded \in Nat
  BY <1>3, CountsAreNumbers DEF Counts, Counted
<1>7. CountedNodes(result.nodes) /\ AtNodes(result.nodes) = AtNodes(joined.nodes) + 1
  BY <1>4, <1>5, <1>6, OneMoreAtNode DEF Counted
<1>8. Counts(joined, result, 1, 0)
  BY <1>5, <1>6, <1>7 DEF Counts, Counted
<1>9. Counts(gr, joined, 0 + 0, 0 + 0)
  BY <1>2, <1>3, CountsChain
<1>10. Counts(gr, result, (0 + 0) + 1, (0 + 0) + 0)
  BY <1>8, <1>9, CountsChain
<1> QED BY <1>10 DEF result

\* Re-keying a node to its MAC counts nothing.
LEMMA PromoteCounts ==
  ASSUME NEW gr, NEW id, NEW mac, Shape(gr), Counted(gr)
  PROVE  Counts(gr, PromoteNodeIDToMAC(gr, id, mac), 0, 0)
<1> DEFINE own    == gr.nodes[id].name
           hosts  == HostAddrs(gr.nodes[id].ips)
           name   == IF own \notin {NoName, id} THEN own
                     ELSE IF hosts # <<>> THEN Head(hosts) ELSE id
           merged == MergeNodeInto(gr, mac, id, name)
           kept   == IF id \in DOMAIN gr.nameTo /\ gr.nameTo[id] = id
                     THEN Without(gr.nameTo, {id}) ELSE gr.nameTo
           result == [merged EXCEPT
                        !.nodes[mac].name = IF @ \in {NoName, mac} THEN name ELSE @,
                        !.macTo  = Put(@, mac, mac),
                        !.nameTo = IF name # mac THEN Put(kept, name, mac) ELSE kept]
           stays  == id = mac \/ mac \in gr.shared \/ gr.nodes[id].group \/ id \in Macs
<1>1. PromoteNodeIDToMAC(gr, id, mac) = IF stays THEN gr ELSE result
  BY DEF PromoteNodeIDToMAC
<1>2. CASE stays
  BY <1>1, <1>2, CountsStay
<1>3. CASE ~stays
  <2>1. id # mac
    BY <1>3
  <2>2. PromoteNodeIDToMAC(gr, id, mac) = result
    BY <1>1, <1>3
  <2> HIDE DEF name, kept, merged
  <2>3. Shape(merged) /\ Counts(gr, merged, 0, 0)
    BY <2>1, MergeCounts, MergeShape DEF merged
  <2>4. /\ result.edges = merged.edges /\ result.folded = merged.folded
        /\ DOMAIN result.nodes = DOMAIN merged.nodes
        /\ \A n \in DOMAIN merged.nodes : result.nodes[n].packets = merged.nodes[n].packets
    BY <2>3 DEF Shape, Fields, NodeFields
  <2> HIDE DEF result, stays
  <2>5. Counts(merged, result, 0, 0)
    BY <2>3, <2>4, CountsStay DEF Counts
  <2>6. Counts(gr, result, 0 + 0, 0 + 0)
    BY <2>3, <2>5, CountsChain
  <2> QED BY <2>2, <2>6
<1> QED BY <1>2, <1>3

\* Nor does re-keying a node from a gateway's MAC.
LEMMA DemoteCounts ==
  ASSUME NEW gr, NEW mac, Shape(gr), Counted(gr)
  PROVE  Counts(gr, DemoteMACIdentity(gr, mac), 0, 0)
<1> DEFINE hosts == HostAddrs(gr.nodes[mac].ips)
           new   == IF hosts = <<>> THEN mac ELSE Head(hosts)
           own   == gr.nodes[mac].name
           name  == IF own \in {NoName, mac} THEN new ELSE own
           merged == MergeNodeInto(gr, new, mac, name)
           result == [merged EXCEPT
                        !.nodes[new].name = IF @ \in {NoName, mac} THEN name ELSE @]
<1>1. DemoteMACIdentity(gr, mac) =
        IF mac \notin DOMAIN gr.nodes \/ new = mac THEN gr ELSE result
  BY DEF DemoteMACIdentity
<1>2. CASE mac \notin DOMAIN gr.nodes \/ new = mac
  BY <1>1, <1>2, CountsStay
<1>3. CASE ~(mac \notin DOMAIN gr.nodes \/ new = mac)
  <2>1. new # mac
    BY <1>3
  <2>2. DemoteMACIdentity(gr, mac) = result
    BY <1>1, <1>3
  <2> HIDE DEF name, new, merged
  <2>3. Shape(merged) /\ Counts(gr, merged, 0, 0)
    BY <2>1, MergeCounts, MergeShape DEF merged
  <2>4. /\ result.edges = merged.edges /\ result.folded = merged.folded
        /\ DOMAIN result.nodes = DOMAIN merged.nodes
        /\ \A n \in DOMAIN merged.nodes : result.nodes[n].packets = merged.nodes[n].packets
    BY <2>3 DEF Shape, Fields, NodeFields
  <2> HIDE DEF result
  <2>5. Counts(merged, result, 0, 0)
    BY <2>3, <2>4, CountsStay DEF Counts
  <2>6. Counts(gr, result, 0 + 0, 0 + 0)
    BY <2>3, <2>5, CountsChain
  <2> QED BY <2>2, <2>6
<1> QED BY <1>2, <1>3

\* A MAC beside an address counts nothing, whatever it merges.
LEMMA RecordMACCounts ==
  ASSUME NEW gr, NEW id, NEW mac, NEW t, Shape(gr), Counted(gr)
  PROVE  Counts(gr, RecordMAC(gr, id, mac, t), 0, 0)
<1> DEFINE noted  == [gr EXCEPT !.nodes[id].macs = @ \cup {mac}]
           anchor == gr.macTo[mac]
           Anchored(h) == PromoteNodeIDToMAC([h EXCEPT !.macTo = Put(@, mac, id)], id, mac)
           Free   == mac \in DOMAIN gr.macTo => anchor = id \/ anchor \notin DOMAIN gr.nodes
           gateway == [noted EXCEPT !.shared = @ \cup {mac}, !.macTo = Without(@, {mac})]
           moved   == MergeNodeInto(noted, id, anchor, gr.nodes[id].name)
           result == RecordMAC(gr, id, mac, t)
<1>1. result =
        IF mac \notin Macs \/ id \notin DOMAIN gr.nodes THEN gr
        ELSE IF mac \in gr.shared THEN noted
        ELSE IF Free THEN Anchored(noted)
        ELSE IF t - gr.nodes[anchor].seen < MacWindow
             THEN DemoteMACIdentity(gateway, mac)
             ELSE Anchored(moved)
  BY DEF RecordMAC
<1>2. CASE id \notin DOMAIN gr.nodes
  BY <1>1, <1>2, CountsStay
<1>3. CASE id \in DOMAIN gr.nodes
  <2>1. Shape(noted) /\ Counts(gr, noted, 0, 0)
    <3>1. DOMAIN gr = Fields /\ DOMAIN gr.nodes[id] = NodeFields
      BY <1>3 DEF Shape
    <3>2. /\ DOMAIN noted = Fields
          /\ noted.edges = gr.edges /\ noted.folded = gr.folded
          /\ DOMAIN noted.nodes = DOMAIN gr.nodes
          /\ \A n \in DOMAIN gr.nodes : n # id => noted.nodes[n] = gr.nodes[n]
          /\ DOMAIN noted.nodes[id] = NodeFields
          /\ noted.nodes[id].packets = gr.nodes[id].packets
      BY <1>3, <3>1 DEF Fields, NodeFields
    <3> HIDE DEF noted
    <3>3. Shape(noted)
      BY <3>2 DEF Shape
    <3>4. Counts(gr, noted, 0, 0)
      BY <3>2, CountsStay
    <3> QED BY <3>3, <3>4
  <2>2. gateway = [noted EXCEPT !.shared = @ \cup {mac}, !.macTo = Without(@, {mac})]
    OBVIOUS
  <2> HIDE DEF noted, gateway
  <2>3. ASSUME NEW h, Shape(h), Counts(gr, h, 0, 0)
        PROVE  Counts(gr, Anchored(h), 0, 0)
    <3> DEFINE k == [h EXCEPT !.macTo = Put(@, mac, id)]
    <3>1. Shape(k) /\ k.edges = h.edges /\ k.nodes = h.nodes /\ k.folded = h.folded
      BY <2>3 DEF Shape, Fields
    <3>2. Anchored(h) = PromoteNodeIDToMAC(k, id, mac)
      OBVIOUS
    <3> HIDE DEF k, Anchored
    <3>3. Counts(h, k, 0, 0)
      BY <2>3, <3>1, CountsStay DEF Counts
    <3>4. Counts(gr, k, 0 + 0, 0 + 0)
      BY <2>3, <3>3, CountsChain
    <3>5. Counts(k, Anchored(h), 0, 0)
      BY <3>1, <3>2, <3>3, PromoteCounts DEF Counts
    <3>6. Counts(gr, Anchored(h), (0 + 0) + 0, (0 + 0) + 0)
      BY <3>4, <3>5, CountsChain
    <3> QED BY <3>6
  <2>4. CASE mac \in gr.shared \/ mac \notin Macs
    BY <1>1, <2>1, <2>4, CountsStay
  <2>5. CASE mac \in Macs /\ mac \notin gr.shared /\ Free
    <3>1. Counts(gr, Anchored(noted), 0, 0)
      BY <2>1, <2>3
    <3> HIDE DEF Anchored, Free, result
    <3>2. result = Anchored(noted)
      BY <1>1, <1>3, <2>5
    <3> QED BY <3>1, <3>2 DEF result
  <2>6. CASE mac \in Macs /\ mac \notin gr.shared /\ ~Free
    <3>1. Counts(gr, DemoteMACIdentity(gateway, mac), 0, 0)
      <4>1. /\ Shape(gateway) /\ gateway.edges = noted.edges
            /\ gateway.nodes = noted.nodes /\ gateway.folded = noted.folded
        BY <2>1, <2>2 DEF Shape, Fields
      <4>2. Counts(noted, gateway, 0, 0)
        BY <2>1, <4>1, CountsStay DEF Counts
      <4>3. Counts(gr, gateway, 0 + 0, 0 + 0)
        BY <2>1, <4>2, CountsChain
      <4>4. Counts(gateway, DemoteMACIdentity(gateway, mac), 0, 0)
        BY <4>1, <4>2, DemoteCounts DEF Counts
      <4>5. Counts(gr, DemoteMACIdentity(gateway, mac), (0 + 0) + 0, (0 + 0) + 0)
        BY <4>3, <4>4, CountsChain
      <4> QED BY <4>5
    <3>2. Counts(gr, Anchored(moved), 0, 0)
      <4>1. id # anchor
        BY <2>6
      <4>2. Shape(moved) /\ Counts(noted, moved, 0, 0)
        <5> HIDE DEF anchor
        <5> QED BY <2>1, <4>1, MergeCounts, MergeShape DEF Counts
      <4> HIDE DEF moved, anchor, Anchored
      <4>3. Counts(gr, moved, 0 + 0, 0 + 0)
        BY <2>1, <4>2, CountsChain
      <4> QED BY <2>3, <4>2, <4>3
    <3>3. result = DemoteMACIdentity(gateway, mac) \/ result = Anchored(moved)
      <4>1. moved = MergeNodeInto(noted, id, anchor, gr.nodes[id].name)
        OBVIOUS
      <4> HIDE DEF Anchored, Free, moved, anchor, result
      <4> QED BY <1>1, <1>3, <2>2, <2>6, <4>1
    <3> HIDE DEF Anchored, Free, moved, anchor, result
    <3> QED BY <3>1, <3>2, <3>3 DEF result
  <2> QED BY <2>4, <2>5, <2>6
<1> QED BY <1>2, <1>3

\* The edge of a packet counts it once.
LEMMA AddOrUpdateEdgeCounts ==
  ASSUME NEW gr, NEW src, NEW dst, NEW t, Shape(gr), Counted(gr)
  PROVE  Counts(gr, AddOrUpdateEdge(gr, src, dst, t), 0, 1)
<1> DEFINE from == Resolve(gr.ipTo, src)
           to   == Resolve(gr.ipTo, dst)
           e    == {from, to}
           isForward == Rank[from] <= Rank[to]
           was  == IF e \in DOMAIN gr.edges THEN gr.edges[e] ELSE [fwd |-> 0, rev |-> 0, seen |-> t]
           v    == [fwd  |-> was.fwd + (IF isForward THEN 1 ELSE 0),
                    rev  |-> was.rev + (IF isForward THEN 0 ELSE 1),
                    seen |-> t]
           R    == AddOrUpdateEdge(gr, src, dst, t)
<1>1. R.nodes = gr.nodes /\ R.folded = gr.folded /\ R.edges = Put(gr.edges, e, v)
  BY DEF AddOrUpdateEdge, Shape, Fields
<1>2. was.fwd \in Nat /\ was.rev \in Nat
      /\ was.fwd + was.rev = IF e \in DOMAIN gr.edges THEN gr.edges[e].fwd + gr.edges[e].rev ELSE 0
  BY DEF Counted, CountedEdges
<1>3. /\ v.fwd = was.fwd + (IF isForward THEN 1 ELSE 0)
      /\ v.rev = was.rev + (IF isForward THEN 0 ELSE 1)
  OBVIOUS
<1>4. \E a, b : e = {a, b}
  OBVIOUS
<1> HIDE DEF v, was, isForward, e, R
<1>5. v.fwd \in Nat /\ v.rev \in Nat /\ v.fwd + v.rev = (was.fwd + was.rev) + 1
  BY <1>2, <1>3
<1>6. v.fwd + v.rev = IF e \in DOMAIN gr.edges THEN (gr.edges[e].fwd + gr.edges[e].rev) + 1 ELSE 1
  BY <1>2, <1>5
<1>7. CountedEdges(R.edges) /\ OnEdges(R.edges) = OnEdges(gr.edges) + 1
  <2> DEFINE E == gr.edges
  <2>1. CountedEdges(E) /\ R.edges = Put(E, e, v)
    BY <1>1 DEF Counted
  <2>2. v.fwd + v.rev = IF e \in DOMAIN E THEN (E[e].fwd + E[e].rev) + 1 ELSE 1
    BY <1>6
  <2> HIDE DEF E
  <2>3. CountedEdges(Put(E, e, v)) /\ OnEdges(Put(E, e, v)) = OnEdges(E) + 1
    BY <1>4, <1>5, <2>1, <2>2, OneMoreOnEdge
  <2> QED BY <2>1, <2>3 DEF E
<1>8. AtNodes(gr.nodes) \in Nat /\ OnEdges(gr.edges) \in Nat /\ gr.folded \in Nat
  BY CountsAreNumbers DEF Counted
<1>9. Counts(gr, R, 0, 1)
  BY <1>1, <1>7, <1>8 DEF Counts, Counted
<1> QED BY <1>9 DEF R

\* A packet is counted at two nodes and on one edge.
LEMMA IngestedCounts ==
  ASSUME NEW gr, NEW p, NEW t, GraphInv(gr), Counted(gr)
  PROVE  Counts(gr, Ingested(gr, p, t), 2, 1)
<1> DEFINE first == AddOrUpdateNode(gr, p.src, p.srcName, t)
           ends  == AddOrUpdateNode(first, p.dst, p.dstName, t)
           src   == RecordMAC(ends, ends.ipTo[p.src], p.srcMAC, t)
           dst   == RecordMAC(src, src.ipTo[p.dst], p.dstMAC, t)
           all   == AddOrUpdateEdge(dst, p.src, p.dst, t)
<1>0. Ingested(gr, p, t) = all
  BY Zenon DEF Ingested
<1>1. GraphInv(first) /\ Counts(gr, first, 1, 0)
  BY AddOrUpdateNodeKeeps, AddOrUpdateNodeCounts
<1> HIDE DEF first
<1>2. GraphInv(ends) /\ Counts(first, ends, 1, 0)
  BY <1>1, AddOrUpdateNodeKeeps, AddOrUpdateNodeCounts DEF Counts
<1> HIDE DEF ends
<1>3. GraphInv(src) /\ Counts(ends, src, 0, 0)
  BY <1>2, RecordMACKeeps, RecordMACCounts DEF Counts, GraphInv
<1> HIDE DEF src
<1>4. GraphInv(dst) /\ Counts(src, dst, 0, 0)
  BY <1>3, RecordMACKeeps, RecordMACCounts DEF Counts, GraphInv
<1> HIDE DEF dst
<1>5. Counts(dst, all, 0, 1)
  BY <1>4, AddOrUpdateEdgeCounts DEF Counts, GraphInv
<1> HIDE DEF all
<1>6. Counts(gr, ends, 2, 0)
  <2>1. Counts(gr, ends, 1 + 1, 0 + 0)
    BY <1>1, <1>2, CountsChain
  <2> QED BY <2>1
<1>7. Counts(gr, dst, 2, 0)
  <2>1. Counts(gr, src, 2 + 0, 0 + 0)
    BY <1>3, <1>6, CountsChain
  <2>2. Counts(gr, dst, (2 + 0) + 0, (0 + 0) + 0)
    BY <1>4, <2>1, CountsChain
  <2> QED BY <2>2
<1>8. Counts(gr, all, 2 + 0, 0 + 1)
  BY <1>5, <1>7, CountsChain
<1> HIDE DEF all
<1> QED BY <1>0, <1>8

-----------------------------------------------------------------------------
(* The system *)

\* What a packet makes of the graph.
LEMMA IngestedKeeps ==
  ASSUME NEW gr, NEW p, NEW t, GraphInv(gr)
  PROVE  GraphInv(Ingested(gr, p, t))
<1> DEFINE first == AddOrUpdateNode(gr, p.src, p.srcName, t)
           ends  == AddOrUpdateNode(first, p.dst, p.dstName, t)
           src   == RecordMAC(ends, ends.ipTo[p.src], p.srcMAC, t)
           dst   == RecordMAC(src, src.ipTo[p.dst], p.dstMAC, t)
<1>1. GraphInv(first)
  BY AddOrUpdateNodeKeeps
<1> HIDE DEF first
<1>2. GraphInv(ends)
  BY <1>1, AddOrUpdateNodeKeeps
<1> HIDE DEF ends
<1>3. GraphInv(src)
  BY <1>2, RecordMACKeeps
<1> HIDE DEF src
<1>4. GraphInv(dst)
  BY <1>3, RecordMACKeeps
<1> HIDE DEF dst
<1>5. GraphInv(AddOrUpdateEdge(dst, p.src, p.dst, t))
  BY <1>4, AddOrUpdateEdgeKeeps
<1> QED BY <1>5 DEF Ingested, first, ends, src, dst

\* The empty graph has the invariant.
LEMMA InitInv == Init => GraphInv(g)
<1> SUFFICES ASSUME Init PROVE GraphInv(g)
  OBVIOUS
<1>1. /\ DOMAIN g = Fields
      /\ g.nodes = Empty /\ g.edges = Empty /\ g.macTo = Empty /\ g.adj = Empty
  BY DEF Init, Fields
<1>2. AdjOf({}) = Empty
  BY DEF AdjOf, Empty
<1> QED BY <1>1, <1>2 DEF GraphInv, Shape, Adjacent, Anchors, Empty

\* Every step keeps it.
LEMMA StepInv == GraphInv(g) /\ [Next]_vars => GraphInv(g')
<1> SUFFICES ASSUME GraphInv(g), [Next]_vars PROVE GraphInv(g')
  OBVIOUS
<1>0. Shape(g) /\ Adjacent(g) /\ Anchors(g)
  BY DEF GraphInv
<1>1. CASE Ingest
  BY <1>1, IngestedKeeps DEF Ingest
<1>2. CASE RemoveStaleNodes
  <2> DEFINE gone  == StalestNodes
             addrs == UNION {Elements(g.nodes[n].ips) : n \in gone}
             names == gone \cup {g.nodes[n].name : n \in gone}
             macs  == {m \in DOMAIN g.macTo :
                         g.macTo[m] \in gone /\ m \in g.nodes[g.macTo[m]].macs}
  <2>1. g' = [g EXCEPT !.nodes  = Without(@, gone), !.ipTo  = Without(@, addrs),
                       !.nameTo = Without(@, names), !.macTo = Without(@, macs)]
    BY <1>2 DEF RemoveStaleNodes
  <2>2. \A m \in DOMAIN g.macTo : m \in macs <=> g.macTo[m] \in gone
    BY <1>0 DEF Anchors
  <2> HIDE DEF gone, addrs, names, macs
  <2>3. /\ DOMAIN g' = Fields
        /\ g'.edges = g.edges /\ g'.adj = g.adj /\ g'.shared = g.shared
        /\ g'.nodes = Without(g.nodes, gone) /\ g'.macTo = Without(g.macTo, macs)
    BY <1>0, <2>1 DEF Shape, Fields
  <2>4. Shape(g') /\ Adjacent(g')
    BY <1>0, <2>3 DEF Shape, Adjacent, Without
  <2>5. Anchors(g')
    BY <1>0, <2>2, <2>3 DEF Anchors, Without
  <2> QED BY <2>4, <2>5 DEF GraphInv
<1>3. CASE RemoveStaleEdges
  <2> DEFINE gone == StalestEdges
  <2>1. g' = [g EXCEPT !.edges = Without(@, gone), !.adj = Unindexed(@, gone)]
    BY <1>3 DEF RemoveStaleEdges
  <2> HIDE DEF gone
  <2>2. /\ DOMAIN g' = Fields
        /\ g'.nodes = g.nodes /\ g'.macTo = g.macTo /\ g'.shared = g.shared
        /\ DOMAIN g'.edges = DOMAIN g.edges \ gone
        /\ g'.adj = Unindexed(g.adj, gone)
    BY <1>0, <2>1 DEF Shape, Fields, Without
  <2>3. Adjacent(g')
    <3>1. Unindexed(AdjOf(DOMAIN g.edges), gone) = AdjOf(DOMAIN g.edges \ gone)
      BY UnindexedExact
    <3> QED BY <1>0, <2>2, <3>1 DEF Adjacent
  <2>4. Shape(g') /\ Anchors(g')
    BY <1>0, <2>2 DEF Shape, Anchors
  <2> QED BY <2>3, <2>4 DEF GraphInv
<1>4. CASE Tick \/ UNCHANGED vars
  BY <1>4 DEF Tick, vars
<1> QED BY <1>1, <1>2, <1>3, <1>4 DEF Next

IInv == GraphInv(g)

\* The graph always has a matching adjacency index, and sound anchors.
THEOREM GraphInvariant == Spec => []IInv
<1>1. Init => IInv
  BY InitInv DEF IInv
<1>2. IInv /\ [Next]_vars => IInv'
  BY StepInv DEF IInv
<1> QED BY <1>1, <1>2, PTL DEF Spec

\* edgesByNode lists exactly the edges of every node, after any packets, merges,
\* promotions, demotions and sweeps (graph.go:165-168, 218-240).
THEOREM AdjacencyAlwaysExact == Spec => []AdjacencyExact
<1>1. IInv => AdjacencyExact
  BY DEF IInv, GraphInv, Adjacent, AdjOf, AdjacencyExact
<1> QED BY <1>1, GraphInvariant, PTL

\* A MAC in macToNodeID leads to a node of the graph that carries it, and no
\* shared MAC is in it (recordMACLocked, graph.go:573-626).
THEOREM AnchorsAlwaysHold == Spec => []AnchorsHold
<1>1. IInv => AnchorsHold
  BY DEF IInv, GraphInv, Anchors, AnchorsHold
<1> QED BY <1>1, GraphInvariant, PTL

\* What the nodes and the edges hold, what decay has taken with them and what merging
\* has folded away make up what was ingested.
LedgerInv ==
  /\ Counted(g)
  /\ DOMAIN ledger = {"packets", "nodes", "edges"}
  /\ ledger.packets \in Nat /\ ledger.nodes \in Nat /\ ledger.edges \in Nat
  /\ 2 * ledger.packets = ledger.nodes + AtNodes(g.nodes)
  /\ ledger.packets = ledger.edges + (OnEdges(g.edges) + g.folded)

\* The empty graph holds nothing.
LEMMA InitLedger == Init => LedgerInv
<1> SUFFICES ASSUME Init PROVE LedgerInv
  OBVIOUS
<1>1. /\ g.nodes = Empty /\ g.edges = Empty /\ g.folded = 0
      /\ DOMAIN ledger = {"packets", "nodes", "edges"}
      /\ ledger.packets = 0 /\ ledger.nodes = 0 /\ ledger.edges = 0
  BY DEF Init
<1>2. DOMAIN g.nodes = {} /\ DOMAIN g.edges = {}
  BY <1>1 DEF Empty
<1>3. AtNodes(g.nodes) = 0 /\ OnEdges(g.edges) = 0
  BY <1>2, TotalEmpty DEF AtNodes, OnEdges
<1>4. Counted(g)
  BY <1>1, <1>2, FS_EmptySet DEF Counted, CountedNodes, CountedEdges
<1> QED BY <1>1, <1>3, <1>4 DEF LedgerInv

\* A packet is in the ledger once, at two nodes and on one edge.
LEMMA IngestLedger == GraphInv(g) /\ LedgerInv /\ Ingest => LedgerInv'
<1> SUFFICES ASSUME GraphInv(g), LedgerInv, Ingest PROVE LedgerInv'
  OBVIOUS
<1>1. PICK p \in Packets : g' = Ingested(g, p, now)
  BY DEF Ingest
<1>2. Counts(g, g', 2, 1)
  BY <1>1, IngestedCounts DEF LedgerInv
<1>3. /\ DOMAIN ledger' = DOMAIN ledger
      /\ ledger'.packets = ledger.packets + 1
      /\ ledger'.nodes = ledger.nodes /\ ledger'.edges = ledger.edges
  BY DEF Ingest, LedgerInv
<1>4. AtNodes(g.nodes) \in Nat /\ OnEdges(g.edges) \in Nat /\ g.folded \in Nat
  BY CountsAreNumbers DEF LedgerInv, Counted
<1> DEFINE a == AtNodes(g.nodes)
           b == OnEdges(g.edges) + g.folded
<1>5. AtNodes(g'.nodes) = a + 2 /\ OnEdges(g'.edges) + g'.folded = b + 1
  BY <1>2 DEF Counts
<1>6. a \in Nat /\ b \in Nat
  BY <1>4
<1>7. 2 * ledger.packets = ledger.nodes + a /\ ledger.packets = ledger.edges + b
  BY DEF LedgerInv
<1> HIDE DEF a, b
<1>8. /\ 2 * ledger'.packets = ledger'.nodes + AtNodes(g'.nodes)
      /\ ledger'.packets = ledger'.edges + (OnEdges(g'.edges) + g'.folded)
  BY <1>3, <1>5, <1>6, <1>7 DEF LedgerInv
<1> QED BY <1>2, <1>3, <1>8 DEF LedgerInv, Counts

\* What leaves with a node, or with an edge, goes over to the ledger.
LEMMA DecayLedger ==
  GraphInv(g) /\ LedgerInv /\ (RemoveStaleNodes \/ RemoveStaleEdges) => LedgerInv'
<1> SUFFICES ASSUME GraphInv(g), LedgerInv, RemoveStaleNodes \/ RemoveStaleEdges
             PROVE  LedgerInv'
  OBVIOUS
<1>1. /\ DOMAIN g = Fields /\ Counted(g)
      /\ AtNodes(g.nodes) \in Nat /\ OnEdges(g.edges) \in Nat /\ g.folded \in Nat
  BY CountsAreNumbers DEF GraphInv, Shape, LedgerInv, Counted
<1>2. CASE RemoveStaleNodes
  <2> DEFINE gone == StalestNodes
             sum  == MapThenSumSet(LAMBDA n : g.nodes[n].packets, gone)
  <2>1. gone \in SUBSET DOMAIN g.nodes
    BY DEF StalestNodes, StaleNodes
  <2>2. g'.nodes = Without(g.nodes, gone) /\ g'.edges = g.edges /\ g'.folded = g.folded
    BY <1>1, <1>2 DEF RemoveStaleNodes, Fields
  <2>3. ledger' = [ledger EXCEPT !.nodes = @ + sum]
    BY <1>2 DEF RemoveStaleNodes
  <2> HIDE DEF gone
  <2>4. /\ CountedNodes(g'.nodes) /\ sum \in Nat
        /\ AtNodes(g.nodes) = sum + AtNodes(g'.nodes)
    <3>1. CountedNodes(g.nodes)
      BY <1>1 DEF Counted
    <3>2. /\ CountedNodes(Without(g.nodes, gone))
          /\ MapThenSumSet(LAMBDA n : g.nodes[n].packets, gone) \in Nat
          /\ AtNodes(g.nodes) = MapThenSumSet(LAMBDA n : g.nodes[n].packets, gone)
                                 + AtNodes(Without(g.nodes, gone))
      BY <2>1, <3>1, LessNodes
    <3> QED BY <2>2, <3>2
  <2> HIDE DEF sum
  <2>5. Counted(g')
    BY <1>1, <2>2, <2>4 DEF Counted
  <2>6. AtNodes(g'.nodes) \in Nat
    BY <2>5, CountsAreNumbers DEF Counted
  <2>7. /\ DOMAIN ledger' = DOMAIN ledger
        /\ ledger'.packets = ledger.packets /\ ledger'.edges = ledger.edges
        /\ ledger'.nodes = ledger.nodes + sum
    BY <2>3 DEF LedgerInv
  <2>8. /\ 2 * ledger'.packets = ledger'.nodes + AtNodes(g'.nodes)
        /\ ledger'.packets = ledger'.edges + (OnEdges(g'.edges) + g'.folded)
    BY <2>2, <2>4, <2>6, <2>7 DEF LedgerInv
  <2> QED BY <2>4, <2>5, <2>7, <2>8 DEF LedgerInv
<1>3. CASE RemoveStaleEdges
  <2> DEFINE gone == StalestEdges
             sum  == MapThenSumSet(LAMBDA e : g.edges[e].fwd + g.edges[e].rev, gone)
  <2>1. gone \in SUBSET DOMAIN g.edges
    BY DEF StalestEdges, StaleEdges
  <2>2. g'.edges = Without(g.edges, gone) /\ g'.nodes = g.nodes /\ g'.folded = g.folded
    BY <1>1, <1>3 DEF RemoveStaleEdges, Fields
  <2>3. ledger' = [ledger EXCEPT !.edges = @ + sum]
    BY <1>3 DEF RemoveStaleEdges
  <2> HIDE DEF gone
  <2>4. /\ CountedEdges(g'.edges) /\ sum \in Nat
        /\ OnEdges(g.edges) = sum + OnEdges(g'.edges)
    <3>1. CountedEdges(g.edges)
      BY <1>1 DEF Counted
    <3>2. /\ CountedEdges(Without(g.edges, gone))
          /\ MapThenSumSet(LAMBDA e : g.edges[e].fwd + g.edges[e].rev, gone) \in Nat
          /\ OnEdges(g.edges) = MapThenSumSet(LAMBDA e : g.edges[e].fwd + g.edges[e].rev, gone)
                                 + OnEdges(Without(g.edges, gone))
      BY <2>1, <3>1, LessEdges
    <3> QED BY <2>2, <3>2
  <2> HIDE DEF sum
  <2>5. Counted(g')
    BY <1>1, <2>2, <2>4 DEF Counted
  <2>6. OnEdges(g'.edges) \in Nat
    BY <2>5, CountsAreNumbers DEF Counted
  <2>7. /\ DOMAIN ledger' = DOMAIN ledger
        /\ ledger'.packets = ledger.packets /\ ledger'.nodes = ledger.nodes
        /\ ledger'.edges = ledger.edges + sum
    BY <2>3 DEF LedgerInv
  <2>8. /\ 2 * ledger'.packets = ledger'.nodes + AtNodes(g'.nodes)
        /\ ledger'.packets = ledger'.edges + (OnEdges(g'.edges) + g'.folded)
    BY <1>1, <2>2, <2>4, <2>6, <2>7 DEF LedgerInv
  <2> QED BY <2>4, <2>5, <2>7, <2>8 DEF LedgerInv
<1> QED BY <1>2, <1>3

\* The ledger balances, after any packets, merges and sweeps.
THEOREM LedgerInvariant == Spec => []LedgerInv
<1>1. Init => LedgerInv
  BY InitLedger
<1>2. IInv /\ LedgerInv /\ [Next]_vars => LedgerInv'
  <2> SUFFICES ASSUME GraphInv(g), LedgerInv, [Next]_vars PROVE LedgerInv'
    BY DEF IInv
  <2>1. CASE Ingest
    BY <2>1, IngestLedger
  <2>2. CASE RemoveStaleNodes \/ RemoveStaleEdges
    BY <2>2, DecayLedger
  <2>3. CASE Tick \/ UNCHANGED vars
    BY <2>3 DEF Tick, vars, LedgerInv
  <2> QED BY <2>1, <2>2, <2>3 DEF Next
<1> QED BY <1>1, <1>2, GraphInvariant, PTL DEF Spec

\* No packet is lost or counted twice by a merge, a promotion or a demotion
\* (mergeNodeInto, graph.go): nodes and edges hold what was ingested, less what decay
\* took away with them and the traffic inside a host that turned out to be one.
THEOREM TrafficAlwaysAccounted == Spec => []TrafficAccounted
<1>1. LedgerInv => TrafficAccounted
  <2> SUFFICES ASSUME LedgerInv PROVE TrafficAccounted
    OBVIOUS
  <2>1. CountedNodes(g.nodes) /\ CountedEdges(g.edges) /\ g.folded \in Nat
    BY DEF LedgerInv, Counted
  <2>2. MapThenSumSet(LAMBDA n : g.nodes[n].packets, DOMAIN g.nodes) = AtNodes(g.nodes)
    BY <2>1, PacketsTotal DEF AtNodes, CountedNodes
  <2>3. MapThenSumSet(LAMBDA e : g.edges[e].fwd + g.edges[e].rev, DOMAIN g.edges) = OnEdges(g.edges)
    BY <2>1, TrafficTotal DEF OnEdges, CountedEdges
  <2>4. OnEdges(g.edges) \in Nat
    BY CountsAreNumbers DEF LedgerInv
  <2>5. ledger.packets = ledger.edges + g.folded + OnEdges(g.edges)
    BY <2>1, <2>4 DEF LedgerInv
  <2> QED BY <2>2, <2>3, <2>5 DEF TrafficAccounted, LedgerInv
<1> QED BY <1>1, LedgerInvariant, PTL

-----------------------------------------------------------------------------
(* Loops over sequences, and the greatest of a set *)

\* Induction up to n: a set that has 0 and, below n, the successor of each member.
LEMMA UpTo ==
    ASSUME NEW n \in Nat, NEW T, 0 \in T, \A k \in 0 .. n : k \in T /\ k < n => k + 1 \in T
    PROVE  \A k \in 0 .. n : k \in T
<1> DEFINE Bad == {k \in 0 .. n : k \notin T}
<1> SUFFICES ASSUME Bad # {} PROVE FALSE
  OBVIOUS
<1>1. Bad \subseteq Nat
  OBVIOUS
<1>2. PICK k \in Bad : \A j \in Bad : k <= j
  BY <1>1, LeastNat
<1>3. k # 0 /\ k - 1 \in 0 .. n /\ k - 1 < n /\ k - 1 \notin Bad
  BY <1>2
<1>4. k - 1 \in T
  BY <1>3
<1>5. (k - 1) + 1 \in T
  BY <1>3, <1>4
<1> QED
  BY <1>2, <1>5

\* A loop of n turns over values of V.
LEMMA LoopExists ==
    ASSUME NEW V, NEW base \in V, NEW n \in Nat, NEW turn \in [1 .. n -> [V -> V]]
    PROVE  \E f : f = [i \in 0 .. n |-> IF i = 0 THEN base ELSE turn[i][f[i - 1]]] /\ f \in [0 .. n -> V]
<1> DEFINE Law(f, m) == /\ f = [i \in 0 .. m |-> IF i = 0 THEN base ELSE turn[i][f[i - 1]]]
                        /\ f \in [0 .. m -> V]
           T == {m \in Nat : \E f : Law(f, m)}
<1>1. 0 \in T
  <2> DEFINE f == [i \in 0 .. 0 |-> base]
  <2>1. Law(f, 0)
    OBVIOUS
  <2> QED
    BY <2>1
<1>2. ASSUME NEW m \in 0 .. n, m \in T, m < n PROVE m + 1 \in T
  <2>1. PICK f : Law(f, m)
    BY <1>2
  <2>2. m + 1 \in 1 .. n /\ f[m] \in V
    BY <1>2, <2>1
  <2> DEFINE last == turn[m + 1][f[m]]
             longer == [i \in 0 .. m + 1 |-> IF i = m + 1 THEN last ELSE f[i]]
  <2>3. last \in V
    BY <2>2
  <2>4. \A i \in 0 .. m : longer[i] = f[i] /\ f[i] \in V
    BY <2>1
  <2>5. longer[m + 1] = last
    OBVIOUS
  <2>6. ASSUME NEW i \in 0 .. m + 1
        PROVE  longer[i] = IF i = 0 THEN base ELSE turn[i][longer[i - 1]]
    <3>1. CASE i = m + 1
      <4>1. i # 0 /\ i - 1 = m /\ longer[i - 1] = f[m]
        BY <2>4, <3>1
      <4> QED
        BY <2>5, <3>1, <4>1
    <3>2. CASE i # m + 1
      <4>1. i \in 0 .. m /\ longer[i] = f[i]
        BY <2>4, <3>2
      <4>2. f[i] = IF i = 0 THEN base ELSE turn[i][f[i - 1]]
        BY <2>1, <4>1
      <4>3. i # 0 => i - 1 \in 0 .. m /\ longer[i - 1] = f[i - 1]
        BY <2>4, <4>1
      <4> QED
        BY <4>1, <4>2, <4>3
    <3> QED
      BY <3>1, <3>2
  <2>7. longer \in [0 .. m + 1 -> V]
    <3>1. \A i \in 0 .. m + 1 : i = m + 1 \/ i \in 0 .. m
      BY <1>2
    <3>2. \A i \in 0 .. m + 1 : longer[i] \in V
      BY <2>3, <2>4, <2>5, <3>1
    <3> QED
      BY <3>2
  <2>8. longer = [i \in 0 .. m + 1 |-> longer[i]]
    OBVIOUS
  <2> HIDE DEF longer
  <2>9. Law(longer, m + 1)
    BY <2>6, <2>7, <2>8
  <2> HIDE DEF Law
  <2> QED
    BY <2>9
<1> HIDE DEF T
<1>3. n \in T
  <2>1. \A k \in 0 .. n : k \in T
    BY <1>1, <1>2, UpTo
  <2> QED
    BY <2>1
<1> QED
  BY <1>3 DEF T


\* The members of a sequence that became one longer.
LEMMA ElementsAppend ==
    ASSUME NEW S, NEW s \in Seq(S), NEW x \in S
    PROVE  Append(s, x) \in Seq(S) /\ Elements(Append(s, x)) = Elements(s) \cup {x}
<1> DEFINE r == Append(s, x)
<1>1. /\ r \in Seq(S) /\ DOMAIN s = 1 .. Len(s) /\ DOMAIN r = 1 .. Len(s) + 1 /\ Len(s) \in Nat
      /\ r[Len(s) + 1] = x /\ \A i \in 1 .. Len(s) : r[i] = s[i]
  OBVIOUS
<1> HIDE DEF r
<1>2. \A i \in DOMAIN r : i \in DOMAIN s \/ i = Len(s) + 1
  BY <1>1
<1>3. \A i \in DOMAIN s : i \in DOMAIN r
  BY <1>1
<1>4. Len(s) + 1 \in DOMAIN r
  BY <1>1
<1>5. Elements(r) = Elements(s) \cup {x}
  <2>1. ASSUME NEW y \in Elements(r) PROVE y \in Elements(s) \cup {x}
    BY <1>1, <1>2 DEF Elements
  <2>2. ASSUME NEW y \in Elements(s) PROVE y \in Elements(r)
    BY <1>1, <1>3 DEF Elements
  <2>3. x \in Elements(r)
    BY <1>1, <1>4 DEF Elements
  <2> QED
    BY <2>1, <2>2, <2>3
<1> QED
  BY <1>1, <1>5 DEF r

\* What a filter leaves: the members at the places it keeps.
LEMMA KeptIs ==
    ASSUME NEW S, NEW seq \in Seq(S), NEW hits
    PROVE  Kept(seq, hits) \in Seq(S) /\ Elements(Kept(seq, hits)) = {seq[k] : k \in hits \cap DOMAIN seq}
<1> DEFINE n == Len(seq)
           V == Seq(S)
           turn == [i \in 1 .. n |-> [v \in V |-> IF i \in hits THEN Append(v, seq[i]) ELSE v]]
           Law(f) == f = [i \in 0 .. n |-> IF i = 0 THEN <<>>
                                          ELSE IF i \in hits THEN Append(f[i - 1], seq[i]) ELSE f[i - 1]]
           loop == CHOOSE f : Law(f)
<1>1. n \in Nat /\ DOMAIN seq = 1 .. n /\ \A i \in 1 .. n : seq[i] \in S
  OBVIOUS
<1>2. \E f : Law(f)
  <2>1. turn \in [1 .. n -> [V -> V]]
    BY <1>1
  <2>2. <<>> \in V
    OBVIOUS
  <2>3. PICK f : f = [i \in 0 .. n |-> IF i = 0 THEN <<>> ELSE turn[i][f[i - 1]]] /\ f \in [0 .. n -> V]
    <3> HIDE DEF turn, V, n
    <3> QED
      BY <1>1, <2>1, <2>2, LoopExists, ZenonT(60)
  <2>4. ASSUME NEW i \in 0 .. n, i # 0 PROVE i \in 1 .. n /\ f[i - 1] \in V
    <3>1. i \in 1 .. n /\ i - 1 \in 0 .. n
      BY <1>1, <2>4
    <3> QED
      BY <2>3, <3>1
  <2>5. \A i \in 1 .. n, v \in V : turn[i][v] = IF i \in hits THEN Append(v, seq[i]) ELSE v
    OBVIOUS
  <2> HIDE DEF turn, V, n
  <2>6. ASSUME NEW i \in 0 .. n
        PROVE  f[i] = IF i = 0 THEN <<>>
                      ELSE IF i \in hits THEN Append(f[i - 1], seq[i]) ELSE f[i - 1]
    BY <2>3, <2>4, <2>5
  <2>7. f = [i \in 0 .. n |-> f[i]]
    BY <2>3
  <2>8. Law(f)
    BY <2>6, <2>7
  <2> QED
    BY <2>8
<1>3. Law(loop)
  BY <1>2
<1>4. Kept(seq, hits) = loop[n]
  BY DEF Kept
<1> HIDE DEF loop
<1> DEFINE T == {i \in Nat : loop[i] \in V /\ Elements(loop[i]) = {seq[k] : k \in hits \cap (1 .. i)}}
<1>5. 0 \in T
  <2>1. loop[0] = <<>>
    BY <1>1, <1>3
  <2>2. <<>> \in V /\ Elements(<<>>) = {} /\ 1 .. 0 = {}
    BY DEF Elements
  <2> HIDE DEF V
  <2> QED
    BY <2>1, <2>2
<1>6. ASSUME NEW m \in 0 .. n, m \in T, m < n PROVE m + 1 \in T
  <2>1. loop[m + 1] = IF m + 1 \in hits THEN Append(loop[m], seq[m + 1]) ELSE loop[m]
    <3>1. m + 1 \in 0 .. n /\ m + 1 # 0 /\ (m + 1) - 1 = m
      BY <1>1, <1>6
    <3> QED
      BY <1>3, <3>1
  <2>2. loop[m] \in Seq(S) /\ Elements(loop[m]) = {seq[k] : k \in hits \cap (1 .. m)}
    BY <1>6
  <2>3. seq[m + 1] \in S /\ 1 .. m + 1 = (1 .. m) \cup {m + 1} /\ m + 1 \in Nat
    BY <1>1, <1>6
  <2>4. CASE m + 1 \in hits
    <3>1. loop[m + 1] \in Seq(S) /\ Elements(loop[m + 1]) = Elements(loop[m]) \cup {seq[m + 1]}
      BY <2>1, <2>2, <2>3, <2>4, ElementsAppend
    <3>2. hits \cap (1 .. m + 1) = (hits \cap (1 .. m)) \cup {m + 1}
      BY <2>3, <2>4
    <3> HIDE DEF n
    <3>3. Elements(loop[m + 1]) = {seq[k] : k \in hits \cap (1 .. m + 1)}
      BY <2>2, <3>1, <3>2
    <3> QED
      BY <2>3, <3>1, <3>3
  <2>5. CASE m + 1 \notin hits
    <3>1. loop[m + 1] = loop[m] /\ hits \cap (1 .. m + 1) = hits \cap (1 .. m)
      BY <2>1, <2>3, <2>5
    <3> QED
      BY <2>2, <2>3, <3>1
  <2> QED
    BY <2>4, <2>5
<1> HIDE DEF T
<1>7. n \in T
  <2> HIDE DEF n
  <2>1. \A k \in 0 .. n : k \in T
    BY <1>1, <1>5, <1>6, UpTo
  <2> QED
    BY <1>1, <2>1
<1> QED
  BY <1>1, <1>4, <1>7 DEF T

\* The addresses of a list that are not groups' (PromoteNodeIDToMAC, DemoteMACIdentity).
LEMMA HostAddrsAre ==
    ASSUME NEW s \in Seq(Addrs)
    PROVE  /\ HostAddrs(s) \in Seq(Addrs)
           /\ Elements(HostAddrs(s)) = Elements(s) \ Groups
           /\ HostAddrs(s) # <<>> => Head(HostAddrs(s)) \in Elements(s) \ Groups
           /\ HostAddrs(s) = <<>> => Elements(s) \subseteq Groups
<1> DEFINE H == HostAddrs(s)
<1>1. H \in Seq(Addrs) /\ Elements(H) = {s[k] : k \in {i \in DOMAIN s : s[i] \notin Groups} \cap DOMAIN s}
  BY KeptIs DEF HostAddrs
<1>2. Elements(H) = Elements(s) \ Groups
  BY <1>1 DEF Elements
<1> HIDE DEF H
<1>3. H # <<>> => Head(H) \in Elements(H)
  <2>1. H # <<>> => 1 \in DOMAIN H /\ Head(H) = H[1]
    BY <1>1
  <2> QED
    BY <2>1 DEF Elements
<1>4. H = <<>> => Elements(H) = {}
  BY DEF Elements
<1> QED
  BY <1>1, <1>2, <1>3, <1>4 DEF H

\* A list that takes over what it lacks of another has the members of both.
LEMMA ExtendedIs ==
    ASSUME NEW s \in Seq(Addrs), NEW t \in Seq(Addrs)
    PROVE  Extended(s, t) \in Seq(Addrs) /\ Elements(Extended(s, t)) = Elements(s) \cup Elements(t)
<1> DEFINE hits == {i \in DOMAIN t : t[i] \notin Elements(s)}
           k == Kept(t, hits)
<1>1. k \in Seq(Addrs) /\ Elements(k) = {t[i] : i \in hits \cap DOMAIN t}
  <2> HIDE DEF hits
  <2> QED
    BY KeptIs
<1>2. Elements(k) = Elements(t) \ Elements(s)
  BY <1>1 DEF Elements
<1>3. Extended(s, t) = s \o k
  BY DEF Extended
<1> HIDE DEF k, hits
<1>4. Elements(s \o k) = Elements(s) \cup Elements(k)
  <2>1. /\ DOMAIN s = 1 .. Len(s) /\ DOMAIN k = 1 .. Len(k) /\ DOMAIN (s \o k) = 1 .. Len(s) + Len(k)
        /\ Len(s) \in Nat /\ Len(k) \in Nat
        /\ \A i \in 1 .. Len(s) + Len(k) : (s \o k)[i] = IF i <= Len(s) THEN s[i] ELSE k[i - Len(s)]
    BY <1>1
  <2>2. ASSUME NEW x \in Elements(s \o k) PROVE x \in Elements(s) \cup Elements(k)
    <3>1. PICK i \in DOMAIN (s \o k) : x = (s \o k)[i]
      BY <2>2 DEF Elements
    <3>2. i <= Len(s) \/ i - Len(s) \in DOMAIN k
      BY <2>1
    <3> QED
      BY <2>1, <3>1, <3>2 DEF Elements
  <2>3. ASSUME NEW x \in Elements(s) PROVE x \in Elements(s \o k)
    <3>1. PICK i \in DOMAIN s : x = s[i]
      BY <2>3 DEF Elements
    <3>2. i \in DOMAIN (s \o k) /\ (s \o k)[i] = s[i]
      BY <2>1
    <3> QED
      BY <3>1, <3>2 DEF Elements
  <2>4. ASSUME NEW x \in Elements(k) PROVE x \in Elements(s \o k)
    <3>1. PICK i \in DOMAIN k : x = k[i]
      BY <2>4 DEF Elements
    <3>2. Len(s) + i \in DOMAIN (s \o k) /\ (s \o k)[Len(s) + i] = k[i]
      BY <2>1
    <3> QED
      BY <3>1, <3>2 DEF Elements
  <2> QED
    BY <2>2, <2>3, <2>4
<1>5. s \o k \in Seq(Addrs)
  BY <1>1
<1> QED
  BY <1>2, <1>3, <1>4, <1>5

\* The greatest of finitely many naturals is one of them.
LEMMA MaxIn ==
    ASSUME NEW S, IsFiniteSet(S), S \subseteq Nat, S # {}
    PROVE  Max(S) \in S /\ \A x \in S : x <= Max(S)
<1> DEFINE G == {s \in SUBSET S : s # {} => \E m \in s : \A x \in s : x <= m}
<1>1. SUBSET S \subseteq G
  <2>1. {} \in G
    OBVIOUS
  <2>2. ASSUME NEW s \in SUBSET S, NEW x \in S \ s, s \in G PROVE s \cup {x} \in G
    <3>1. CASE s = {}
      <4>1. \A y \in s \cup {x} : y <= x
        BY <3>1
      <4> QED
        BY <4>1
    <3>2. CASE s # {}
      <4>1. PICK m \in s : \A y \in s : y <= m
        BY <2>2, <3>2
      <4>2. CASE x <= m
        <5>1. \A y \in s \cup {x} : y <= m
          BY <4>1, <4>2
        <5> QED
          BY <5>1
      <4>3. CASE ~(x <= m)
        <5>1. \A y \in s \cup {x} : y \in Nat /\ m \in Nat
          BY <4>1
        <5>2. \A y \in s \cup {x} : y <= x
          BY <4>1, <4>3, <5>1
        <5> QED
          BY <5>2
      <4> QED
        BY <4>2, <4>3
    <3> QED
      BY <3>1, <3>2
  <2> HIDE DEF G
  <2> QED
    BY <2>1, <2>2, GrowingParts
<1>2. \E m \in S : \A x \in S : x <= m
  BY <1>1
<1>3. \E m \in S : \A x \in S : m >= x
  BY <1>2
<1>4. Max(S) \in S /\ \A x \in S : Max(S) >= x
  BY <1>3 DEF Max
<1> QED
  BY <1>4

-----------------------------------------------------------------------------
(* What a merge makes of a graph *)

\* The values the maps of a graph hold at time t.
NodeAt(t) == [name : Ids \cup {NoName}, ips : Seq(Addrs), macs : SUBSET Macs,
              packets : Nat, seen : 0 .. t, group : BOOLEAN]
EdgeAt(t) == [fwd : Nat, rev : Nat, seen : 0 .. t]
Typed(gr, t) ==
  /\ IsMap(gr.nodes, Ids, NodeAt(t))
  /\ IsMap(gr.edges, EdgeIds, EdgeAt(t))
  /\ IsMap(gr.ipTo, Addrs, Ids) /\ IsMap(gr.nameTo, Ids, Ids) /\ IsMap(gr.macTo, Macs, Ids)
  /\ gr.shared \subseteq Macs

\* N is, node by node, what a merge of old into new makes of nodes.
NodesFolded(nodes, N, new, old, name, t) ==
  /\ DOMAIN N = (DOMAIN nodes \cup {new}) \ {old}
  /\ \A n \in DOMAIN nodes \ {new, old} : N[n] = nodes[n]
  /\ N[new] \in NodeAt(t)
  /\ IF new \in DOMAIN nodes
     THEN /\ N[new].name = nodes[new].name /\ N[new].seen = nodes[new].seen
          /\ N[new].group = nodes[new].group
          /\ Elements(N[new].ips) = Elements(nodes[new].ips) \cup Elements(nodes[old].ips)
     ELSE N[new] = [nodes[old] EXCEPT !.name = name]

\* MergedNodes does that.
LEMMA NodesFold ==
  ASSUME NEW nodes, NEW t, IsMap(nodes, Ids, NodeAt(t)), NEW old \in DOMAIN nodes,
         NEW new, new # old, NEW name \in Ids \cup {NoName}
  PROVE  NodesFolded(nodes, MergedNodes(nodes, new, old, name), new, old, name, t)
<1> DEFINE K == MergedNode(nodes, new, old, name)
           N == MergedNodes(nodes, new, old, name)
<1>1. nodes[old] \in NodeAt(t) /\ (new \in DOMAIN nodes => nodes[new] \in NodeAt(t))
  BY DEF IsMap
<1>2. DOMAIN N = (DOMAIN nodes \cup {new}) \ {old} /\ N[new] = K
      /\ \A n \in DOMAIN nodes \ {new, old} : N[n] = nodes[n]
  BY DEF MergedNodes, Without, Put
<1>3. CASE new \in DOMAIN nodes
  <2> DEFINE a == nodes[new]
             b == nodes[old]
             ips == Extended(a.ips, b.ips)
  <2>1. K = [a EXCEPT !.packets = a.packets + b.packets, !.ips = ips, !.macs = a.macs \cup b.macs]
    BY <1>3 DEF MergedNode
  <2>2. a \in NodeAt(t) /\ b \in NodeAt(t)
    BY <1>1, <1>3
  <2>3. a.ips \in Seq(Addrs) /\ b.ips \in Seq(Addrs) /\ a.packets \in Nat /\ b.packets \in Nat
        /\ a.macs \subseteq Macs /\ b.macs \subseteq Macs
    BY <2>2 DEF NodeAt
  <2>4. ips \in Seq(Addrs) /\ Elements(ips) = Elements(a.ips) \cup Elements(b.ips)
    BY <2>3, ExtendedIs
  <2>5. a.packets + b.packets \in Nat /\ a.macs \cup b.macs \in SUBSET Macs
    BY <2>3
  <2> HIDE DEF K, ips
  <2>6. /\ K \in NodeAt(t) /\ K.ips = ips /\ K.name = a.name /\ K.seen = a.seen /\ K.group = a.group
    <3> HIDE DEF a, b
    <3> QED BY <2>1, <2>2, <2>4, <2>5 DEF NodeAt
  <2> HIDE DEF N
  <2>7. NodesFolded(nodes, N, new, old, name, t)
    BY <1>2, <1>3, <2>4, <2>6 DEF NodesFolded
  <2> QED BY <2>7 DEF N
<1>4. CASE new \notin DOMAIN nodes
  <2>1. K = [nodes[old] EXCEPT !.name = name]
    BY <1>4 DEF MergedNode
  <2> HIDE DEF K, N
  <2>2. K \in NodeAt(t)
    BY <1>1, <2>1 DEF NodeAt
  <2>3. NodesFolded(nodes, N, new, old, name, t)
    BY <1>2, <1>4, <2>1, <2>2 DEF NodesFolded
  <2> QED BY <2>3 DEF N
<1> QED BY <1>3, <1>4

\* Each edge of E was last seen when one of those that a merge makes it of was.
EdgesFolded(edges, E, new, old, t) ==
  /\ IsMap(E, EdgeIds, EdgeAt(t))
  /\ \A e \in DOMAIN E : \E s \in DOMAIN edges :
       e = Rekeyed(s, old, new) /\ E[e].seen = edges[s].seen

\* Each edge after a merge was last seen when one of those that became it was.
LEMMA EdgesFold ==
  ASSUME NEW gr, NEW t, Shape(gr), Counted(gr), IsMap(gr.edges, EdgeIds, EdgeAt(t)),
         NEW new \in Ids, NEW old, new # old, NEW name
  PROVE  EdgesFolded(gr.edges, MergeNodeInto(gr, new, old, name).edges, new, old, t)
<1> DEFINE M == MergeNodeInto(gr, new, old, name)
           S(e) == Sources(gr.edges, e, new, old)
           D == Merging(gr, new, old)
<1>1. M.edges = [e \in D |-> MergedEdge(gr.edges, S(e))]
  BY DEF MergeNodeInto, Shape, Fields, Moved, Landed, Merging, LoopsOf
<1>2. CountedEdges(gr.edges) /\ CountedEdges(M.edges)
  BY MergedEdgesCount DEF Counted
<1>3. EachIntoOne(gr, new, old)
  BY <1>2, SourcesAre
<1>4. \A s : old \notin s => Rekeyed(s, old, new) = s
  BY DEF Rekeyed
<1>5. \A s \in DOMAIN gr.edges : gr.edges[s].seen \in 0 .. t
  BY DEF IsMap, EdgeAt
<1> HIDE DEF M
<1>6. ASSUME NEW e \in D
      PROVE  \E s \in DOMAIN gr.edges :
               e = Rekeyed(s, old, new) /\ M.edges[e].seen = gr.edges[s].seen
  <2>1. \A s : s \in S(e) <=> s \in DOMAIN gr.edges \ LoopsOf(gr, new, old) /\ Rekeyed(s, old, new) = e
    BY <1>3 DEF EachIntoOne
  <2>2. S(e) # {}
    <3>1. CASE e \in DOMAIN gr.edges \ Moved(gr, old)
      <4>1. old \notin e /\ e \notin LoopsOf(gr, new, old)
        BY <3>1 DEF Moved, LoopsOf
      <4> HIDE DEF D, S
      <4> QED BY <1>4, <2>1, <3>1, <4>1
    <3>2. CASE e \in Landed(gr, new, old)
      <4>1. PICK s \in Moved(gr, old) \ LoopsOf(gr, new, old) : e = Rekeyed(s, old, new)
        BY <3>2 DEF Landed, LoopsOf
      <4>2. s \in DOMAIN gr.edges
        BY DEF Moved
      <4> HIDE DEF D, S
      <4> QED BY <2>1, <4>1, <4>2
    <3> QED BY <1>6, <3>1, <3>2 DEF Merging
  <2> DEFINE seen == {gr.edges[s].seen : s \in S(e)}
  <2>3. IsFiniteSet(S(e)) /\ S(e) \subseteq DOMAIN gr.edges
    <3>1. S(e) \subseteq DOMAIN gr.edges
      BY <2>1
    <3>2. IsFiniteSet(DOMAIN gr.edges)
      BY <1>2 DEF CountedEdges
    <3> HIDE DEF S
    <3> QED BY <3>1, <3>2, FS_Subset
  <2> HIDE DEF S
  <2>4. IsFiniteSet(seen)
    <3> DEFINE f == [s \in S(e) |-> gr.edges[s].seen]
    <3>1. f \in Surjection(S(e), seen)
      BY DEF Surjection
    <3> QED BY <2>3, <3>1, FS_Surjection
  <2>5. seen \subseteq Nat /\ seen # {}
    BY <1>5, <2>2, <2>3
  <2>6. Max(seen) \in seen
    BY <2>4, <2>5, MaxIn
  <2>7. M.edges[e].seen = Max(seen)
    BY <1>1, <1>6 DEF MergedEdge
  <2> HIDE DEF D
  <2>8. PICK s \in S(e) : Max(seen) = gr.edges[s].seen
    BY <2>6
  <2> QED BY <2>1, <2>3, <2>7, <2>8
<1>7. DOMAIN M.edges = D
  BY <1>1
<1>8. ASSUME NEW e \in D PROVE e \in EdgeIds /\ M.edges[e] \in EdgeAt(t)
  <2>1. PICK s \in DOMAIN gr.edges : e = Rekeyed(s, old, new) /\ M.edges[e].seen = gr.edges[s].seen
    BY <1>6
  <2>2. PICK a \in Ids, b \in Ids : s = {a, b}
    BY DEF IsMap, EdgeIds
  <2>3. e = {IF a = old THEN new ELSE a, IF b = old THEN new ELSE b}
    BY <2>1, <2>2 DEF Rekeyed
  <2>4. e \in EdgeIds
    BY <2>3 DEF EdgeIds
  <2>5. M.edges[e].fwd \in Nat /\ M.edges[e].rev \in Nat
    BY <1>2, <1>7 DEF CountedEdges
  <2>6. M.edges[e].seen \in 0 .. t
    BY <1>5, <2>1
  <2> DEFINE f == MapThenSumSet(LAMBDA x : gr.edges[x].fwd, S(e))
             r == MapThenSumSet(LAMBDA x : gr.edges[x].rev, S(e))
             m == Max({gr.edges[x].seen : x \in S(e)})
  <2>7. M.edges[e] = [fwd |-> f, rev |-> r, seen |-> m]
    BY <1>1, <1>8 DEF MergedEdge
  <2> HIDE DEF f, r, m, S
  <2>8. M.edges[e] \in EdgeAt(t)
    BY <2>5, <2>6, <2>7 DEF EdgeAt
  <2> QED BY <2>4, <2>8
<1> HIDE DEF D
<1>9. IsMap(M.edges, EdgeIds, EdgeAt(t))
  BY <1>7, <1>8 DEF IsMap
<1> QED BY <1>6, <1>7, <1>9 DEF M, EdgesFolded

\* M is, field by field, what a merge of old into new makes of gr.
GraphFolded(gr, M, new, old, name, t) ==
  /\ IF old \in DOMAIN gr.nodes
     THEN NodesFolded(gr.nodes, M.nodes, new, old, name, t)
     ELSE M.nodes = gr.nodes
  /\ EdgesFolded(gr.edges, M.edges, new, old, t)
  /\ M.ipTo = Repointed(gr.ipTo, old, new)
  /\ M.macTo = Repointed(gr.macTo, old, new)
  /\ M.nameTo = gr.nameTo /\ M.shared = gr.shared

\* MergeNodeInto does that.
LEMMA GraphFolds ==
  ASSUME NEW gr, NEW t, Shape(gr), Counted(gr), Typed(gr, t),
         NEW new \in Ids, NEW old, new # old, NEW name \in Ids \cup {NoName}
  PROVE  GraphFolded(gr, MergeNodeInto(gr, new, old, name), new, old, name, t)
<1> DEFINE M == MergeNodeInto(gr, new, old, name)
<1>1. /\ M.nodes = MergedNodes(gr.nodes, new, old, name)
      /\ M.ipTo = Repointed(gr.ipTo, old, new) /\ M.macTo = Repointed(gr.macTo, old, new)
      /\ M.nameTo = gr.nameTo /\ M.shared = gr.shared
  <2>1. FieldsMerged(gr, M, new, old, name)
    BY MergeFields
  <2>2. M.ipTo = Repointed(gr.ipTo, old, new)
    BY DEF MergeNodeInto, Shape, Fields
  <2>3. M.nameTo = gr.nameTo
    BY DEF MergeNodeInto, Shape, Fields
  <2> QED BY <2>1, <2>2, <2>3 DEF FieldsMerged
<1>2. EdgesFolded(gr.edges, M.edges, new, old, t)
  <2>1. IsMap(gr.edges, EdgeIds, EdgeAt(t))
    BY DEF Typed
  <2> QED BY <2>1, EdgesFold
<1> HIDE DEF M
<1>3. CASE old \in DOMAIN gr.nodes
  <2>1. NodesFolded(gr.nodes, M.nodes, new, old, name, t)
    BY <1>1, <1>3, NodesFold DEF Typed
  <2> QED BY <1>1, <1>2, <1>3, <2>1 DEF GraphFolded, M
<1>4. CASE old \notin DOMAIN gr.nodes
  <2>1. M.nodes = gr.nodes
    BY <1>1, <1>4 DEF MergedNodes
  <2> QED BY <1>1, <1>2, <1>4, <2>1 DEF GraphFolded, M
<1> QED BY <1>3, <1>4

-----------------------------------------------------------------------------
(* Whose an address is, whatever the endpoints *)

\* Every value has its type, and an address in a node's list leads to that node.
Listed(gr) ==
  \A n \in DOMAIN gr.nodes : \A a \in Elements(gr.nodes[n].ips) :
    a \in DOMAIN gr.ipTo /\ gr.ipTo[a] = n
Sound(gr, t) == Typed(gr, t) /\ Listed(gr)

\* Every node of gr has become a node of R, alone or with others: its addresses lead to it
\* and its MACs, all of which it carries, anchor it or are gateways'.
Follows(gr, R) ==
  /\ gr.shared \subseteq R.shared
  /\ \A n \in DOMAIN gr.nodes : \E k \in DOMAIN R.nodes :
       /\ gr.nodes[n].macs \subseteq R.nodes[k].macs
       /\ \A a \in DOMAIN gr.ipTo : gr.ipTo[a] = n => (a \in DOMAIN R.ipTo /\ R.ipTo[a] = k)
       /\ \A m \in DOMAIN gr.macTo :
            gr.macTo[m] = n => (m \in R.shared \/ (m \in DOMAIN R.macTo /\ R.macTo[m] = k))

\* One change after another.
LEMMA FollowsChain ==
  ASSUME NEW a, NEW b, NEW c, Follows(a, b), Follows(b, c)
  PROVE  Follows(a, c)
<1> SUFFICES ASSUME NEW n \in DOMAIN a.nodes
             PROVE  \E k \in DOMAIN c.nodes :
                      /\ a.nodes[n].macs \subseteq c.nodes[k].macs
                      /\ \A x \in DOMAIN a.ipTo : a.ipTo[x] = n => (x \in DOMAIN c.ipTo /\ c.ipTo[x] = k)
                      /\ \A m \in DOMAIN a.macTo :
                           a.macTo[m] = n => (m \in c.shared \/ (m \in DOMAIN c.macTo /\ c.macTo[m] = k))
  BY DEF Follows
<1>1. PICK j \in DOMAIN b.nodes :
        /\ a.nodes[n].macs \subseteq b.nodes[j].macs
        /\ \A x \in DOMAIN a.ipTo : a.ipTo[x] = n => (x \in DOMAIN b.ipTo /\ b.ipTo[x] = j)
        /\ \A m \in DOMAIN a.macTo :
             a.macTo[m] = n => (m \in b.shared \/ (m \in DOMAIN b.macTo /\ b.macTo[m] = j))
  BY DEF Follows
<1>2. PICK k \in DOMAIN c.nodes :
        /\ b.nodes[j].macs \subseteq c.nodes[k].macs
        /\ \A x \in DOMAIN b.ipTo : b.ipTo[x] = j => (x \in DOMAIN c.ipTo /\ c.ipTo[x] = k)
        /\ \A m \in DOMAIN b.macTo :
             b.macTo[m] = j => (m \in c.shared \/ (m \in DOMAIN c.macTo /\ c.macTo[m] = k))
  BY DEF Follows
<1>3. b.shared \subseteq c.shared
  BY DEF Follows
<1> QED BY <1>1, <1>2, <1>3

\* Belongs, of any graph.
On(gr, a, m) ==
  /\ a \in DOMAIN gr.ipTo /\ gr.ipTo[a] \in DOMAIN gr.nodes
  /\ m \in Macs => /\ m \in gr.nodes[gr.ipTo[a]].macs
                   /\ m \in gr.shared \/ (m \in DOMAIN gr.macTo /\ gr.macTo[m] = gr.ipTo[a])

\* An address stays with its MAC.
LEMMA OnStays ==
  ASSUME NEW gr, NEW R, Follows(gr, R), NEW a, NEW m, On(gr, a, m)
  PROVE  On(R, a, m)
<1>1. PICK k \in DOMAIN R.nodes :
        /\ gr.nodes[gr.ipTo[a]].macs \subseteq R.nodes[k].macs
        /\ \A x \in DOMAIN gr.ipTo : gr.ipTo[x] = gr.ipTo[a] => (x \in DOMAIN R.ipTo /\ R.ipTo[x] = k)
        /\ \A x \in DOMAIN gr.macTo :
             gr.macTo[x] = gr.ipTo[a] => (x \in R.shared \/ (x \in DOMAIN R.macTo /\ R.macTo[x] = k))
  BY DEF Follows, On
<1> QED BY <1>1 DEF Follows, On

\* A merge.
LEMMA MergeSound ==
  ASSUME NEW gr, NEW t, Shape(gr), Counted(gr), Sound(gr, t),
         NEW new \in Ids, NEW old, new # old, NEW name \in Ids \cup {NoName}
  PROVE  LET M == MergeNodeInto(gr, new, old, name)
         IN  /\ Shape(M) /\ Counted(M) /\ Sound(M, t) /\ Follows(gr, M)
             /\ GraphFolded(gr, M, new, old, name, t)
             /\ NodesMerged(gr.nodes, M.nodes, new, old)
<1> DEFINE M == MergeNodeInto(gr, new, old, name)
           N == M.nodes
           P == gr.nodes
<1>1. GraphFolded(gr, M, new, old, name, t)
  BY GraphFolds DEF Sound
<1>2. NodesMerged(P, N, new, old)
  <2>1. FieldsMerged(gr, M, new, old, name)
    BY MergeFields
  <2>2. N = MergedNodes(P, new, old, name)
    BY <2>1 DEF FieldsMerged
  <2> QED BY <2>2, MergeNodes
<1>3. Shape(M) /\ Counted(M)
  BY MergeShape, MergeCounts DEF Counts
<1> HIDE DEF M
<1>4. /\ DOMAIN M.ipTo = DOMAIN gr.ipTo /\ DOMAIN M.macTo = DOMAIN gr.macTo
      /\ \A a \in DOMAIN gr.ipTo : M.ipTo[a] = IF gr.ipTo[a] = old THEN new ELSE gr.ipTo[a]
      /\ \A m \in DOMAIN gr.macTo : M.macTo[m] = IF gr.macTo[m] = old THEN new ELSE gr.macTo[m]
      /\ M.nameTo = gr.nameTo /\ M.shared = gr.shared
  BY <1>1 DEF GraphFolded, Repointed
<1>5. Typed(M, t)
  <2>1. IsMap(N, Ids, NodeAt(t))
    <3>1. IsMap(P, Ids, NodeAt(t))
      BY DEF Sound, Typed
    <3>2. CASE old \notin DOMAIN P
      BY <1>1, <3>1, <3>2 DEF GraphFolded
    <3>3. CASE old \in DOMAIN P
      <4>1. NodesFolded(P, N, new, old, name, t)
        BY <1>1, <3>3 DEF GraphFolded
      <4> HIDE DEF N, P
      <4> QED BY <3>1, <4>1 DEF NodesFolded, IsMap
    <3> QED BY <3>2, <3>3
  <2>2. IsMap(M.edges, EdgeIds, EdgeAt(t))
    BY <1>1 DEF GraphFolded, EdgesFolded
  <2> QED BY <1>4, <2>1, <2>2 DEF Sound, Typed, IsMap
<1>6. Listed(M)
  <2> SUFFICES ASSUME NEW n \in DOMAIN N, NEW a \in Elements(N[n].ips)
               PROVE  a \in DOMAIN M.ipTo /\ M.ipTo[a] = n
    BY DEF Listed
  <2>1. \A k \in DOMAIN P : \A x \in Elements(P[k].ips) : x \in DOMAIN gr.ipTo /\ gr.ipTo[x] = k
    BY DEF Sound, Listed
  <2>2. CASE n # new
    <3>1. n \in DOMAIN P /\ N[n] = P[n] /\ n # old
      BY <1>2, <2>2 DEF NodesMerged
    <3> QED BY <1>4, <2>1, <3>1
  <2>3. CASE n = new
    <3>1. CASE old \notin DOMAIN P
      <4>1. new \in DOMAIN P /\ N = P
        BY <1>2, <2>3, <3>1 DEF NodesMerged
      <4> QED BY <1>4, <2>1, <2>3, <4>1
    <3>2. CASE old \in DOMAIN P /\ new \in DOMAIN P
      <4>1. Elements(N[new].ips) = Elements(P[new].ips) \cup Elements(P[old].ips)
        BY <1>1, <3>2 DEF GraphFolded, NodesFolded
      <4> QED BY <1>4, <2>1, <2>3, <3>2, <4>1
    <3>3. CASE old \in DOMAIN P /\ new \notin DOMAIN P
      <4>1. P[old] \in NodeAt(t)
        BY <3>3 DEF Sound, Typed, IsMap
      <4>2. N[new] = [P[old] EXCEPT !.name = name]
        BY <1>1, <3>3 DEF GraphFolded, NodesFolded
      <4>3. N[new].ips = P[old].ips
        BY <4>1, <4>2 DEF NodeAt
      <4> QED BY <1>4, <2>1, <2>3, <3>3, <4>3
    <3> QED BY <3>1, <3>2, <3>3
  <2> QED BY <2>2, <2>3
<1>7. Follows(gr, M)
  <2> SUFFICES ASSUME NEW n \in DOMAIN P
               PROVE  \E k \in DOMAIN N :
                        /\ P[n].macs \subseteq N[k].macs
                        /\ \A a \in DOMAIN gr.ipTo : gr.ipTo[a] = n => (a \in DOMAIN M.ipTo /\ M.ipTo[a] = k)
                        /\ \A m \in DOMAIN gr.macTo :
                             gr.macTo[m] = n => (m \in M.shared \/ (m \in DOMAIN M.macTo /\ M.macTo[m] = k))
    BY <1>4 DEF Follows
  <2> DEFINE k == IF n = old THEN new ELSE n
  <2>1. k \in DOMAIN N /\ P[n].macs \subseteq N[k].macs
    BY <1>2 DEF NodesMerged
  <2> QED BY <1>4, <2>1
<1> QED BY <1>1, <1>2, <1>3, <1>5, <1>6, <1>7 DEF Sound, M

\* R has the nodes and addresses of gr: it differs in names, MACs and what they anchor.
Alike(gr, R, t) ==
  /\ DOMAIN R.nodes = DOMAIN gr.nodes
  /\ \A n \in DOMAIN gr.nodes :
       /\ R.nodes[n] \in NodeAt(t)
       /\ R.nodes[n].ips = gr.nodes[n].ips /\ gr.nodes[n].macs \subseteq R.nodes[n].macs
  /\ R.edges = gr.edges /\ R.ipTo = gr.ipTo
  /\ gr.shared \subseteq R.shared /\ R.shared \subseteq Macs
  /\ IsMap(R.nameTo, Ids, Ids) /\ IsMap(R.macTo, Macs, Ids)
  /\ \A m \in DOMAIN gr.macTo : m \in R.shared \/ (m \in DOMAIN R.macTo /\ R.macTo[m] = gr.macTo[m])

\* Then it follows gr.
LEMMA AlikeSound ==
  ASSUME NEW gr, NEW R, NEW t, Sound(gr, t), Alike(gr, R, t)
  PROVE  Sound(R, t) /\ Follows(gr, R)
<1>1. Typed(R, t)
  BY DEF Sound, Typed, Alike, IsMap
<1>2. Listed(R)
  BY DEF Sound, Listed, Alike
<1>3. Follows(gr, R)
  BY DEF Follows, Alike
<1> QED BY <1>1, <1>2, <1>3 DEF Sound

\* The address ip lands on the node v with the id `id'.
Lands(gr, R, ip, id, v) ==
  /\ R.nodes = Put(gr.nodes, id, v) /\ R.ipTo = Put(gr.ipTo, ip, id)
  /\ R.edges = gr.edges /\ R.macTo = gr.macTo /\ R.nameTo = gr.nameTo /\ R.shared = gr.shared

\* An address that lands on a node that lists it, or is there.
LEMMA LandedSound ==
  ASSUME NEW gr, NEW R, NEW t, NEW ip \in Addrs, NEW id \in Ids, NEW v \in NodeAt(t),
         Sound(gr, t), ip \in DOMAIN gr.ipTo => gr.ipTo[ip] = id, Lands(gr, R, ip, id, v),
         IF id \in DOMAIN gr.nodes
         THEN v.ips = gr.nodes[id].ips /\ gr.nodes[id].macs \subseteq v.macs
         ELSE v.ips = <<ip>>
  PROVE  Sound(R, t) /\ Follows(gr, R) /\ ip \in DOMAIN R.ipTo /\ R.ipTo[ip] \in DOMAIN R.nodes
<1> DEFINE N == R.nodes
           P == gr.nodes
<1>1. /\ DOMAIN N = DOMAIN P \cup {id} /\ N[id] = v
      /\ \A n \in DOMAIN P : n # id => N[n] = P[n]
      /\ DOMAIN R.ipTo = DOMAIN gr.ipTo \cup {ip} /\ R.ipTo[ip] = id
      /\ \A a \in DOMAIN gr.ipTo : R.ipTo[a] = gr.ipTo[a]
      /\ R.edges = gr.edges /\ R.macTo = gr.macTo /\ R.nameTo = gr.nameTo /\ R.shared = gr.shared
  BY DEF Lands, Put
<1>2. Typed(R, t)
  BY <1>1 DEF Sound, Typed, IsMap
<1>3. Listed(R)
  <2> SUFFICES ASSUME NEW n \in DOMAIN N, NEW a \in Elements(N[n].ips)
               PROVE  a \in DOMAIN R.ipTo /\ R.ipTo[a] = n
    BY DEF Listed
  <2>1. \A k \in DOMAIN P : \A x \in Elements(P[k].ips) : x \in DOMAIN gr.ipTo /\ gr.ipTo[x] = k
    BY DEF Sound, Listed
  <2>2. CASE n \in DOMAIN P
    <3>1. N[n].ips = P[n].ips
      BY <1>1, <2>2
    <3> QED BY <1>1, <2>1, <2>2, <3>1
  <2>3. CASE n \notin DOMAIN P
    <3>1. n = id /\ N[n].ips = <<ip>>
      BY <1>1, <2>3
    <3>2. a = ip
      BY <3>1 DEF Elements
    <3> QED BY <1>1, <3>1, <3>2
  <2> QED BY <2>2, <2>3
<1>4. Follows(gr, R)
  <2>1. \A n \in DOMAIN P : n \in DOMAIN N /\ P[n].macs \subseteq N[n].macs
    BY <1>1
  <2> QED BY <1>1, <2>1 DEF Follows
<1> QED BY <1>1, <1>2, <1>3, <1>4 DEF Sound

\* One endpoint of a packet.
LEMMA AddOrUpdateNodeSound ==
  ASSUME NEW gr, NEW ip \in Addrs, NEW given \in Names \cup Addrs \cup {NoName}, NEW t \in Nat,
         GraphInv(gr), Counted(gr), Sound(gr, t)
  PROVE  LET R == AddOrUpdateNode(gr, ip, given, t)
         IN  Sound(R, t) /\ Follows(gr, R) /\ ip \in DOMAIN R.ipTo /\ R.ipTo[ip] \in DOMAIN R.nodes
<1> DEFINE name    == IF ip \in Groups THEN GroupLabel[ip] ELSE given
           useName == UseName(ip, name)
           id      == NodeIDOf(gr, ip, name)
           named   == Named(gr, ip, name)
           joined  == Joined(gr, ip, name)
           fresh   == [name |-> name, ips |-> <<ip>>, macs |-> {}, packets |-> 1,
                       seen |-> t, group |-> ip \in Groups]
           updated == [joined.nodes[id] EXCEPT
                         !.packets = @ + 1,
                         !.seen    = t,
                         !.name    = IF useName /\ @ = id THEN name ELSE @,
                         !.group   = @ \/ ip \in Groups]
           node    == IF id \in DOMAIN joined.nodes THEN updated ELSE fresh
           result  == AddOrUpdateNode(gr, ip, given, t)
<1>1. result = [joined EXCEPT
                  !.ipTo  = Put(@, ip, id),
                  !.nodes = Put(@, id, IF id \in DOMAIN @ THEN updated ELSE fresh)]
  BY DEF AddOrUpdateNode
<1>2. name \in Ids \cup {NoName} /\ (useName => name \in Ids)
  BY DEF Ids, Labels, UseName
<1>3. id \in Ids
  <2>1. CASE useName
    <3>1. id = Resolve(gr.nameTo, name)
      BY <2>1 DEF NodeIDOf
    <3> HIDE DEF id, name
    <3> QED BY <1>2, <2>1, <3>1 DEF Resolve, Sound, Typed, IsMap
  <2>2. CASE ~useName
    BY <2>2 DEF NodeIDOf, Ids
  <2> QED BY <2>1, <2>2
<1>4. /\ named.nodes = gr.nodes /\ named.edges = gr.edges /\ named.ipTo = gr.ipTo
      /\ named.macTo = gr.macTo /\ named.shared = gr.shared /\ named.folded = gr.folded
      /\ DOMAIN named = Fields
      /\ named.nameTo = IF useName THEN Put(gr.nameTo, name, id) ELSE gr.nameTo
  <2>1. DOMAIN gr = Fields
    BY DEF GraphInv, Shape
  <2>2. named = IF useName THEN [gr EXCEPT !.nameTo = Put(@, name, id)] ELSE gr
    BY DEF Named
  <2> HIDE DEF named, useName, name, id
  <2> QED BY <2>1, <2>2 DEF Fields
<1> HIDE DEF named
<1>5. Shape(named) /\ Counted(named) /\ Sound(named, t) /\ Follows(gr, named)
  <2>1. Shape(named) /\ Counted(named)
    BY <1>4 DEF GraphInv, Shape, Counted
  <2> HIDE DEF useName, name, id
  <2>2. IsMap(named.nameTo, Ids, Ids)
    BY <1>2, <1>3, <1>4 DEF Sound, Typed, IsMap, Put
  <2>3. Alike(gr, named, t)
    BY <1>4, <2>2 DEF Alike, Sound, Typed, IsMap
  <2> QED BY <2>1, <2>3, AlikeSound
<1>6. /\ Shape(joined) /\ Sound(joined, t) /\ Follows(gr, joined)
      /\ ip \in DOMAIN joined.ipTo => joined.ipTo[ip] = id
  <2> HIDE DEF name
  <2>1. CASE Resolve(gr.ipTo, ip) # id /\ ip \in DOMAIN gr.ipTo
    <3> DEFINE old == gr.ipTo[ip]
    <3>1. old # id
      BY <2>1 DEF Resolve
    <3>2. joined = MergeNodeInto(named, id, old, name)
      BY <2>1 DEF Joined, named
    <3> HIDE DEF joined, id, old
    <3>3. /\ Shape(joined) /\ Sound(joined, t) /\ Follows(named, joined)
          /\ GraphFolded(named, joined, id, old, name, t)
      BY <1>2, <1>3, <1>5, <3>1, <3>2, MergeSound
    <3>4. joined.ipTo[ip] = id
      BY <1>4, <2>1, <3>3 DEF GraphFolded, Repointed, old
    <3> QED BY <1>5, <3>3, <3>4, FollowsChain
  <2>2. CASE ~(Resolve(gr.ipTo, ip) # id /\ ip \in DOMAIN gr.ipTo)
    <3>1. joined = named
      BY <2>2 DEF Joined, named
    <3>2. ip \in DOMAIN gr.ipTo => gr.ipTo[ip] = id
      BY <2>2 DEF Resolve
    <3> HIDE DEF joined, id
    <3> QED BY <1>4, <1>5, <3>1, <3>2
  <2> QED BY <2>1, <2>2
<1>7. Lands(joined, result, ip, id, node)
  <2> HIDE DEF joined, id, updated, fresh, result
  <2>1. DOMAIN joined = Fields
    BY <1>6 DEF Shape
  <2> QED BY <1>1, <2>1 DEF Fields, Lands
<1>8. /\ node \in NodeAt(t)
      /\ IF id \in DOMAIN joined.nodes
         THEN node.ips = joined.nodes[id].ips /\ joined.nodes[id].macs \subseteq node.macs
         ELSE node.ips = <<ip>>
  <2>1. CASE id \in DOMAIN joined.nodes
    <3> DEFINE was == joined.nodes[id]
               called == IF useName /\ was.name = id THEN name ELSE was.name
    <3>1. was \in NodeAt(t)
      BY <1>6, <2>1 DEF Sound, Typed, IsMap
    <3>2. node = [was EXCEPT !.packets = was.packets + 1, !.seen = t, !.name = called,
                             !.group = was.group \/ ip \in Groups]
      BY <2>1
    <3>3. was.packets + 1 \in Nat /\ t \in 0 .. t /\ (was.group \/ ip \in Groups) \in BOOLEAN
      BY <3>1 DEF NodeAt
    <3>4. called \in Ids \cup {NoName}
      <4> HIDE DEF joined, id, useName, name, was
      <4> QED BY <1>2, <3>1 DEF NodeAt
    <3> HIDE DEF joined, id, useName, name, was, node, called
    <3>5. node \in NodeAt(t) /\ node.ips = was.ips /\ node.macs = was.macs
      BY <3>1, <3>2, <3>3, <3>4 DEF NodeAt
    <3> QED BY <2>1, <3>5 DEF was
  <2>2. CASE id \notin DOMAIN joined.nodes
    <3>1. node = fresh
      BY <2>2
    <3>2. <<ip>> \in Seq(Addrs) /\ t \in 0 .. t
      OBVIOUS
    <3> HIDE DEF joined, id, name, node
    <3>3. fresh \in NodeAt(t)
      BY <1>2, <3>2 DEF NodeAt
    <3> QED BY <2>2, <3>1, <3>3
  <2> QED BY <2>1, <2>2
<1> HIDE DEF joined, id, name, node, result, useName
<1>9. Sound(result, t) /\ Follows(joined, result)
      /\ ip \in DOMAIN result.ipTo /\ result.ipTo[ip] \in DOMAIN result.nodes
  BY <1>3, <1>6, <1>7, <1>8, LandedSound
<1> QED BY <1>6, <1>9, FollowsChain DEF result

\* Re-keying a node to its MAC.
LEMMA PromoteSound ==
  ASSUME NEW gr, NEW t, NEW id \in DOMAIN gr.nodes, NEW mac \in Macs,
         Shape(gr), Counted(gr), Sound(gr, t), mac \in DOMAIN gr.macTo, gr.macTo[mac] = id
  PROVE  Sound(PromoteNodeIDToMAC(gr, id, mac), t) /\ Follows(gr, PromoteNodeIDToMAC(gr, id, mac))
<1> DEFINE own    == gr.nodes[id].name
           hosts  == HostAddrs(gr.nodes[id].ips)
           name   == IF own \notin {NoName, id} THEN own
                     ELSE IF hosts # <<>> THEN Head(hosts) ELSE id
           merged == MergeNodeInto(gr, mac, id, name)
           kept   == IF id \in DOMAIN gr.nameTo /\ gr.nameTo[id] = id
                     THEN Without(gr.nameTo, {id}) ELSE gr.nameTo
           result == [merged EXCEPT
                        !.nodes[mac].name = IF @ \in {NoName, mac} THEN name ELSE @,
                        !.macTo  = Put(@, mac, mac),
                        !.nameTo = IF name # mac THEN Put(kept, name, mac) ELSE kept]
           stays  == id = mac \/ mac \in gr.shared \/ gr.nodes[id].group \/ id \in Macs
<1>1. PromoteNodeIDToMAC(gr, id, mac) = IF stays THEN gr ELSE result
  BY DEF PromoteNodeIDToMAC
<1>2. CASE stays
  <2>1. Follows(gr, gr)
    BY DEF Follows
  <2> HIDE DEF stays, result
  <2> QED BY <1>1, <1>2, <2>1
<1>3. CASE ~stays
  <2>1. id # mac /\ id \in Ids /\ mac \in Ids
    BY <1>3 DEF Sound, Typed, IsMap, Ids
  <2>2. gr.nodes[id] \in NodeAt(t) /\ own \in Ids \cup {NoName} /\ gr.nodes[id].ips \in Seq(Addrs)
    BY DEF Sound, Typed, IsMap, NodeAt
  <2>3. hosts # <<>> => Head(hosts) \in Ids
    <3>1. Elements(gr.nodes[id].ips) \subseteq Addrs
      BY <2>2 DEF Elements
    <3> QED BY <2>2, <3>1, HostAddrsAre DEF Ids
  <2>4. name \in Ids
    <3> HIDE DEF own, hosts
    <3> QED BY <2>1, <2>2, <2>3
  <2> HIDE DEF name, merged
  <2>5. /\ Shape(merged) /\ Sound(merged, t) /\ Follows(gr, merged)
        /\ GraphFolded(gr, merged, mac, id, name, t) /\ NodesMerged(gr.nodes, merged.nodes, mac, id)
    BY <2>1, <2>4, MergeSound DEF merged
  <2>6. mac \in DOMAIN merged.nodes /\ mac \in DOMAIN merged.macTo /\ merged.macTo[mac] = mac
        /\ merged.nameTo = gr.nameTo
    BY <2>1, <2>5 DEF GraphFolded, NodesMerged, Repointed
  <2>7. DOMAIN merged = Fields /\ merged.nodes[mac] \in NodeAt(t)
    BY <2>5, <2>6 DEF Shape, Sound, Typed, IsMap
  <2> DEFINE was == merged.nodes[mac]
             node == [was EXCEPT !.name = IF @ \in {NoName, mac} THEN name ELSE @]
             named == IF name # mac THEN Put(kept, name, mac) ELSE kept
  <2>8. /\ result.nodes = [merged.nodes EXCEPT ![mac] = node]
        /\ result.edges = merged.edges /\ result.ipTo = merged.ipTo
        /\ result.shared = merged.shared
        /\ result.macTo = Put(merged.macTo, mac, mac)
        /\ result.nameTo = named
    <3> HIDE DEF kept
    <3> QED BY <2>7 DEF Fields
  <2>9. node \in NodeAt(t) /\ node.ips = was.ips /\ node.macs = was.macs
    <3>1. was \in NodeAt(t)
      BY <2>7
    <3> HIDE DEF was
    <3> QED BY <2>4, <3>1 DEF NodeAt
  <2>10. IsMap(named, Ids, Ids)
    <3>1. IsMap(kept, Ids, Ids)
      BY DEF Sound, Typed, Without, IsMap
    <3> HIDE DEF kept
    <3> QED BY <2>1, <2>4, <3>1 DEF Put, IsMap
  <2> HIDE DEF result, node, named, was
  <2>11. Alike(merged, result, t)
    <3>1. \A n \in DOMAIN merged.nodes :
            /\ result.nodes[n] \in NodeAt(t) /\ result.nodes[n].ips = merged.nodes[n].ips
            /\ merged.nodes[n].macs \subseteq result.nodes[n].macs
      <4> SUFFICES ASSUME NEW n \in DOMAIN merged.nodes
                   PROVE  /\ result.nodes[n] \in NodeAt(t) /\ result.nodes[n].ips = merged.nodes[n].ips
                          /\ merged.nodes[n].macs \subseteq result.nodes[n].macs
        OBVIOUS
      <4>1. CASE n = mac
        BY <2>6, <2>8, <2>9, <4>1 DEF was
      <4>2. CASE n # mac
        <5>1. result.nodes[n] = merged.nodes[n]
          BY <2>8, <4>2
        <5> QED BY <2>5, <5>1 DEF Sound, Typed, IsMap
      <4> QED BY <4>1, <4>2
    <3>2. DOMAIN result.nodes = DOMAIN merged.nodes
      BY <2>8
    <3>3. DOMAIN result.macTo = DOMAIN merged.macTo
          /\ \A m \in DOMAIN merged.macTo : result.macTo[m] = merged.macTo[m]
      BY <2>6, <2>8 DEF Put
    <3>4. merged.shared \subseteq Macs /\ IsMap(merged.macTo, Macs, Ids)
      BY <2>5 DEF Sound, Typed
    <3>5. IsMap(result.macTo, Macs, Ids)
      BY <3>3, <3>4 DEF IsMap
    <3> QED BY <2>8, <2>10, <3>1, <3>2, <3>3, <3>4, <3>5 DEF Alike
  <2>12. Sound(result, t) /\ Follows(gr, result)
    BY <2>5, <2>11, AlikeSound, FollowsChain
  <2> HIDE DEF stays
  <2> QED BY <1>1, <1>3, <2>12
<1> QED BY <1>2, <1>3

\* Re-keying a node from a gateway's MAC.
LEMMA DemoteSound ==
  ASSUME NEW gr, NEW t, NEW mac \in Macs, Shape(gr), Counted(gr), Sound(gr, t)
  PROVE  Sound(DemoteMACIdentity(gr, mac), t) /\ Follows(gr, DemoteMACIdentity(gr, mac))
<1> DEFINE hosts == HostAddrs(gr.nodes[mac].ips)
           new   == IF hosts = <<>> THEN mac ELSE Head(hosts)
           own   == gr.nodes[mac].name
           name  == IF own \in {NoName, mac} THEN new ELSE own
           merged == MergeNodeInto(gr, new, mac, name)
           result == [merged EXCEPT
                        !.nodes[new].name = IF @ \in {NoName, mac} THEN name ELSE @]
<1>1. DemoteMACIdentity(gr, mac) =
        IF mac \notin DOMAIN gr.nodes \/ new = mac THEN gr ELSE result
  BY DEF DemoteMACIdentity
<1>2. CASE mac \notin DOMAIN gr.nodes \/ new = mac
  <2>1. Follows(gr, gr)
    BY DEF Follows
  <2> HIDE DEF result, new
  <2> QED BY <1>1, <1>2, <2>1
<1>3. CASE mac \in DOMAIN gr.nodes /\ new # mac
  <2>1. gr.nodes[mac] \in NodeAt(t) /\ own \in Ids \cup {NoName} /\ gr.nodes[mac].ips \in Seq(Addrs)
    BY <1>3 DEF Sound, Typed, IsMap, NodeAt
  <2>2. new \in Ids
    <3>1. Elements(gr.nodes[mac].ips) \subseteq Addrs
      BY <2>1 DEF Elements
    <3> QED BY <2>1, <3>1, HostAddrsAre DEF Ids
  <2> HIDE DEF new
  <2>3. name \in Ids \cup {NoName}
    BY <2>1, <2>2
  <2> HIDE DEF name, merged
  <2>4. /\ Shape(merged) /\ Sound(merged, t) /\ Follows(gr, merged)
        /\ NodesMerged(gr.nodes, merged.nodes, new, mac)
    BY <1>3, <2>2, <2>3, MergeSound DEF merged
  <2>5. new \in DOMAIN merged.nodes
    BY <1>3, <2>4 DEF NodesMerged
  <2>6. DOMAIN merged = Fields /\ merged.nodes[new] \in NodeAt(t)
    BY <2>4, <2>5 DEF Shape, Sound, Typed, IsMap
  <2> DEFINE was == merged.nodes[new]
             node == [was EXCEPT !.name = IF @ \in {NoName, mac} THEN name ELSE @]
  <2>7. /\ result.nodes = [merged.nodes EXCEPT ![new] = node]
        /\ result.edges = merged.edges /\ result.ipTo = merged.ipTo
        /\ result.shared = merged.shared
        /\ result.macTo = merged.macTo /\ result.nameTo = merged.nameTo
    BY <2>6 DEF Fields
  <2>8. node \in NodeAt(t) /\ node.ips = was.ips /\ node.macs = was.macs
    <3>1. was \in NodeAt(t)
      BY <2>6
    <3> HIDE DEF was
    <3> QED BY <2>3, <3>1 DEF NodeAt
  <2> HIDE DEF result, node, was
  <2>9. Alike(merged, result, t)
    <3>1. ASSUME NEW n \in DOMAIN merged.nodes
          PROVE  /\ result.nodes[n] \in NodeAt(t) /\ result.nodes[n].ips = merged.nodes[n].ips
                 /\ merged.nodes[n].macs \subseteq result.nodes[n].macs
      <4>1. CASE n = new
        BY <2>5, <2>7, <2>8, <4>1 DEF was
      <4>2. CASE n # new
        <5>1. result.nodes[n] = merged.nodes[n]
          BY <2>7, <4>2
        <5> QED BY <2>4, <5>1 DEF Sound, Typed, IsMap
      <4> QED BY <4>1, <4>2
    <3>2. DOMAIN result.nodes = DOMAIN merged.nodes
      BY <2>7
    <3> QED BY <2>4, <2>7, <3>1, <3>2 DEF Alike, Sound, Typed
  <2>10. Sound(result, t) /\ Follows(gr, result)
    BY <2>4, <2>9, AlikeSound, FollowsChain
  <2> QED BY <1>1, <1>3, <2>10
<1> QED BY <1>2, <1>3

\* The MAC beside one end of a packet: every address of the end's node stays with it.
LEMMA RecordMACSound ==
  ASSUME NEW gr, NEW t, NEW id \in DOMAIN gr.nodes, NEW mac, GraphInv(gr), Counted(gr), Sound(gr, t)
  PROVE  LET R == RecordMAC(gr, id, mac, t)
         IN  /\ Sound(R, t) /\ Follows(gr, R)
             /\ \A a \in DOMAIN gr.ipTo : gr.ipTo[a] = id => On(R, a, mac)
<1> DEFINE noted  == [gr EXCEPT !.nodes[id].macs = @ \cup {mac}]
           anchor == gr.macTo[mac]
           Anchored(k) == PromoteNodeIDToMAC([k EXCEPT !.macTo = Put(@, mac, id)], id, mac)
           Free   == mac \in DOMAIN gr.macTo => anchor = id \/ anchor \notin DOMAIN gr.nodes
           gateway == [noted EXCEPT !.shared = @ \cup {mac}, !.macTo = Without(@, {mac})]
           moved   == MergeNodeInto(noted, id, anchor, gr.nodes[id].name)
           result == RecordMAC(gr, id, mac, t)
           Good(R) == /\ Sound(R, t) /\ Follows(gr, R)
                      /\ \A a \in DOMAIN gr.ipTo : gr.ipTo[a] = id => On(R, a, mac)
<1>1. result =
        IF mac \notin Macs THEN gr
        ELSE IF mac \in gr.shared THEN noted
        ELSE IF Free THEN Anchored(noted)
        ELSE IF t - gr.nodes[anchor].seen < MacWindow
             THEN DemoteMACIdentity(gateway, mac)
             ELSE Anchored(moved)
  BY DEF RecordMAC
<1>2. CASE mac \notin Macs
  <2>1. Good(gr)
    BY <1>2 DEF Follows, On
  <2> HIDE DEF result, noted, gateway, moved, Anchored, Free, anchor
  <2> QED BY <1>1, <1>2, <2>1 DEF result
<1>3. CASE mac \in Macs
  <2>1. DOMAIN gr = Fields /\ gr.nodes[id] \in NodeAt(t) /\ id \in Ids
        /\ \A n \in DOMAIN gr.nodes : DOMAIN gr.nodes[n] = NodeFields /\ gr.nodes[n] \in NodeAt(t)
    BY DEF GraphInv, Shape, Sound, Typed, IsMap
  <2>2. /\ DOMAIN noted = Fields
        /\ noted.edges = gr.edges /\ noted.ipTo = gr.ipTo /\ noted.nameTo = gr.nameTo
        /\ noted.shared = gr.shared /\ noted.macTo = gr.macTo /\ noted.folded = gr.folded
        /\ DOMAIN noted.nodes = DOMAIN gr.nodes
        /\ \A n \in DOMAIN gr.nodes : n # id => noted.nodes[n] = gr.nodes[n]
        /\ noted.nodes[id] = [gr.nodes[id] EXCEPT !.macs = @ \cup {mac}]
    BY <2>1 DEF Fields
  <2>3. gateway = [noted EXCEPT !.shared = @ \cup {mac}, !.macTo = Without(@, {mac})]
    OBVIOUS
  <2> HIDE DEF noted, gateway
  <2>4. /\ noted.nodes[id] \in NodeAt(t) /\ DOMAIN noted.nodes[id] = NodeFields
        /\ noted.nodes[id].ips = gr.nodes[id].ips
        /\ noted.nodes[id].macs = gr.nodes[id].macs \cup {mac}
        /\ noted.nodes[id].packets = gr.nodes[id].packets
    BY <1>3, <2>1, <2>2 DEF NodeAt, NodeFields
  <2>5. Shape(noted)
    BY <2>1, <2>2, <2>4 DEF Shape
  <2>6. Counted(noted)
    BY <2>2, <2>4, CountsStay DEF Counts
  <2>7. gr.shared \subseteq Macs /\ IsMap(gr.macTo, Macs, Ids) /\ IsMap(gr.nameTo, Ids, Ids)
    BY DEF Sound, Typed
  <2>8. Sound(noted, t) /\ Follows(gr, noted)
    <3>1. \A n \in DOMAIN gr.nodes :
            /\ noted.nodes[n] \in NodeAt(t) /\ noted.nodes[n].ips = gr.nodes[n].ips
            /\ gr.nodes[n].macs \subseteq noted.nodes[n].macs
      BY <2>1, <2>2, <2>4
    <3>2. Alike(gr, noted, t)
      BY <2>2, <2>7, <3>1 DEF Alike
    <3> QED BY <3>2, AlikeSound
  <2>9. ASSUME NEW k, Shape(k), Counted(k), Sound(k, t), Follows(gr, k), id \in DOMAIN k.nodes,
               mac \in k.nodes[id].macs, mac \in DOMAIN k.macTo => k.macTo[mac] = id,
               \A a \in DOMAIN gr.ipTo : gr.ipTo[a] = id => (a \in DOMAIN k.ipTo /\ k.ipTo[a] = id)
        PROVE  Good(Anchored(k))
    <3> DEFINE m == [k EXCEPT !.macTo = Put(@, mac, id)]
    <3>1. /\ DOMAIN m = Fields
          /\ m.edges = k.edges /\ m.nodes = k.nodes /\ m.ipTo = k.ipTo /\ m.nameTo = k.nameTo
          /\ m.shared = k.shared /\ m.macTo = Put(k.macTo, mac, id) /\ m.folded = k.folded
      BY <2>9 DEF Shape, Fields
    <3>2. Anchored(k) = PromoteNodeIDToMAC(m, id, mac)
      OBVIOUS
    <3> HIDE DEF m, Anchored
    <3>3. Shape(m) /\ Counted(m)
      BY <2>9, <3>1 DEF Shape, Counted
    <3>4. /\ DOMAIN m.macTo = DOMAIN k.macTo \cup {mac} /\ m.macTo[mac] = id
          /\ \A n \in DOMAIN k.macTo : m.macTo[n] = k.macTo[n]
      BY <2>9, <3>1 DEF Put
    <3>5. Alike(k, m, t)
      <4>1. /\ k.shared \subseteq Macs /\ IsMap(k.macTo, Macs, Ids) /\ IsMap(k.nameTo, Ids, Ids)
            /\ \A n \in DOMAIN k.nodes : k.nodes[n] \in NodeAt(t)
        BY <2>9 DEF Sound, Typed, IsMap
      <4>2. IsMap(m.macTo, Macs, Ids)
        BY <1>3, <2>1, <3>4, <4>1 DEF IsMap
      <4> QED BY <3>1, <3>4, <4>1, <4>2 DEF Alike
    <3>6. Sound(m, t) /\ Follows(gr, m)
      BY <2>9, <3>5, AlikeSound, FollowsChain
    <3>7. \A a \in DOMAIN gr.ipTo : gr.ipTo[a] = id => On(m, a, mac)
      BY <2>9, <3>1, <3>4 DEF On
    <3>8. id \in DOMAIN m.nodes
      BY <2>9, <3>1
    <3>9. Sound(Anchored(k), t) /\ Follows(m, Anchored(k))
      BY <1>3, <3>2, <3>3, <3>4, <3>6, <3>8, PromoteSound
    <3>10. Follows(gr, Anchored(k))
      BY <3>6, <3>9, FollowsChain
    <3>11. \A a \in DOMAIN gr.ipTo : gr.ipTo[a] = id => On(Anchored(k), a, mac)
      BY <3>7, <3>9, OnStays
    <3> QED BY <3>9, <3>10, <3>11
  <2>10. CASE mac \in gr.shared
    <3>1. \A a \in DOMAIN gr.ipTo : gr.ipTo[a] = id => On(noted, a, mac)
      <4>1. /\ noted.ipTo = gr.ipTo /\ id \in DOMAIN noted.nodes
            /\ mac \in noted.nodes[id].macs /\ mac \in noted.shared
        BY <2>2, <2>4, <2>10
      <4> QED BY <4>1 DEF On
    <3> HIDE DEF result, Anchored, Free, moved, anchor
    <3> QED BY <1>1, <1>3, <2>8, <2>10, <3>1 DEF result
  <2>11. CASE mac \notin gr.shared /\ Free
    <3>1. mac \in DOMAIN noted.macTo => noted.macTo[mac] = id
      BY <2>2, <2>11 DEF GraphInv, Anchors
    <3>2. Good(Anchored(noted))
      <4> HIDE DEF Good, Anchored
      <4> QED BY <2>2, <2>4, <2>5, <2>6, <2>8, <2>9, <3>1
    <3> HIDE DEF Anchored, Free, result, moved, anchor, Good
    <3>3. Good(result)
      BY <1>1, <1>3, <2>11, <3>2
    <3> QED BY <3>3 DEF Good, result
  <2>12. CASE mac \notin gr.shared /\ ~Free
    <3>1. mac \in DOMAIN gr.macTo /\ anchor # id /\ anchor \in DOMAIN gr.nodes
      BY <2>12
    <3>2. Good(DemoteMACIdentity(gateway, mac))
      <4>1. /\ DOMAIN gateway = Fields
            /\ gateway.edges = noted.edges /\ gateway.nodes = noted.nodes
            /\ gateway.ipTo = noted.ipTo /\ gateway.nameTo = noted.nameTo
            /\ gateway.folded = noted.folded
            /\ gateway.shared = noted.shared \cup {mac}
            /\ gateway.macTo = Without(noted.macTo, {mac})
        BY <2>2, <2>3 DEF Fields
      <4>2. Shape(gateway) /\ Counted(gateway)
        BY <2>5, <2>6, <4>1 DEF Shape, Counted
      <4>3. Alike(noted, gateway, t)
        <5>1. /\ DOMAIN gateway.macTo = DOMAIN gr.macTo \ {mac}
              /\ \A m \in DOMAIN gr.macTo \ {mac} : gateway.macTo[m] = gr.macTo[m]
          BY <2>2, <4>1 DEF Without
        <5>2. \A n \in DOMAIN noted.nodes : noted.nodes[n] \in NodeAt(t)
          BY <2>1, <2>2, <2>4
        <5>3. IsMap(gateway.macTo, Macs, Ids)
          BY <2>7, <5>1 DEF IsMap
        <5> QED BY <1>3, <2>2, <2>7, <4>1, <5>1, <5>2, <5>3 DEF Alike
      <4>4. Sound(gateway, t) /\ Follows(gr, gateway)
        BY <2>8, <4>3, AlikeSound, FollowsChain
      <4>5. \A a \in DOMAIN gr.ipTo : gr.ipTo[a] = id => On(gateway, a, mac)
        <5>1. /\ gateway.ipTo = gr.ipTo /\ id \in DOMAIN gateway.nodes
              /\ mac \in gateway.nodes[id].macs /\ mac \in gateway.shared
          BY <2>2, <2>4, <4>1
        <5> QED BY <5>1 DEF On
      <4>6. /\ Sound(DemoteMACIdentity(gateway, mac), t)
            /\ Follows(gateway, DemoteMACIdentity(gateway, mac))
        BY <1>3, <4>2, <4>4, DemoteSound
      <4>7. Follows(gr, DemoteMACIdentity(gateway, mac))
        BY <4>4, <4>6, FollowsChain
      <4>8. \A a \in DOMAIN gr.ipTo : gr.ipTo[a] = id => On(DemoteMACIdentity(gateway, mac), a, mac)
        BY <4>5, <4>6, OnStays
      <4> QED BY <4>6, <4>7, <4>8
    <3>3. Good(Anchored(moved))
      <4> DEFINE name == gr.nodes[id].name
      <4>1. moved = MergeNodeInto(noted, id, anchor, name) /\ name \in Ids \cup {NoName}
        BY <2>1 DEF NodeAt
      <4> HIDE DEF name, anchor, moved
      <4>2. /\ Shape(moved) /\ Counted(moved) /\ Sound(moved, t) /\ Follows(noted, moved)
            /\ GraphFolded(noted, moved, id, anchor, name, t)
            /\ NodesMerged(noted.nodes, moved.nodes, id, anchor)
        BY <2>1, <2>5, <2>6, <2>8, <3>1, <4>1, MergeSound
      <4>3. Follows(gr, moved)
        BY <2>8, <4>2, FollowsChain
      <4>4. id \in DOMAIN moved.nodes /\ mac \in moved.nodes[id].macs
        BY <2>2, <2>4, <3>1, <4>2 DEF NodesMerged
      <4>5. moved.macTo[mac] = id
        BY <2>2, <3>1, <4>2 DEF GraphFolded, Repointed, anchor
      <4>6. \A a \in DOMAIN gr.ipTo : gr.ipTo[a] = id => (a \in DOMAIN moved.ipTo /\ moved.ipTo[a] = id)
        BY <2>2, <3>1, <4>2 DEF GraphFolded, Repointed
      <4> HIDE DEF Anchored, Good
      <4> QED BY <2>9, <4>2, <4>3, <4>4, <4>5, <4>6
    <3> HIDE DEF Anchored, Free, moved, anchor, result, Good
    <3>4. Good(result)
      BY <1>1, <1>3, <2>12, <3>2, <3>3
    <3> QED BY <3>4 DEF Good, result
  <2> QED BY <2>10, <2>11, <2>12
<1> QED BY <1>2, <1>3

\* The edge of a packet joins the nodes of its two addresses.
Joins(gr, src, dst, t) ==
  LET e == {gr.ipTo[src], gr.ipTo[dst]} IN e \in DOMAIN gr.edges /\ gr.edges[e].seen = t

\* It changes nothing else.
LEMMA AddOrUpdateEdgeSound ==
  ASSUME NEW gr, NEW t \in Nat, NEW src, NEW dst, NEW m, NEW k, Shape(gr), Sound(gr, t),
         On(gr, src, m), On(gr, dst, k)
  PROVE  LET R == AddOrUpdateEdge(gr, src, dst, t)
         IN  Sound(R, t) /\ On(R, src, m) /\ On(R, dst, k) /\ Joins(R, src, dst, t)
<1> DEFINE from == Resolve(gr.ipTo, src)
           to   == Resolve(gr.ipTo, dst)
           e    == {from, to}
           isForward == Rank[from] <= Rank[to]
           was  == IF e \in DOMAIN gr.edges THEN gr.edges[e] ELSE [fwd |-> 0, rev |-> 0, seen |-> t]
           v    == [fwd  |-> was.fwd + (IF isForward THEN 1 ELSE 0),
                    rev  |-> was.rev + (IF isForward THEN 0 ELSE 1),
                    seen |-> t]
           R    == AddOrUpdateEdge(gr, src, dst, t)
<1>1. /\ R.nodes = gr.nodes /\ R.ipTo = gr.ipTo /\ R.nameTo = gr.nameTo /\ R.macTo = gr.macTo
      /\ R.shared = gr.shared
      /\ R.edges = Put(gr.edges, e, v)
  BY DEF AddOrUpdateEdge, Shape, Fields
<1>2. from = gr.ipTo[src] /\ to = gr.ipTo[dst]
  BY DEF Resolve, On
<1>3. v \in EdgeAt(t) /\ v.seen = t
  <2>1. was \in EdgeAt(t)
    BY DEF Sound, Typed, IsMap, EdgeAt
  <2>2. was.fwd \in Nat /\ was.rev \in Nat
    BY <2>1 DEF EdgeAt
  <2> HIDE DEF was, isForward
  <2> QED BY <2>2 DEF EdgeAt
<1> HIDE DEF from, to, v, R
<1>4. e \in EdgeIds
  <2>1. from \in Ids /\ to \in Ids
    BY <1>2 DEF On, Sound, Typed, IsMap
  <2> QED BY <2>1 DEF EdgeIds
<1>5. /\ DOMAIN R.edges = DOMAIN gr.edges \cup {e} /\ R.edges[e] = v
      /\ \A x \in DOMAIN gr.edges : x # e => R.edges[x] = gr.edges[x]
  BY <1>1 DEF Put
<1>6. Joins(R, src, dst, t)
  BY <1>1, <1>2, <1>3, <1>5 DEF Joins
<1> HIDE DEF e
<1>7. IsMap(R.edges, EdgeIds, EdgeAt(t))
  BY <1>3, <1>4, <1>5 DEF Sound, Typed, IsMap
<1>8. Sound(R, t)
  BY <1>1, <1>7 DEF Sound, Typed, Listed
<1>9. On(R, src, m) /\ On(R, dst, k)
  BY <1>1 DEF On
<1> QED BY <1>6, <1>8, <1>9 DEF R

\* A packet lands: each address with the MAC beside it, and an edge between their nodes.
LEMMA IngestedSound ==
  ASSUME NEW gr, NEW p \in Packets, NEW t \in Nat, GraphInv(gr), Counted(gr), Sound(gr, t)
  PROVE  LET R == Ingested(gr, p, t)
         IN  /\ Sound(R, t) /\ On(R, p.src, p.srcMAC) /\ On(R, p.dst, p.dstMAC)
             /\ Joins(R, p.src, p.dst, t)
<1> DEFINE first == AddOrUpdateNode(gr, p.src, p.srcName, t)
           ends  == AddOrUpdateNode(first, p.dst, p.dstName, t)
           src   == RecordMAC(ends, ends.ipTo[p.src], p.srcMAC, t)
           dst   == RecordMAC(src, src.ipTo[p.dst], p.dstMAC, t)
           all   == AddOrUpdateEdge(dst, p.src, p.dst, t)
<1>0. Ingested(gr, p, t) = all
  BY Zenon DEF Ingested
<1>1. /\ p.src \in Addrs /\ p.dst \in Addrs
      /\ p.srcName \in Names \cup Addrs \cup {NoName} /\ p.dstName \in Names \cup Addrs \cup {NoName}
  BY GraphAssumption
<1>2. NoMac \notin Macs
  BY GraphAssumption
<1>3. /\ GraphInv(first) /\ Counted(first) /\ Sound(first, t) /\ On(first, p.src, NoMac)
  BY <1>1, <1>2, AddOrUpdateNodeKeeps, AddOrUpdateNodeCounts, AddOrUpdateNodeSound DEF Counts, On
<1> HIDE DEF first
<1>4. /\ GraphInv(ends) /\ Counted(ends) /\ Sound(ends, t)
      /\ On(ends, p.src, NoMac) /\ On(ends, p.dst, NoMac)
  <2>1. /\ Sound(ends, t) /\ Follows(first, ends) /\ On(ends, p.dst, NoMac)
    BY <1>1, <1>2, <1>3, AddOrUpdateNodeSound DEF On
  <2>2. On(ends, p.src, NoMac)
    BY <1>3, <2>1, OnStays
  <2> QED BY <1>3, <2>1, <2>2, AddOrUpdateNodeKeeps, AddOrUpdateNodeCounts DEF Counts
<1> HIDE DEF ends
<1>5. /\ GraphInv(src) /\ Counted(src) /\ Sound(src, t)
      /\ On(src, p.src, p.srcMAC) /\ On(src, p.dst, NoMac)
  <2> DEFINE id == ends.ipTo[p.src]
  <2>1. id \in DOMAIN ends.nodes /\ p.src \in DOMAIN ends.ipTo
    BY <1>4 DEF On
  <2>2. src = RecordMAC(ends, id, p.srcMAC, t)
    OBVIOUS
  <2>3. ends.ipTo[p.src] = id
    OBVIOUS
  <2> HIDE DEF id, src
  <2>4. GraphInv(src) /\ Counted(src)
    BY <1>4, <2>2, RecordMACKeeps, RecordMACCounts DEF Counts, GraphInv
  <2>5. Sound(src, t) /\ Follows(ends, src) /\ On(src, p.src, p.srcMAC)
    BY <1>4, <2>1, <2>2, <2>3, RecordMACSound
  <2>6. On(src, p.dst, NoMac)
    BY <1>4, <2>5, OnStays
  <2> QED BY <2>4, <2>5, <2>6
<1> HIDE DEF src
<1>6. /\ GraphInv(dst) /\ Sound(dst, t)
      /\ On(dst, p.src, p.srcMAC) /\ On(dst, p.dst, p.dstMAC)
  <2> DEFINE id == src.ipTo[p.dst]
  <2>1. id \in DOMAIN src.nodes /\ p.dst \in DOMAIN src.ipTo
    BY <1>5 DEF On
  <2>2. dst = RecordMAC(src, id, p.dstMAC, t)
    OBVIOUS
  <2>3. src.ipTo[p.dst] = id
    OBVIOUS
  <2> HIDE DEF id, dst
  <2>4. GraphInv(dst)
    BY <1>5, <2>2, RecordMACKeeps
  <2>5. Sound(dst, t) /\ Follows(src, dst) /\ On(dst, p.dst, p.dstMAC)
    BY <1>5, <2>1, <2>2, <2>3, RecordMACSound
  <2>6. On(dst, p.src, p.srcMAC)
    BY <1>5, <2>5, OnStays
  <2> QED BY <2>4, <2>5, <2>6
<1> HIDE DEF dst
<1>7. /\ Sound(all, t) /\ On(all, p.src, p.srcMAC) /\ On(all, p.dst, p.dstMAC)
      /\ Joins(all, p.src, p.dst, t)
  BY <1>6, AddOrUpdateEdgeSound DEF GraphInv
<1> HIDE DEF all
<1> QED BY <1>0, <1>7

-----------------------------------------------------------------------------
(* Hosts: what the ids, the names and the indexes are while link-layer     *)
(* endpoints are apart                                                     *)

\* What identity means at any time: a name or a label is its own node's id and no other's,
\* and a node that is not taken for a group has an address that is none, nor has a node with
\* a MAC for an id; an address in a list leads to its node, and a node with an address or a
\* MAC for an id has its entry in the index.
Proper(n, v) ==
  /\ v.name \in Names \cup Labels => n = v.name
  /\ v.group \/ ~(Elements(v.ips) \subseteq Groups)
  /\ n \in MacsBeside => ~v.group
Sorted(gr) ==
  /\ \A x \in (Names \cup Labels) \cap DOMAIN gr.nameTo : gr.nameTo[x] = x
  /\ \A n \in DOMAIN gr.nodes : Proper(n, gr.nodes[n])
  /\ gr.shared \subseteq MacsBeside
Keyed(gr, Y) ==
  /\ \A n \in Addrs \cap DOMAIN gr.nodes : n \in DOMAIN gr.ipTo /\ gr.ipTo[n] = n
  /\ \A m \in MacsBeside \cap DOMAIN gr.nodes : m \in Y \/ (m \in DOMAIN gr.macTo /\ gr.macTo[m] = m)

\* Hosts are what they should be, but for the MACs in Y.
Hosts(gr, t, Y) == Typed(gr, t) /\ Sorted(gr) /\ Listed(gr) /\ Keyed(gr, Y)

\* When two ids may be folded: the one that stays is nobody else's.
MayMerge(gr, new, old, name) ==
  /\ new \in Ids /\ new # old /\ name \in Ids \cup {NoName}
  /\ new \in DOMAIN gr.nodes \/ (name \in Names \cup Labels => name = new)
  /\ new \in Addrs => new \in DOMAIN gr.ipTo /\ gr.ipTo[new] \in {new, old}
  /\ new \in MacsBeside => /\ new \in DOMAIN gr.macTo
                           /\ gr.macTo[new] \in {new, old}
                           /\ new \in DOMAIN gr.nodes \/ ~gr.nodes[old].group

\* A merge of two hosts leaves hosts.
LEMMA MergeHosts ==
  ASSUME NEW gr, NEW t, Shape(gr), Counted(gr), NEW new, NEW old, NEW name,
         NEW Y \in SUBSET {old}, Hosts(gr, t, Y), MayMerge(gr, new, old, name)
  PROVE  /\ Hosts(MergeNodeInto(gr, new, old, name), t, {})
         /\ GraphFolded(gr, MergeNodeInto(gr, new, old, name), new, old, name, t)
<1> DEFINE M == MergeNodeInto(gr, new, old, name)
           N == M.nodes
           P == gr.nodes
<1>1. /\ new \in Ids /\ new # old /\ name \in Ids \cup {NoName}
      /\ Typed(gr, t) /\ Sorted(gr) /\ Listed(gr) /\ Keyed(gr, Y)
  BY DEF MayMerge, Hosts
<1>2. GraphFolded(gr, M, new, old, name, t)
  BY <1>1, GraphFolds
<1> HIDE DEF M
<1>3. /\ DOMAIN M.ipTo = DOMAIN gr.ipTo
      /\ \A a \in DOMAIN gr.ipTo : M.ipTo[a] = IF gr.ipTo[a] = old THEN new ELSE gr.ipTo[a]
      /\ DOMAIN M.macTo = DOMAIN gr.macTo
      /\ \A m \in DOMAIN gr.macTo : M.macTo[m] = IF gr.macTo[m] = old THEN new ELSE gr.macTo[m]
      /\ M.nameTo = gr.nameTo /\ M.shared = gr.shared
  BY <1>2 DEF GraphFolded, Repointed
<1>4. /\ \A n \in DOMAIN N : n # new => n \in DOMAIN P /\ N[n] = P[n]
      /\ old \in DOMAIN P => old \notin DOMAIN N
      /\ new \in DOMAIN N => new \in DOMAIN P \/ old \in DOMAIN P
  BY <1>1, <1>2 DEF GraphFolded, NodesFolded
<1>5. ASSUME new \in DOMAIN N
      PROVE  /\ N[new] \in NodeAt(t)
             /\ Proper(new, N[new])
             /\ \A a \in Elements(N[new].ips) :
                  \/ new \in DOMAIN P /\ a \in Elements(P[new].ips)
                  \/ old \in DOMAIN P /\ a \in Elements(P[old].ips)
  <2>1. CASE old \notin DOMAIN P
    <3>1. new \in DOMAIN P /\ N = P
      BY <1>2, <1>4, <1>5, <2>1 DEF GraphFolded
    <3>2. P[new] \in NodeAt(t)
      BY <1>1, <3>1 DEF Typed, IsMap
    <3> QED BY <1>1, <3>1, <3>2 DEF Sorted
  <2>2. CASE old \in DOMAIN P /\ new \in DOMAIN P
    <3>1. /\ N[new] \in NodeAt(t) /\ N[new].name = P[new].name /\ N[new].group = P[new].group
          /\ Elements(N[new].ips) = Elements(P[new].ips) \cup Elements(P[old].ips)
      BY <1>2, <2>2 DEF GraphFolded, NodesFolded
    <3> QED BY <1>1, <2>2, <3>1 DEF Sorted, Proper
  <2>3. CASE old \in DOMAIN P /\ new \notin DOMAIN P
    <3>1. N[new] \in NodeAt(t) /\ N[new] = [P[old] EXCEPT !.name = name]
      BY <1>2, <2>3 DEF GraphFolded, NodesFolded
    <3>2. P[old] \in NodeAt(t)
      BY <1>1, <2>3 DEF Typed, IsMap
    <3>3. N[new].name = name /\ N[new].group = P[old].group /\ N[new].ips = P[old].ips
      BY <3>1, <3>2 DEF NodeAt
    <3> QED BY <1>1, <2>3, <3>1, <3>3 DEF Sorted, Proper, MayMerge
  <2> QED BY <1>4, <1>5, <2>1, <2>2, <2>3
<1> HIDE DEF N, P
<1>6. Typed(M, t)
  <2>1. IsMap(N, Ids, NodeAt(t))
    BY <1>1, <1>4, <1>5 DEF Typed, IsMap, P
  <2>2. IsMap(M.edges, EdgeIds, EdgeAt(t))
    BY <1>2 DEF GraphFolded, EdgesFolded
  <2>3. IsMap(M.ipTo, Addrs, Ids) /\ IsMap(M.macTo, Macs, Ids)
    BY <1>1, <1>3 DEF Typed, IsMap
  <2> QED BY <1>1, <1>3, <2>1, <2>2, <2>3 DEF Typed, N
<1>7. Sorted(M)
  <2>1. ASSUME NEW n \in DOMAIN N PROVE Proper(n, N[n])
    <3>1. CASE n = new
      BY <1>5, <2>1, <3>1
    <3>2. CASE n # new
      BY <1>1, <1>4, <2>1, <3>2 DEF Sorted, P
    <3> QED BY <3>1, <3>2
  <2> QED BY <1>1, <1>3, <2>1 DEF Sorted, N
<1>8. Listed(M)
  <2> SUFFICES ASSUME NEW n \in DOMAIN N, NEW a \in Elements(N[n].ips)
               PROVE  a \in DOMAIN M.ipTo /\ M.ipTo[a] = n
    BY DEF Listed, N
  <2>1. CASE n = new
    <3>1. a \in DOMAIN gr.ipTo /\ gr.ipTo[a] \in {new, old}
      BY <1>1, <1>5, <2>1 DEF Listed, P
    <3> QED BY <1>3, <2>1, <3>1
  <2>2. CASE n # new
    <3>1. n \in DOMAIN P /\ N[n] = P[n] /\ n # old
      BY <1>4, <2>2
    <3>2. a \in DOMAIN gr.ipTo /\ gr.ipTo[a] = n
      BY <1>1, <3>1 DEF Listed, P
    <3> QED BY <1>3, <3>1, <3>2
  <2> QED BY <2>1, <2>2
<1>9. Keyed(M, {})
  <2>1. ASSUME NEW n \in Addrs \cap DOMAIN N PROVE n \in DOMAIN M.ipTo /\ M.ipTo[n] = n
    <3>1. CASE n = new
      BY <1>1, <1>3, <2>1, <3>1 DEF MayMerge
    <3>2. CASE n # new
      <4>1. n \in DOMAIN P /\ n # old
        BY <1>4, <2>1, <3>2
      <4>2. n \in DOMAIN gr.ipTo /\ gr.ipTo[n] = n
        BY <1>1, <2>1, <4>1 DEF Keyed, P
      <4> QED BY <1>3, <4>1, <4>2
    <3> QED BY <3>1, <3>2
  <2>2. ASSUME NEW m \in MacsBeside \cap DOMAIN N PROVE m \in DOMAIN M.macTo /\ M.macTo[m] = m
    <3>1. CASE m = new
      BY <1>1, <1>3, <2>2, <3>1 DEF MayMerge
    <3>2. CASE m # new
      <4>1. m \in DOMAIN P /\ m # old
        BY <1>4, <2>2, <3>2
      <4>2. m \in DOMAIN gr.macTo /\ gr.macTo[m] = m
        BY <1>1, <2>2, <4>1 DEF Keyed, P
      <4> QED BY <1>3, <4>1, <4>2
    <3> QED BY <3>1, <3>2
  <2> QED BY <2>1, <2>2 DEF Keyed, N
<1>10. Hosts(M, t, {})
  BY <1>6, <1>7, <1>8, <1>9 DEF Hosts
<1> QED BY <1>2, <1>10 DEF M

\* An edge is due to decay or has its ends on nodes that were seen no earlier, and an
\* address heard within the threshold leads to such a node, but for the ids in X.
Lasting(gr, t, X) ==
  \A e \in DOMAIN gr.edges :
    \/ gr.edges[e].seen + Threshold < t
    \/ \A n \in e : n \in X \/ (n \in DOMAIN gr.nodes /\ gr.edges[e].seen <= gr.nodes[n].seen)
Recent(gr, h, t, X) ==
  \A a \in DOMAIN h : h[a] + Threshold >= t =>
    /\ a \in DOMAIN gr.ipTo
    /\ \/ gr.ipTo[a] \in X
       \/ gr.ipTo[a] \in DOMAIN gr.nodes /\ h[a] <= gr.nodes[gr.ipTo[a]].seen
Fresh(gr, h, t, X) == IsMap(h, Addrs, 0 .. t) /\ Lasting(gr, t, X) /\ Recent(gr, h, t, X)

\* A merge takes no heard address from the graph, and leaves no live edge without an end,
\* when the node that stays is as fresh as can be, or about to be.
LEMMA MergeFresh ==
  ASSUME NEW gr, NEW M, NEW t \in Nat, NEW h, NEW new, NEW old, NEW name, NEW X, new # old,
         Typed(gr, t), GraphFolded(gr, M, new, old, name, t), Fresh(gr, h, t, {}),
         new \in X \/ new \notin DOMAIN gr.nodes \/ gr.nodes[new].seen = t
  PROVE  Fresh(M, h, t, X)
<1> DEFINE N == M.nodes
           P == gr.nodes
<1>1. /\ \A n \in DOMAIN P : P[n].seen \in 0 .. t
      /\ \A e \in DOMAIN gr.edges : gr.edges[e].seen \in 0 .. t
      /\ \A a \in DOMAIN h : h[a] \in 0 .. t
      /\ \A n \in DOMAIN P : DOMAIN P[n] = {"name", "ips", "macs", "packets", "seen", "group"}
  BY DEF Typed, IsMap, NodeAt, EdgeAt, Fresh
<1>2. /\ \A n \in DOMAIN P \ {new, old} : n \in DOMAIN N /\ N[n] = P[n]
      /\ old \in DOMAIN P /\ new \in DOMAIN P => new \in DOMAIN N /\ N[new].seen = P[new].seen
      /\ old \in DOMAIN P /\ new \notin DOMAIN P => new \in DOMAIN N /\ N[new].seen = P[old].seen
      /\ old \notin DOMAIN P => N = P
  <2>1. CASE old \notin DOMAIN P
    BY <2>1 DEF GraphFolded
  <2>2. CASE old \in DOMAIN P
    <3>1. NodesFolded(P, N, new, old, name, t)
      BY <2>2 DEF GraphFolded
    <3>2. new \notin DOMAIN P => N[new].seen = P[old].seen
      BY <1>1, <2>2, <3>1 DEF NodesFolded
    <3> QED BY <2>2, <3>1, <3>2 DEF NodesFolded
  <2> QED BY <2>1, <2>2
<1>3. ASSUME NEW n \in DOMAIN P, NEW s \in 0 .. t, s <= P[n].seen, n \in {new, old}
      PROVE  new \in X \/ (new \in DOMAIN N /\ s <= N[new].seen)
  BY <1>1, <1>2, <1>3
<1>4. \A n \in DOMAIN P \ {new, old} : n \in DOMAIN N /\ N[n].seen = P[n].seen
  BY <1>2
<1> HIDE DEF N, P
<1>5. Lasting(M, t, X)
  <2> SUFFICES ASSUME NEW e \in DOMAIN M.edges, ~(M.edges[e].seen + Threshold < t), NEW n \in e
               PROVE  n \in X \/ (n \in DOMAIN N /\ M.edges[e].seen <= N[n].seen)
    BY DEF Lasting, N
  <2>1. PICK s \in DOMAIN gr.edges : e = Rekeyed(s, old, new) /\ M.edges[e].seen = gr.edges[s].seen
    BY DEF GraphFolded, EdgesFolded
  <2>2. PICK k \in s : n = IF k = old THEN new ELSE k
    BY <2>1 DEF Rekeyed
  <2>3. k \in DOMAIN P /\ gr.edges[s].seen <= P[k].seen
    BY <2>1 DEF Fresh, Lasting, P
  <2>4. gr.edges[s].seen \in 0 .. t
    BY <1>1
  <2>5. CASE k \in {new, old}
    BY <1>3, <2>1, <2>2, <2>3, <2>4, <2>5
  <2>6. CASE k \notin {new, old}
    BY <1>4, <2>1, <2>2, <2>3, <2>6
  <2> QED BY <2>5, <2>6
<1>6. Recent(M, h, t, X)
  <2> SUFFICES ASSUME NEW a \in DOMAIN h, h[a] + Threshold >= t
               PROVE  /\ a \in DOMAIN M.ipTo
                      /\ \/ M.ipTo[a] \in X
                         \/ M.ipTo[a] \in DOMAIN N /\ h[a] <= N[M.ipTo[a]].seen
    BY DEF Recent, N
  <2>1. a \in DOMAIN gr.ipTo /\ gr.ipTo[a] \in DOMAIN P /\ h[a] <= P[gr.ipTo[a]].seen
    BY DEF Fresh, Recent, P
  <2>2. a \in DOMAIN M.ipTo /\ M.ipTo[a] = IF gr.ipTo[a] = old THEN new ELSE gr.ipTo[a]
    BY <2>1 DEF GraphFolded, Repointed
  <2>3. CASE gr.ipTo[a] \in {new, old}
    BY <1>1, <1>3, <2>1, <2>2, <2>3
  <2>4. CASE gr.ipTo[a] \notin {new, old}
    BY <1>4, <2>1, <2>2, <2>4
  <2> QED BY <2>3, <2>4
<1> QED BY <1>5, <1>6 DEF Fresh

-----------------------------------------------------------------------------
(* One endpoint of a packet *)

\* A graph that differs from one of hosts in its names only.
LEMMA RenamedHosts ==
  ASSUME NEW gr, NEW m, NEW t, NEW h, NEW X, NEW Y, Hosts(gr, t, Y), Fresh(gr, h, t, X),
         m.nodes = gr.nodes, m.edges = gr.edges, m.ipTo = gr.ipTo, m.macTo = gr.macTo,
         m.shared = gr.shared, IsMap(m.nameTo, Ids, Ids),
         \A x \in (Names \cup Labels) \cap DOMAIN m.nameTo : m.nameTo[x] = x
  PROVE  Hosts(m, t, Y) /\ Fresh(m, h, t, X)
<1>1. Typed(m, t)
  BY DEF Hosts, Typed
<1>2. Sorted(m) /\ Listed(m) /\ Keyed(m, Y)
  BY DEF Hosts, Sorted, Listed, Keyed
<1>3. Fresh(m, h, t, X)
  BY DEF Fresh, Lasting, Recent
<1> QED BY <1>1, <1>2, <1>3 DEF Hosts

\* What the id of an endpoint is: its name's, its label's, or the address.
Identity(ip, name, id) ==
  /\ id \in Ids \ MacsBeside /\ (id \in Addrs => id = ip)
  /\ name \in Ids \cup {NoName} /\ (name \in Names \cup Labels => name = id)

\* An address that lands on a host's node, seen now, leaves hosts.
LEMMA LandedHosts ==
  ASSUME LinkLayerApart, NEW gr, NEW R, NEW t \in Nat, NEW h, NEW ip \in Addrs, NEW name, NEW id, NEW v,
         Hosts(gr, t, {}), Fresh(gr, h, t, {id}), Identity(ip, name, id),
         ip \in DOMAIN gr.ipTo => gr.ipTo[ip] = id,
         Lands(gr, R, ip, id, v),
         v \in NodeAt(t), v.seen = t,
         IF id \in DOMAIN gr.nodes
         THEN v.name = gr.nodes[id].name /\ v.ips = gr.nodes[id].ips
              /\ v.group = (gr.nodes[id].group \/ ip \in Groups)
         ELSE v.name = name /\ v.ips = <<ip>> /\ v.group = (ip \in Groups)
  PROVE  Hosts(R, t, {}) /\ Fresh(R, Put(h, ip, t), t, {})
<1> DEFINE N == R.nodes
           P == gr.nodes
           k == Put(h, ip, t)
<1>1. Typed(gr, t) /\ Sorted(gr) /\ Listed(gr) /\ Keyed(gr, {})
  BY DEF Hosts
<1>2. /\ DOMAIN N = DOMAIN P \cup {id} /\ N[id] = v
      /\ \A n \in DOMAIN P : n # id => N[n] = P[n]
      /\ DOMAIN R.ipTo = DOMAIN gr.ipTo \cup {ip} /\ R.ipTo[ip] = id
      /\ \A a \in DOMAIN gr.ipTo : R.ipTo[a] = gr.ipTo[a]
      /\ R.edges = gr.edges /\ R.macTo = gr.macTo /\ R.nameTo = gr.nameTo /\ R.shared = gr.shared
  BY DEF Lands, Put
<1>3. id \in Ids /\ id \notin MacsBeside /\ (id \in Addrs => id = ip)
  BY DEF Identity
<1>4. /\ Proper(id, v)
      /\ \A a \in Elements(v.ips) :
           a = ip \/ (a \in DOMAIN gr.ipTo /\ gr.ipTo[a] = id)
  <2>1. CASE id \in DOMAIN P
    <3>1. v.name = P[id].name /\ v.ips = P[id].ips /\ v.group = (P[id].group \/ ip \in Groups)
      BY <2>1
    <3>2. Proper(id, P[id])
      BY <1>1, <2>1 DEF Sorted
    <3>3. \A a \in Elements(P[id].ips) : a \in DOMAIN gr.ipTo /\ gr.ipTo[a] = id
      BY <1>1, <2>1 DEF Listed
    <3> QED BY <1>3, <3>1, <3>2, <3>3 DEF Proper
  <2>2. CASE id \notin DOMAIN P
    <3>1. v.name = name /\ v.ips = <<ip>> /\ v.group = (ip \in Groups)
      BY <2>2
    <3>2. Elements(<<ip>>) = {ip}
      BY DEF Elements
    <3>3. v.name \in Names \cup Labels => id = v.name
      BY <3>1 DEF Identity
    <3>4. ip \in Groups => v.group
      BY <3>1
    <3> QED BY <1>3, <3>1, <3>2, <3>3, <3>4 DEF Proper
  <2> QED BY <2>1, <2>2
<1> HIDE DEF N, P, k
<1>5. Typed(R, t)
  <2>1. IsMap(N, Ids, NodeAt(t))
    <3>1. \A n \in DOMAIN P : n \in Ids /\ P[n] \in NodeAt(t)
      BY <1>1 DEF Typed, IsMap, P
    <3> QED BY <1>2, <1>3, <3>1 DEF IsMap
  <2>2. IsMap(R.ipTo, Addrs, Ids)
    BY <1>1, <1>2, <1>3 DEF Typed, IsMap
  <2> QED BY <1>1, <1>2, <2>1, <2>2 DEF Typed, N
<1>6. Sorted(R)
  <2>1. ASSUME NEW n \in DOMAIN N PROVE Proper(n, N[n])
    <3>1. CASE n = id
      BY <1>2, <1>4, <3>1
    <3>2. CASE n # id
      <4>1. n \in DOMAIN P /\ N[n] = P[n]
        BY <1>2, <2>1, <3>2
      <4> QED BY <1>1, <4>1 DEF Sorted, P
    <3> QED BY <3>1, <3>2
  <2> QED BY <1>1, <1>2, <2>1 DEF Sorted, N
<1>7. Listed(R)
  <2> SUFFICES ASSUME NEW n \in DOMAIN N, NEW a \in Elements(N[n].ips)
               PROVE  a \in DOMAIN R.ipTo /\ R.ipTo[a] = n
    BY DEF Listed, N
  <2>1. CASE n = id
    BY <1>2, <1>4, <2>1
  <2>2. CASE n # id
    <3>1. n \in DOMAIN P /\ N[n] = P[n]
      BY <1>2, <2>2
    <3>2. a \in DOMAIN gr.ipTo /\ gr.ipTo[a] = n
      BY <1>1, <3>1 DEF Listed, P
    <3> QED BY <1>2, <3>2
  <2> QED BY <2>1, <2>2
<1>8. Keyed(R, {})
  <2>1. ASSUME NEW n \in Addrs \cap DOMAIN N PROVE n \in DOMAIN R.ipTo /\ R.ipTo[n] = n
    <3>1. CASE n = id
      BY <1>2, <1>3, <2>1, <3>1
    <3>2. CASE n # id
      BY <1>1, <1>2, <2>1, <3>2 DEF Keyed, P
    <3> QED BY <3>1, <3>2
  <2>2. ASSUME NEW m \in MacsBeside \cap DOMAIN N PROVE m \in DOMAIN R.macTo /\ R.macTo[m] = m
    BY <1>1, <1>2, <1>3, <2>2 DEF Keyed, P
  <2> QED BY <2>1, <2>2 DEF Keyed, N
<1>9. IsMap(k, Addrs, 0 .. t) /\ (\A a \in DOMAIN k : a # ip => a \in DOMAIN h /\ k[a] = h[a])
  BY DEF Fresh, IsMap, Put, k
<1>10. Lasting(R, t, {})
  <2> SUFFICES ASSUME NEW e \in DOMAIN gr.edges, ~(gr.edges[e].seen + Threshold < t), NEW n \in e
               PROVE  n \in DOMAIN N /\ gr.edges[e].seen <= N[n].seen
    BY <1>2 DEF Lasting, N
  <2>1. n = id \/ (n \in DOMAIN P /\ gr.edges[e].seen <= P[n].seen)
    BY DEF Fresh, Lasting, P
  <2>2. gr.edges[e].seen \in 0 .. t
    BY <1>1 DEF Typed, IsMap, EdgeAt
  <2> QED BY <1>2, <2>1, <2>2
<1>11. Recent(R, k, t, {})
  <2> SUFFICES ASSUME NEW a \in DOMAIN k, k[a] + Threshold >= t
               PROVE  /\ a \in DOMAIN R.ipTo
                      /\ R.ipTo[a] \in DOMAIN N /\ k[a] <= N[R.ipTo[a]].seen
    BY DEF Recent, N
  <2>1. k[a] \in 0 .. t
    BY <1>9 DEF IsMap
  <2>2. CASE a = ip
    BY <1>2, <2>1, <2>2
  <2>3. CASE a # ip
    <3>1. a \in DOMAIN gr.ipTo
          /\ \/ gr.ipTo[a] = id
             \/ gr.ipTo[a] \in DOMAIN P /\ k[a] <= P[gr.ipTo[a]].seen
      BY <1>9, <2>3 DEF Fresh, Recent, P
    <3>2. R.ipTo[a] = gr.ipTo[a] /\ a \in DOMAIN R.ipTo
      BY <1>2, <3>1
    <3> QED BY <1>2, <2>1, <3>1, <3>2
  <2> QED BY <2>2, <2>3
<1> QED BY <1>5, <1>6, <1>7, <1>8, <1>9, <1>10, <1>11 DEF Hosts, Fresh, k

\* One endpoint of a packet leaves hosts, and its address is heard now.
LEMMA AddOrUpdateNodeHosts ==
  ASSUME LinkLayerApart, NEW gr, NEW ip \in Addrs, NEW given, NEW t \in Nat, NEW h,
         ip \in Groups \/ given \in Names \cup {ip, NoName},
         GraphInv(gr), Counted(gr), Hosts(gr, t, {}), Fresh(gr, h, t, {})
  PROVE  /\ Hosts(AddOrUpdateNode(gr, ip, given, t), t, {})
         /\ Fresh(AddOrUpdateNode(gr, ip, given, t), Put(h, ip, t), t, {})
<1> DEFINE name    == IF ip \in Groups THEN GroupLabel[ip] ELSE given
           useName == UseName(ip, name)
           id      == NodeIDOf(gr, ip, name)
           named   == Named(gr, ip, name)
           joined  == Joined(gr, ip, name)
           fresh   == [name |-> name, ips |-> <<ip>>, macs |-> {}, packets |-> 1,
                       seen |-> t, group |-> ip \in Groups]
           updated == [joined.nodes[id] EXCEPT
                         !.packets = @ + 1,
                         !.seen    = t,
                         !.name    = IF useName /\ @ = id THEN name ELSE @,
                         !.group   = @ \/ ip \in Groups]
           node    == IF id \in DOMAIN joined.nodes THEN updated ELSE fresh
           result  == AddOrUpdateNode(gr, ip, given, t)
<1>1. result = [joined EXCEPT
                  !.ipTo  = Put(@, ip, id),
                  !.nodes = Put(@, id, IF id \in DOMAIN @ THEN updated ELSE fresh)]
  BY DEF AddOrUpdateNode
<1>2. /\ NoName \notin Ids /\ Ids = Addrs \cup Names \cup Macs \cup Labels
      /\ (ip \in Groups => GroupLabel[ip] \in Labels)
  BY GraphAssumption DEF Ids, Labels
<1>3. /\ Labels \cap (Addrs \cup Names \cup MacsBeside) = {}
      /\ Addrs \cap Names = {} /\ Addrs \cap MacsBeside = {} /\ Names \cap MacsBeside = {}
  BY DEF LinkLayerApart
<1>4. /\ Identity(ip, name, id) /\ (useName => id = name)
      /\ useName => name \in Names \cup Labels
  <2>1. CASE useName
    <3>1. name \in Names \cup Labels
      BY <1>2, <1>3, <2>1 DEF UseName
    <3>2. id = name
      <4>1. id = Resolve(gr.nameTo, name)
        BY <2>1 DEF NodeIDOf
      <4> HIDE DEF name, id
      <4> QED BY <3>1, <4>1 DEF Resolve, Hosts, Sorted
    <3> QED BY <1>2, <1>3, <3>1, <3>2 DEF Identity
  <2>2. CASE ~useName
    <3>1. id = ip
      BY <2>2 DEF NodeIDOf
    <3>2. ip \notin Groups /\ name \in {ip, NoName}
      BY <1>2, <1>3, <2>2 DEF UseName
    <3> QED BY <1>2, <1>3, <2>2, <3>1, <3>2 DEF Identity
  <2> QED BY <2>1, <2>2
<1>5. /\ named.nodes = gr.nodes /\ named.edges = gr.edges /\ named.ipTo = gr.ipTo
      /\ named.macTo = gr.macTo /\ named.shared = gr.shared /\ named.folded = gr.folded
      /\ DOMAIN named = Fields
      /\ named.nameTo = IF useName THEN Put(gr.nameTo, name, id) ELSE gr.nameTo
  <2>1. DOMAIN gr = Fields
    BY DEF GraphInv, Shape
  <2>2. named = IF useName THEN [gr EXCEPT !.nameTo = Put(@, name, id)] ELSE gr
    BY DEF Named
  <2> HIDE DEF named, useName, name, id
  <2> QED BY <2>1, <2>2 DEF Fields
<1> HIDE DEF named
<1>6. Shape(named) /\ Counted(named) /\ Hosts(named, t, {}) /\ Fresh(named, h, t, {})
  <2>1. Shape(named) /\ Counted(named)
    BY <1>5 DEF GraphInv, Shape, Counted
  <2> HIDE DEF useName, name, id
  <2>2. IsMap(gr.nameTo, Ids, Ids)
        /\ \A x \in (Names \cup Labels) \cap DOMAIN gr.nameTo : gr.nameTo[x] = x
    BY DEF Hosts, Typed, Sorted
  <2>3. IsMap(named.nameTo, Ids, Ids)
        /\ \A x \in (Names \cup Labels) \cap DOMAIN named.nameTo : named.nameTo[x] = x
    <3>1. CASE useName
      <4>1. named.nameTo = Put(gr.nameTo, id, id) /\ id \in Ids
        BY <1>4, <1>5, <3>1 DEF Identity
      <4> QED BY <2>2, <4>1 DEF Put, IsMap
    <3>2. CASE ~useName
      BY <1>5, <2>2, <3>2
    <3> QED BY <3>1, <3>2
  <2> QED BY <1>5, <2>1, <2>3, RenamedHosts
<1>7. /\ Shape(joined) /\ Hosts(joined, t, {}) /\ Fresh(joined, h, t, {id})
      /\ ip \in DOMAIN joined.ipTo => joined.ipTo[ip] = id
  <2> HIDE DEF name
  <2>1. CASE Resolve(gr.ipTo, ip) # id /\ ip \in DOMAIN gr.ipTo
    <3> DEFINE old == gr.ipTo[ip]
    <3>1. old # id
      BY <2>1 DEF Resolve
    <3>2. joined = MergeNodeInto(named, id, old, name)
      BY <2>1 DEF Joined, named
    <3> HIDE DEF joined, id, old
    <3>4. MayMerge(named, id, old, name)
      <4>1. id \in Addrs => id \in DOMAIN named.ipTo /\ named.ipTo[id] = old
        BY <1>4, <1>5, <2>1 DEF Identity, old
      <4> QED BY <1>4, <3>1, <4>1 DEF MayMerge, Identity
    <3>5. Shape(joined)
      BY <1>6, <3>1, <3>2, MergeShape
    <3>6. Hosts(joined, t, {}) /\ GraphFolded(named, joined, id, old, name, t)
      BY <1>6, <3>2, <3>4, MergeHosts
    <3>7. Fresh(joined, h, t, {id})
      <4>1. Typed(named, t)
        BY <1>6 DEF Hosts
      <4> QED BY <1>6, <3>1, <3>6, <4>1, MergeFresh
    <3>8. joined.ipTo[ip] = id
      BY <1>5, <2>1, <3>6 DEF GraphFolded, Repointed, old
    <3> QED BY <3>5, <3>6, <3>7, <3>8
  <2>2. CASE ~(Resolve(gr.ipTo, ip) # id /\ ip \in DOMAIN gr.ipTo)
    <3>1. joined = named
      BY <2>2 DEF Joined, named
    <3>2. ip \in DOMAIN gr.ipTo => gr.ipTo[ip] = id
      BY <2>2 DEF Resolve
    <3> HIDE DEF joined, id
    <3>3. Fresh(named, h, t, {id})
      BY <1>6 DEF Fresh, Lasting, Recent
    <3> QED BY <1>5, <1>6, <3>1, <3>2, <3>3
  <2> QED BY <2>1, <2>2
<1>8. /\ Lands(joined, result, ip, id, node)
  <2> HIDE DEF joined, id, updated, fresh, result
  <2>1. DOMAIN joined = Fields
    BY <1>7 DEF Shape
  <2> QED BY <1>1, <2>1 DEF Fields, Lands
<1>9. /\ node \in NodeAt(t) /\ node.seen = t
      /\ IF id \in DOMAIN joined.nodes
         THEN node.name = joined.nodes[id].name /\ node.ips = joined.nodes[id].ips
              /\ node.group = (joined.nodes[id].group \/ ip \in Groups)
         ELSE node.name = name /\ node.ips = <<ip>> /\ node.group = (ip \in Groups)
  <2>1. CASE id \in DOMAIN joined.nodes
    <3> DEFINE was == joined.nodes[id]
    <3>1. was \in NodeAt(t)
      BY <1>7, <2>1 DEF Hosts, Typed, IsMap
    <3>2. node = [was EXCEPT !.packets = @ + 1, !.seen = t,
                             !.name = IF useName /\ @ = id THEN name ELSE @,
                             !.group = @ \/ ip \in Groups]
      BY <2>1
    <3> HIDE DEF joined, id, useName, name, was, node
    <3>3. node = [was EXCEPT !.packets = was.packets + 1, !.seen = t,
                             !.group = was.group \/ ip \in Groups]
      BY <1>4, <3>1, <3>2 DEF NodeAt
    <3>4. was.packets + 1 \in Nat /\ t \in 0 .. t /\ (was.group \/ ip \in Groups) \in BOOLEAN
      BY <3>1 DEF NodeAt
    <3>5. /\ node \in NodeAt(t) /\ node.seen = t /\ node.name = was.name /\ node.ips = was.ips
          /\ node.group = (was.group \/ ip \in Groups)
      BY <3>1, <3>3, <3>4 DEF NodeAt
    <3> QED BY <2>1, <3>5 DEF was
  <2>2. CASE id \notin DOMAIN joined.nodes
    <3>1. node = fresh
      BY <2>2
    <3>2. name \in Ids \cup {NoName} /\ <<ip>> \in Seq(Addrs) /\ t \in 0 .. t
      BY <1>4 DEF Identity
    <3> HIDE DEF joined, id, name, node
    <3>3. fresh \in NodeAt(t)
      BY <3>2 DEF NodeAt
    <3> QED BY <2>2, <3>1, <3>3
  <2> QED BY <2>1, <2>2
<1> HIDE DEF joined, id, name, node, result, useName
<1>10. Hosts(result, t, {}) /\ Fresh(result, Put(h, ip, t), t, {})
  BY <1>4, <1>7, <1>8, <1>9, LandedHosts
<1> QED BY <1>10 DEF result

-----------------------------------------------------------------------------
(* Re-keying *)

\* R has the hosts of gr: the same ids, addresses and times, no new name that is DNS's or
\* a group's, and indexes that are as they must be but for the MACs in Y.
Like(gr, R, t, Y) ==
  /\ DOMAIN R.nodes = DOMAIN gr.nodes
  /\ \A n \in DOMAIN gr.nodes :
       /\ R.nodes[n] \in NodeAt(t)
       /\ R.nodes[n].ips = gr.nodes[n].ips /\ R.nodes[n].group = gr.nodes[n].group
       /\ R.nodes[n].seen = gr.nodes[n].seen
       /\ R.nodes[n].name = gr.nodes[n].name \/ R.nodes[n].name \notin Names \cup Labels
  /\ R.edges = gr.edges /\ R.ipTo = gr.ipTo /\ R.shared \subseteq MacsBeside
  /\ IsMap(R.nameTo, Ids, Ids)
  /\ \A x \in (Names \cup Labels) \cap DOMAIN R.nameTo : R.nameTo[x] = x
  /\ IsMap(R.macTo, Macs, Ids)
  /\ \A m \in MacsBeside \cap DOMAIN gr.nodes : m \in Y \/ (m \in DOMAIN R.macTo /\ R.macTo[m] = m)

\* Then they are hosts too.
LEMMA LikeHosts ==
  ASSUME NEW gr, NEW R, NEW t, NEW h, NEW Z, NEW Y, Hosts(gr, t, Z), Fresh(gr, h, t, {}),
         Like(gr, R, t, Y)
  PROVE  Hosts(R, t, Y) /\ Fresh(R, h, t, {})
<1>1. Typed(R, t)
  BY DEF Hosts, Typed, Like, IsMap, MacsBeside
<1>2. Sorted(R)
  BY DEF Hosts, Sorted, Proper, Like
<1>3. Listed(R) /\ Keyed(R, Y)
  BY DEF Hosts, Listed, Keyed, Like
<1>4. Fresh(R, h, t, {})
  BY DEF Fresh, Lasting, Recent, Like
<1> QED BY <1>1, <1>2, <1>3, <1>4 DEF Hosts

\* A node that is not taken for a group has an address that leads to it and is none.
LEMMA HostHasAddress ==
  ASSUME LinkLayerApart, NEW gr, NEW t, NEW Y, Hosts(gr, t, Y), NEW n \in DOMAIN gr.nodes,
         ~gr.nodes[n].group
  PROVE  LET hosts == HostAddrs(gr.nodes[n].ips)
         IN  /\ hosts # <<>> /\ Head(hosts) \in Addrs \ (Groups \cup Names \cup Labels \cup MacsBeside)
             /\ Head(hosts) \in DOMAIN gr.ipTo /\ gr.ipTo[Head(hosts)] = n
<1> DEFINE ips == gr.nodes[n].ips
           a == Head(HostAddrs(ips))
<1>1. ips \in Seq(Addrs)
  BY DEF Hosts, Typed, IsMap, NodeAt
<1>2. ~(Elements(ips) \subseteq Groups)
  BY DEF Hosts, Sorted, Proper
<1>3. Elements(ips) \subseteq Addrs
  BY <1>1 DEF Elements
<1> HIDE DEF ips
<1>4. HostAddrs(ips) # <<>> /\ a \in Elements(ips) \ Groups
  BY <1>1, <1>2, HostAddrsAre
<1> HIDE DEF a
<1>5. a \in DOMAIN gr.ipTo /\ gr.ipTo[a] = n
  BY <1>4 DEF Hosts, Listed, ips
<1>6. a \in Addrs \ (Groups \cup Names \cup Labels \cup MacsBeside)
  BY <1>3, <1>4 DEF LinkLayerApart
<1> QED BY <1>4, <1>5, <1>6 DEF a, ips

\* Re-keying a node to its MAC leaves hosts.
LEMMA PromoteHosts ==
  ASSUME LinkLayerApart, NEW gr, NEW t \in Nat, NEW h, NEW id \in DOMAIN gr.nodes,
         NEW mac \in MacsBeside, Shape(gr), Counted(gr), Hosts(gr, t, {}), Fresh(gr, h, t, {}),
         mac \in DOMAIN gr.macTo, gr.macTo[mac] = id
  PROVE  /\ Hosts(PromoteNodeIDToMAC(gr, id, mac), t, {})
         /\ Fresh(PromoteNodeIDToMAC(gr, id, mac), h, t, {})
<1> DEFINE own    == gr.nodes[id].name
           hosts  == HostAddrs(gr.nodes[id].ips)
           name   == IF own \notin {NoName, id} THEN own
                     ELSE IF hosts # <<>> THEN Head(hosts) ELSE id
           merged == MergeNodeInto(gr, mac, id, name)
           kept   == IF id \in DOMAIN gr.nameTo /\ gr.nameTo[id] = id
                     THEN Without(gr.nameTo, {id}) ELSE gr.nameTo
           result == [merged EXCEPT
                        !.nodes[mac].name = IF @ \in {NoName, mac} THEN name ELSE @,
                        !.macTo  = Put(@, mac, mac),
                        !.nameTo = IF name # mac THEN Put(kept, name, mac) ELSE kept]
           stays  == id = mac \/ mac \in gr.shared \/ gr.nodes[id].group \/ id \in Macs
<1>1. PromoteNodeIDToMAC(gr, id, mac) = IF stays THEN gr ELSE result
  BY DEF PromoteNodeIDToMAC
<1>2. CASE stays
  BY <1>1, <1>2
<1>3. CASE ~stays
  <2>1. id # mac /\ ~gr.nodes[id].group
    BY <1>3
  <2>2. mac \notin DOMAIN gr.nodes /\ mac \in Ids \ (Labels \cup Addrs \cup Names)
    BY <2>1 DEF Hosts, Keyed, LinkLayerApart, Ids, MacsBeside
  <2>3. own \in Ids \cup {NoName} /\ (own \in Names \cup Labels => own = id)
    BY DEF Hosts, Typed, IsMap, NodeAt, Sorted, Proper
  <2>4. hosts # <<>> /\ Head(hosts) \in Addrs \ (Groups \cup Names \cup Labels \cup MacsBeside)
    BY <2>1, HostHasAddress
  <2>5. name \in Ids \cup {NoName} /\ name \notin Names \cup Labels
        /\ name # NoName
    <3> HIDE DEF own, hosts
    <3> QED BY <2>3, <2>4, GraphAssumption DEF Ids
  <2> HIDE DEF name
  <2>6. MayMerge(gr, mac, id, name)
    BY <2>1, <2>2, <2>5 DEF MayMerge
  <2> HIDE DEF merged
  <2>7. Shape(merged)
    BY <2>1, MergeShape DEF merged
  <2>8. Hosts(merged, t, {}) /\ GraphFolded(gr, merged, mac, id, name, t)
    BY <2>6, MergeHosts DEF merged
  <2>9. Fresh(merged, h, t, {})
    BY <2>1, <2>2, <2>8, MergeFresh DEF Hosts
  <2>10. mac \in DOMAIN merged.nodes /\ mac \in DOMAIN merged.macTo /\ merged.macTo[mac] = mac
         /\ merged.nameTo = gr.nameTo
    BY <2>1, <2>8 DEF GraphFolded, NodesFolded, Repointed
  <2>11. /\ DOMAIN merged = Fields
         /\ merged.nodes[mac] \in NodeAt(t)
    BY <2>7, <2>8, <2>10 DEF Shape, Hosts, Typed, IsMap
  <2> DEFINE was == merged.nodes[mac]
             node == [was EXCEPT !.name = IF @ \in {NoName, mac} THEN name ELSE @]
             named == IF name # mac THEN Put(kept, name, mac) ELSE kept
  <2>12. /\ result.nodes = [merged.nodes EXCEPT ![mac] = node]
         /\ result.edges = merged.edges /\ result.ipTo = merged.ipTo
         /\ result.shared = merged.shared
         /\ result.macTo = Put(merged.macTo, mac, mac)
         /\ result.nameTo = named
    <3> HIDE DEF kept
    <3> QED BY <2>11 DEF Fields
  <2>13. /\ node \in NodeAt(t) /\ node.ips = was.ips /\ node.group = was.group /\ node.seen = was.seen
         /\ node.name = was.name \/ node.name \notin Names \cup Labels
    <3>1. was \in NodeAt(t)
      BY <2>11
    <3> HIDE DEF was
    <3> QED BY <2>5, <3>1 DEF NodeAt
  <2>14. /\ IsMap(named, Ids, Ids)
         /\ \A x \in (Names \cup Labels) \cap DOMAIN named : named[x] = x
    <3>1. /\ IsMap(gr.nameTo, Ids, Ids)
          /\ \A x \in (Names \cup Labels) \cap DOMAIN gr.nameTo : gr.nameTo[x] = x
      BY DEF Hosts, Typed, Sorted
    <3>2. /\ IsMap(kept, Ids, Ids)
          /\ \A x \in (Names \cup Labels) \cap DOMAIN kept : kept[x] = x
      BY <3>1 DEF Without, IsMap
    <3> HIDE DEF kept
    <3>3. name \in Ids /\ mac \in Ids
      BY <2>2, <2>5
    <3> QED BY <2>5, <3>2, <3>3 DEF Put, IsMap
  <2> HIDE DEF result, node, named, was
  <2>15. Like(merged, result, t, {})
    <3>1. DOMAIN result.nodes = DOMAIN merged.nodes
      BY <2>12
    <3>2. ASSUME NEW n \in DOMAIN merged.nodes
          PROVE  /\ result.nodes[n] \in NodeAt(t)
                 /\ result.nodes[n].ips = merged.nodes[n].ips
                 /\ result.nodes[n].group = merged.nodes[n].group
                 /\ result.nodes[n].seen = merged.nodes[n].seen
                 /\ \/ result.nodes[n].name = merged.nodes[n].name
                    \/ result.nodes[n].name \notin Names \cup Labels
      <4>1. CASE n = mac
        BY <2>10, <2>12, <2>13, <4>1 DEF was
      <4>2. CASE n # mac
        <5>1. result.nodes[n] = merged.nodes[n]
          BY <2>12, <4>2
        <5> QED BY <2>8, <5>1 DEF Hosts, Typed, IsMap
      <4> QED BY <4>1, <4>2
    <3>3. DOMAIN result.macTo = DOMAIN merged.macTo
          /\ \A m \in DOMAIN merged.macTo : result.macTo[m] = merged.macTo[m]
      BY <2>10, <2>12 DEF Put
    <3>4. /\ merged.shared \subseteq MacsBeside /\ IsMap(merged.macTo, Macs, Ids)
          /\ \A m \in MacsBeside \cap DOMAIN merged.nodes : m \in DOMAIN merged.macTo /\ merged.macTo[m] = m
      BY <2>8 DEF Hosts, Typed, Sorted, Keyed
    <3>5. /\ IsMap(result.macTo, Macs, Ids)
          /\ \A m \in MacsBeside \cap DOMAIN merged.nodes : m \in DOMAIN result.macTo /\ result.macTo[m] = m
      BY <3>3, <3>4 DEF IsMap
    <3> QED BY <2>12, <2>14, <3>1, <3>2, <3>4, <3>5 DEF Like
  <2>16. Hosts(result, t, {}) /\ Fresh(result, h, t, {})
    BY <2>8, <2>9, <2>15, LikeHosts
  <2> HIDE DEF stays
  <2> QED BY <1>1, <1>3, <2>16
<1> QED BY <1>2, <1>3

\* Re-keying a node from a gateway's MAC to an address of its own leaves hosts.
LEMMA DemoteHosts ==
  ASSUME LinkLayerApart, NEW gr, NEW t \in Nat, NEW h, NEW mac \in MacsBeside,
         Shape(gr), Counted(gr), Hosts(gr, t, {mac}), Fresh(gr, h, t, {})
  PROVE  Hosts(DemoteMACIdentity(gr, mac), t, {}) /\ Fresh(DemoteMACIdentity(gr, mac), h, t, {})
<1> DEFINE hosts == HostAddrs(gr.nodes[mac].ips)
           new   == IF hosts = <<>> THEN mac ELSE Head(hosts)
           own   == gr.nodes[mac].name
           name  == IF own \in {NoName, mac} THEN new ELSE own
           merged == MergeNodeInto(gr, new, mac, name)
           result == [merged EXCEPT
                        !.nodes[new].name = IF @ \in {NoName, mac} THEN name ELSE @]
<1>1. DemoteMACIdentity(gr, mac) =
        IF mac \notin DOMAIN gr.nodes \/ new = mac THEN gr ELSE result
  BY DEF DemoteMACIdentity
<1>2. CASE mac \notin DOMAIN gr.nodes
  <2>1. Hosts(gr, t, {})
    BY <1>2 DEF Hosts, Keyed
  <2> QED BY <1>1, <1>2, <2>1
<1>3. CASE mac \in DOMAIN gr.nodes
  <2>1. mac \in Ids \ (Labels \cup Addrs \cup Names) /\ ~gr.nodes[mac].group
    BY <1>3 DEF LinkLayerApart, Ids, MacsBeside, Hosts, Sorted, Proper
  <2>2. /\ new \in Addrs \ (Groups \cup Names \cup Labels \cup MacsBeside)
        /\ new \in DOMAIN gr.ipTo /\ gr.ipTo[new] = mac
    BY <1>3, <2>1, HostHasAddress
  <2>3. own \in Ids \cup {NoName} /\ own \notin Names \cup Labels
    BY <1>3, <2>1 DEF Hosts, Typed, IsMap, NodeAt, Sorted, Proper
  <2> HIDE DEF new
  <2>4. new # mac /\ new \in Ids /\ new \notin DOMAIN gr.nodes
    BY <2>1, <2>2 DEF Hosts, Keyed, Ids
  <2>5. name \in Ids \cup {NoName} /\ name \notin Names \cup Labels
    BY <2>2, <2>3, <2>4
  <2> HIDE DEF name
  <2>6. MayMerge(gr, new, mac, name)
    BY <2>1, <2>2, <2>4, <2>5 DEF MayMerge
  <2> HIDE DEF merged
  <2>7. Shape(merged)
    BY <2>4, MergeShape DEF merged
  <2>8. Hosts(merged, t, {}) /\ GraphFolded(gr, merged, new, mac, name, t)
    BY <2>6, MergeHosts DEF merged
  <2>9. Fresh(merged, h, t, {})
    BY <2>4, <2>8, MergeFresh DEF Hosts
  <2>10. new \in DOMAIN merged.nodes
    BY <1>3, <2>4, <2>8 DEF GraphFolded, NodesFolded
  <2>11. DOMAIN merged = Fields /\ merged.nodes[new] \in NodeAt(t)
    BY <2>7, <2>8, <2>10 DEF Shape, Hosts, Typed, IsMap
  <2> DEFINE was == merged.nodes[new]
             node == [was EXCEPT !.name = IF @ \in {NoName, mac} THEN name ELSE @]
  <2>12. /\ result.nodes = [merged.nodes EXCEPT ![new] = node]
         /\ result.edges = merged.edges /\ result.ipTo = merged.ipTo
         /\ result.shared = merged.shared
         /\ result.macTo = merged.macTo /\ result.nameTo = merged.nameTo
    BY <2>11 DEF Fields
  <2>13. /\ node \in NodeAt(t) /\ node.ips = was.ips /\ node.group = was.group /\ node.seen = was.seen
         /\ node.name = was.name \/ node.name \notin Names \cup Labels
    <3>1. was \in NodeAt(t)
      BY <2>11
    <3> HIDE DEF was
    <3> QED BY <2>5, <3>1 DEF NodeAt
  <2> HIDE DEF result, node, was
  <2>14. Like(merged, result, t, {})
    <3>1. ASSUME NEW n \in DOMAIN merged.nodes
          PROVE  /\ result.nodes[n] \in NodeAt(t)
                 /\ result.nodes[n].ips = merged.nodes[n].ips
                 /\ result.nodes[n].group = merged.nodes[n].group
                 /\ result.nodes[n].seen = merged.nodes[n].seen
                 /\ \/ result.nodes[n].name = merged.nodes[n].name
                    \/ result.nodes[n].name \notin Names \cup Labels
      <4>1. CASE n = new
        BY <2>10, <2>12, <2>13, <4>1 DEF was
      <4>2. CASE n # new
        <5>1. result.nodes[n] = merged.nodes[n]
          BY <2>12, <4>2
        <5> QED BY <2>8, <5>1 DEF Hosts, Typed, IsMap
      <4> QED BY <4>1, <4>2
    <3>2. DOMAIN result.nodes = DOMAIN merged.nodes
      BY <2>12
    <3> QED BY <2>8, <2>12, <3>1, <3>2 DEF Like, Hosts, Typed, Sorted, Keyed
  <2>15. Hosts(result, t, {}) /\ Fresh(result, h, t, {})
    BY <2>8, <2>9, <2>14, LikeHosts
  <2> QED BY <1>1, <1>3, <2>4, <2>15
<1> QED BY <1>2, <1>3

-----------------------------------------------------------------------------
(* A packet *)

\* The MAC beside one end of a packet leaves hosts: it re-keys the end's node, which is
\* seen now, or folds into it a host that was silent, or is found to be a gateway's.
LEMMA RecordMACHosts ==
  ASSUME LinkLayerApart, NEW gr, NEW t \in Nat, NEW h, NEW id \in DOMAIN gr.nodes, NEW mac,
         GraphInv(gr), Counted(gr), Hosts(gr, t, {}), Fresh(gr, h, t, {}),
         gr.nodes[id].seen = t, mac \in Macs => mac \in MacsBeside
  PROVE  Hosts(RecordMAC(gr, id, mac, t), t, {}) /\ Fresh(RecordMAC(gr, id, mac, t), h, t, {})
<1> DEFINE noted  == [gr EXCEPT !.nodes[id].macs = @ \cup {mac}]
           anchor == gr.macTo[mac]
           Anchored(k) == PromoteNodeIDToMAC([k EXCEPT !.macTo = Put(@, mac, id)], id, mac)
           Free   == mac \in DOMAIN gr.macTo => anchor = id \/ anchor \notin DOMAIN gr.nodes
           gateway == [noted EXCEPT !.shared = @ \cup {mac}, !.macTo = Without(@, {mac})]
           moved   == MergeNodeInto(noted, id, anchor, gr.nodes[id].name)
           result == RecordMAC(gr, id, mac, t)
<1>1. result =
        IF mac \notin Macs THEN gr
        ELSE IF mac \in gr.shared THEN noted
        ELSE IF Free THEN Anchored(noted)
        ELSE IF t - gr.nodes[anchor].seen < MacWindow
             THEN DemoteMACIdentity(gateway, mac)
             ELSE Anchored(moved)
  BY DEF RecordMAC
<1>2. CASE mac \notin Macs
  BY <1>1, <1>2
<1>3. CASE mac \in Macs
  <2>0. mac \in MacsBeside
    BY <1>3
  <2>1. DOMAIN gr = Fields /\ gr.nodes[id] \in NodeAt(t)
        /\ \A n \in DOMAIN gr.nodes : DOMAIN gr.nodes[n] = NodeFields /\ gr.nodes[n] \in NodeAt(t)
    BY DEF GraphInv, Shape, Hosts, Typed, IsMap
  <2>2. /\ DOMAIN noted = Fields
        /\ noted.edges = gr.edges /\ noted.ipTo = gr.ipTo /\ noted.nameTo = gr.nameTo
        /\ noted.shared = gr.shared /\ noted.macTo = gr.macTo /\ noted.folded = gr.folded
        /\ DOMAIN noted.nodes = DOMAIN gr.nodes
        /\ \A n \in DOMAIN gr.nodes : n # id => noted.nodes[n] = gr.nodes[n]
        /\ noted.nodes[id] = [gr.nodes[id] EXCEPT !.macs = @ \cup {mac}]
    BY <2>1 DEF Fields
  <2>3. gateway = [noted EXCEPT !.shared = @ \cup {mac}, !.macTo = Without(@, {mac})]
    OBVIOUS
  <2> HIDE DEF noted, gateway
  <2>4. /\ noted.nodes[id] \in NodeAt(t) /\ DOMAIN noted.nodes[id] = NodeFields
        /\ noted.nodes[id].ips = gr.nodes[id].ips /\ noted.nodes[id].group = gr.nodes[id].group
        /\ noted.nodes[id].seen = t /\ noted.nodes[id].name = gr.nodes[id].name
        /\ noted.nodes[id].packets = gr.nodes[id].packets
    BY <1>3, <2>1, <2>2 DEF NodeAt, NodeFields
  <2>5. Shape(noted)
    BY <2>1, <2>2, <2>4 DEF Shape
  <2>6. Counted(noted)
    BY <2>2, <2>4, CountsStay DEF Counts
  <2>7. /\ gr.shared \subseteq MacsBeside /\ IsMap(gr.macTo, Macs, Ids) /\ IsMap(gr.nameTo, Ids, Ids)
        /\ \A x \in (Names \cup Labels) \cap DOMAIN gr.nameTo : gr.nameTo[x] = x
        /\ \A m \in MacsBeside \cap DOMAIN gr.nodes : m \in DOMAIN gr.macTo /\ gr.macTo[m] = m
    BY DEF Hosts, Typed, Sorted, Keyed
  <2>8. Hosts(noted, t, {}) /\ Fresh(noted, h, t, {})
    <3>1. Like(gr, noted, t, {})
      BY <2>1, <2>2, <2>4, <2>7 DEF Like
    <3> QED BY <3>1, LikeHosts
  <2>9. ASSUME NEW k, Shape(k), Counted(k), Hosts(k, t, {}), Fresh(k, h, t, {}),
               id \in DOMAIN k.nodes, mac \in DOMAIN k.macTo => k.macTo[mac] = id
        PROVE  Hosts(Anchored(k), t, {}) /\ Fresh(Anchored(k), h, t, {})
    <3> DEFINE m == [k EXCEPT !.macTo = Put(@, mac, id)]
    <3>1. /\ DOMAIN m = Fields
          /\ m.edges = k.edges /\ m.nodes = k.nodes /\ m.ipTo = k.ipTo /\ m.nameTo = k.nameTo
          /\ m.shared = k.shared /\ m.macTo = Put(k.macTo, mac, id) /\ m.folded = k.folded
      BY <2>9 DEF Shape, Fields
    <3>2. Anchored(k) = PromoteNodeIDToMAC(m, id, mac)
      OBVIOUS
    <3> HIDE DEF m, Anchored
    <3>3. Shape(m) /\ Counted(m)
      BY <2>9, <3>1 DEF Shape, Counted
    <3>4. Like(k, m, t, {})
      <4>1. /\ k.shared \subseteq MacsBeside /\ IsMap(k.macTo, Macs, Ids) /\ IsMap(k.nameTo, Ids, Ids)
            /\ \A x \in (Names \cup Labels) \cap DOMAIN k.nameTo : k.nameTo[x] = x
            /\ \A n \in MacsBeside \cap DOMAIN k.nodes : n \in DOMAIN k.macTo /\ k.macTo[n] = n
            /\ \A n \in DOMAIN k.nodes : n \in Ids /\ k.nodes[n] \in NodeAt(t)
        BY <2>9 DEF Hosts, Typed, Sorted, Keyed, IsMap
      <4>2. /\ DOMAIN m.macTo = DOMAIN k.macTo \cup {mac} /\ m.macTo[mac] = id
            /\ \A n \in DOMAIN k.macTo : n # mac => m.macTo[n] = k.macTo[n]
        BY <3>1 DEF Put
      <4>3. IsMap(m.macTo, Macs, Ids)
        BY <1>3, <2>9, <4>1, <4>2 DEF IsMap
      <4>4. \A n \in MacsBeside \cap DOMAIN k.nodes : n \in DOMAIN m.macTo /\ m.macTo[n] = n
        BY <2>9, <4>1, <4>2
      <4> QED BY <3>1, <4>1, <4>3, <4>4 DEF Like
    <3>5. Hosts(m, t, {}) /\ Fresh(m, h, t, {})
      BY <2>9, <3>4, LikeHosts
    <3>6. mac \in DOMAIN m.macTo /\ m.macTo[mac] = id
      BY <3>1 DEF Put
    <3>7. id \in DOMAIN m.nodes
      BY <2>9, <3>1
    <3> QED BY <2>0, <3>2, <3>3, <3>5, <3>6, <3>7, PromoteHosts
  <2>10. CASE mac \in gr.shared
    BY <1>1, <1>3, <2>8, <2>10
  <2>11. CASE mac \notin gr.shared /\ Free
    <3>1. mac \in DOMAIN noted.macTo => noted.macTo[mac] = id
      BY <2>2, <2>11 DEF GraphInv, Anchors
    <3>2. Hosts(Anchored(noted), t, {}) /\ Fresh(Anchored(noted), h, t, {})
      BY <2>2, <2>5, <2>6, <2>8, <2>9, <3>1
    <3> HIDE DEF Anchored, Free
    <3> QED BY <1>1, <1>3, <2>11, <3>2
  <2>12. CASE mac \notin gr.shared /\ ~Free
    <3>1. mac \in DOMAIN gr.macTo /\ anchor # id /\ anchor \in DOMAIN gr.nodes
      BY <2>12
    <3>2. Hosts(DemoteMACIdentity(gateway, mac), t, {})
          /\ Fresh(DemoteMACIdentity(gateway, mac), h, t, {})
      <4>1. /\ DOMAIN gateway = Fields
            /\ gateway.edges = noted.edges /\ gateway.nodes = noted.nodes
            /\ gateway.ipTo = noted.ipTo /\ gateway.nameTo = noted.nameTo
            /\ gateway.folded = noted.folded
            /\ gateway.shared = noted.shared \cup {mac}
            /\ gateway.macTo = Without(noted.macTo, {mac})
        BY <2>2, <2>3 DEF Fields
      <4>2. Shape(gateway) /\ Counted(gateway)
        BY <2>5, <2>6, <4>1 DEF Shape, Counted
      <4>3. Like(noted, gateway, t, {mac})
        <5>1. /\ DOMAIN gateway.macTo = DOMAIN gr.macTo \ {mac}
              /\ \A m \in DOMAIN gr.macTo \ {mac} : gateway.macTo[m] = gr.macTo[m]
          BY <2>2, <4>1 DEF Without
        <5>2. \A n \in DOMAIN noted.nodes : noted.nodes[n] \in NodeAt(t)
          BY <2>1, <2>2, <2>4
        <5>3. IsMap(gateway.macTo, Macs, Ids)
          BY <2>7, <5>1 DEF IsMap
        <5> QED BY <2>0, <2>2, <2>7, <4>1, <5>1, <5>2, <5>3 DEF Like
      <4>4. Hosts(gateway, t, {mac}) /\ Fresh(gateway, h, t, {})
        BY <2>8, <4>3, LikeHosts
      <4> QED BY <2>0, <4>2, <4>4, DemoteHosts
    <3>3. Hosts(Anchored(moved), t, {}) /\ Fresh(Anchored(moved), h, t, {})
      <4> DEFINE name == gr.nodes[id].name
      <4>1. moved = MergeNodeInto(noted, id, anchor, name)
        OBVIOUS
      <4>2. MayMerge(noted, id, anchor, name)
        <5>1. id \in Ids /\ name \in Ids \cup {NoName}
          BY <2>1 DEF NodeAt, Hosts, Typed, IsMap
        <5>2. id \in Addrs => id \in DOMAIN noted.ipTo /\ noted.ipTo[id] = id
          BY <2>2 DEF Hosts, Keyed
        <5>3. id \in MacsBeside => id \in DOMAIN noted.macTo /\ noted.macTo[id] = id
          BY <2>2, <2>7
        <5> HIDE DEF name, anchor
        <5> QED BY <2>2, <3>1, <5>1, <5>2, <5>3 DEF MayMerge
      <4> HIDE DEF name, anchor, moved
      <4>3. Shape(moved) /\ Counted(moved)
        BY <2>5, <2>6, <3>1, <4>1, MergeShape, MergeCounts DEF Counts
      <4>4. Hosts(moved, t, {}) /\ GraphFolded(noted, moved, id, anchor, name, t)
        BY <2>5, <2>6, <2>8, <4>1, <4>2, MergeHosts
      <4>5. Fresh(moved, h, t, {})
        BY <2>4, <2>8, <3>1, <4>4, MergeFresh DEF Hosts
      <4>6. id \in DOMAIN moved.nodes
        BY <2>2, <3>1, <4>4 DEF GraphFolded, NodesFolded
      <4>7. moved.macTo[mac] = id
        BY <2>2, <3>1, <4>4 DEF GraphFolded, Repointed, anchor
      <4> HIDE DEF Anchored
      <4> QED BY <2>9, <4>3, <4>4, <4>5, <4>6, <4>7
    <3> HIDE DEF Anchored, Free, moved, anchor
    <3> QED BY <1>1, <1>3, <2>12, <3>2, <3>3
  <2> QED BY <2>10, <2>11, <2>12
<1> HIDE DEF result
<1> QED BY <1>2, <1>3 DEF result

\* An address leads to a node seen now.
LandsNow(gr, a, t) ==
  /\ a \in DOMAIN gr.ipTo /\ gr.ipTo[a] \in DOMAIN gr.nodes
  /\ gr.nodes[gr.ipTo[a]].seen = t

\* An address heard now leads to a node seen now.
LEMMA HeardNow ==
  ASSUME NEW gr, NEW t \in Nat, NEW h, NEW a \in DOMAIN h, h[a] = t, Hosts(gr, t, {}), Fresh(gr, h, t, {})
  PROVE  LandsNow(gr, a, t)
<1>1. h[a] + Threshold >= t
  BY GraphAssumption
<1>2. a \in DOMAIN gr.ipTo /\ gr.ipTo[a] \in DOMAIN gr.nodes /\ h[a] <= gr.nodes[gr.ipTo[a]].seen
  BY <1>1 DEF Fresh, Recent
<1>3. gr.nodes[gr.ipTo[a]].seen \in 0 .. t
  BY <1>2 DEF Hosts, Typed, IsMap, NodeAt
<1> QED BY <1>2, <1>3 DEF LandsNow

\* The edge of a packet leaves hosts.
LEMMA AddOrUpdateEdgeHosts ==
  ASSUME NEW gr, NEW t \in Nat, NEW h, NEW src, NEW dst, Shape(gr),
         Hosts(gr, t, {}), Fresh(gr, h, t, {}), LandsNow(gr, src, t), LandsNow(gr, dst, t)
  PROVE  LET R == AddOrUpdateEdge(gr, src, dst, t)
         IN  Hosts(R, t, {}) /\ Fresh(R, h, t, {})
<1> DEFINE from == Resolve(gr.ipTo, src)
           to   == Resolve(gr.ipTo, dst)
           e    == {from, to}
           isForward == Rank[from] <= Rank[to]
           was  == IF e \in DOMAIN gr.edges THEN gr.edges[e] ELSE [fwd |-> 0, rev |-> 0, seen |-> t]
           v    == [fwd  |-> was.fwd + (IF isForward THEN 1 ELSE 0),
                    rev  |-> was.rev + (IF isForward THEN 0 ELSE 1),
                    seen |-> t]
           R    == AddOrUpdateEdge(gr, src, dst, t)
<1>1. /\ R.nodes = gr.nodes /\ R.ipTo = gr.ipTo /\ R.nameTo = gr.nameTo /\ R.macTo = gr.macTo
      /\ R.shared = gr.shared
      /\ R.edges = Put(gr.edges, e, v)
  BY DEF AddOrUpdateEdge, Shape, Fields
<1>2. from = gr.ipTo[src] /\ to = gr.ipTo[dst]
  BY DEF Resolve, LandsNow
<1>3. v \in EdgeAt(t) /\ v.seen = t
  <2>1. was \in EdgeAt(t)
    BY DEF Hosts, Typed, IsMap, EdgeAt
  <2>2. was.fwd \in Nat /\ was.rev \in Nat
    BY <2>1 DEF EdgeAt
  <2> HIDE DEF was, isForward
  <2> QED BY <2>2 DEF EdgeAt
<1> HIDE DEF from, to, v, R
<1>4. e \in EdgeIds
  <2>1. from \in Ids /\ to \in Ids
    BY <1>2 DEF LandsNow, Hosts, Typed, IsMap
  <2> QED BY <2>1 DEF EdgeIds
<1>5. \A n \in e : n \in DOMAIN gr.nodes /\ gr.nodes[n].seen = t
  BY <1>2 DEF LandsNow
<1>6. /\ DOMAIN R.edges = DOMAIN gr.edges \cup {e} /\ R.edges[e] = v
      /\ \A x \in DOMAIN gr.edges : x # e => R.edges[x] = gr.edges[x]
  BY <1>1 DEF Put
<1> HIDE DEF e
<1>7. Hosts(R, t, {})
  <2>1. IsMap(R.edges, EdgeIds, EdgeAt(t))
    BY <1>3, <1>4, <1>6 DEF Hosts, Typed, IsMap
  <2>2. Typed(R, t)
    BY <1>1, <2>1 DEF Hosts, Typed
  <2>3. Sorted(R) /\ Listed(R) /\ Keyed(R, {})
    BY <1>1 DEF Hosts, Sorted, Listed, Keyed
  <2> QED BY <2>2, <2>3 DEF Hosts
<1>8. Fresh(R, h, t, {})
  <2>1. Lasting(R, t, {})
    <3> SUFFICES ASSUME NEW x \in DOMAIN R.edges, ~(R.edges[x].seen + Threshold < t), NEW n \in x
                 PROVE  n \in DOMAIN gr.nodes /\ R.edges[x].seen <= gr.nodes[n].seen
      BY <1>1 DEF Lasting
    <3>1. CASE x = e
      BY <1>3, <1>5, <1>6, <3>1
    <3>2. CASE x # e
      BY <1>6, <3>2 DEF Fresh, Lasting
    <3> QED BY <3>1, <3>2
  <2>2. Recent(R, h, t, {})
    BY <1>1 DEF Fresh, Recent
  <2> QED BY <2>1, <2>2 DEF Fresh
<1> QED BY <1>7, <1>8 DEF R

\* A packet leaves hosts.
LEMMA IngestedHosts ==
  ASSUME LinkLayerApart, NEW gr, NEW p \in Packets, NEW t \in Nat, NEW h, GraphInv(gr), Counted(gr),
         Hosts(gr, t, {}), Fresh(gr, h, t, {})
  PROVE  /\ Hosts(Ingested(gr, p, t), t, {})
         /\ Fresh(Ingested(gr, p, t), Put(Put(h, p.src, t), p.dst, t), t, {})
<1> DEFINE first == AddOrUpdateNode(gr, p.src, p.srcName, t)
           ends  == AddOrUpdateNode(first, p.dst, p.dstName, t)
           src   == RecordMAC(ends, ends.ipTo[p.src], p.srcMAC, t)
           dst   == RecordMAC(src, src.ipTo[p.dst], p.dstMAC, t)
           all   == AddOrUpdateEdge(dst, p.src, p.dst, t)
           k     == Put(Put(h, p.src, t), p.dst, t)
<1>0. Ingested(gr, p, t) = all
  BY Zenon DEF Ingested
<1>1. /\ p.src \in Addrs /\ p.dst \in Addrs
      /\ p.srcName \in Names \cup {p.src, NoName} /\ p.dstName \in Names \cup {p.dst, NoName}
      /\ p.srcMAC \in Macs => p.srcMAC \in MacsBeside
      /\ p.dstMAC \in Macs => p.dstMAC \in MacsBeside
  BY GraphAssumption DEF LinkLayerApart, MacsBeside
<1>2. /\ GraphInv(first) /\ Counted(first)
      /\ Hosts(first, t, {}) /\ Fresh(first, Put(h, p.src, t), t, {})
  BY <1>1, AddOrUpdateNodeKeeps, AddOrUpdateNodeCounts, AddOrUpdateNodeHosts DEF Counts
<1> HIDE DEF first
<1>3. /\ GraphInv(ends) /\ Counted(ends) /\ Hosts(ends, t, {}) /\ Fresh(ends, k, t, {})
  BY <1>1, <1>2, AddOrUpdateNodeKeeps, AddOrUpdateNodeCounts, AddOrUpdateNodeHosts DEF Counts
<1>4. p.src \in DOMAIN k /\ k[p.src] = t /\ p.dst \in DOMAIN k /\ k[p.dst] = t
  BY DEF Put
<1> HIDE DEF ends, k
<1>6. LandsNow(ends, p.src, t)
  BY <1>3, <1>4, HeardNow
<1>7. GraphInv(src) /\ Counted(src) /\ Hosts(src, t, {}) /\ Fresh(src, k, t, {})
  <2> DEFINE id == ends.ipTo[p.src]
  <2>1. id \in DOMAIN ends.nodes /\ ends.nodes[id].seen = t
    BY <1>6 DEF LandsNow
  <2>2. src = RecordMAC(ends, id, p.srcMAC, t)
    OBVIOUS
  <2> HIDE DEF id, src
  <2>3. GraphInv(src)
    BY <1>3, <2>2, RecordMACKeeps
  <2>4. Counted(src)
    BY <1>3, <2>2, RecordMACCounts DEF Counts, GraphInv
  <2>5. Hosts(src, t, {}) /\ Fresh(src, k, t, {})
    BY <1>1, <1>3, <2>1, <2>2, RecordMACHosts
  <2> QED BY <2>3, <2>4, <2>5
<1> HIDE DEF src
<1>8. LandsNow(src, p.dst, t)
  BY <1>4, <1>7, HeardNow
<1>9. GraphInv(dst) /\ Hosts(dst, t, {}) /\ Fresh(dst, k, t, {})
  <2> DEFINE id == src.ipTo[p.dst]
  <2>1. id \in DOMAIN src.nodes /\ src.nodes[id].seen = t
    BY <1>8 DEF LandsNow
  <2>2. dst = RecordMAC(src, id, p.dstMAC, t)
    OBVIOUS
  <2> HIDE DEF id, dst
  <2>3. GraphInv(dst)
    BY <1>7, <2>2, RecordMACKeeps
  <2>4. Hosts(dst, t, {}) /\ Fresh(dst, k, t, {})
    BY <1>1, <1>7, <2>1, <2>2, RecordMACHosts
  <2> QED BY <2>3, <2>4
<1> HIDE DEF dst
<1>10. LandsNow(dst, p.src, t) /\ LandsNow(dst, p.dst, t)
  BY <1>4, <1>9, HeardNow
<1>11. Hosts(all, t, {}) /\ Fresh(all, k, t, {})
  BY <1>9, <1>10, AddOrUpdateEdgeHosts DEF GraphInv
<1> HIDE DEF all
<1> QED BY <1>0, <1>11 DEF k

-----------------------------------------------------------------------------
(* The system: addresses first, whatever the endpoints *)

\* The nodes decay takes were silent for longer than the threshold.
LEMMA GoneAreSilent ==
  \A n \in StalestNodes : n \in DOMAIN g.nodes /\ now - g.nodes[n].seen > Threshold
  BY DEF StalestNodes, StaleNodes

\* Every value has its type, and an address in a node's list leads to that node.
SoundInv ==
  /\ now \in 0 .. MaxTime /\ sweep \in {"idle", "edges"}
  /\ ledger \in [packets : 0 .. MaxPackets, nodes : Nat, edges : Nat]
  /\ IsMap(heard, Addrs, 0 .. now)
  /\ Sound(g, now)

\* The empty graph has nothing that could be wrong.
LEMMA InitSound == Init => SoundInv
<1> SUFFICES ASSUME Init PROVE SoundInv
  OBVIOUS
<1>1. /\ g.nodes = Empty /\ g.edges = Empty /\ g.ipTo = Empty /\ g.nameTo = Empty
      /\ g.macTo = Empty /\ g.shared = {} /\ heard = Empty
      /\ now = 0 /\ sweep = "idle" /\ ledger = [packets |-> 0, nodes |-> 0, edges |-> 0]
  BY DEF Init
<1>2. DOMAIN Empty = {}
  BY DEF Empty
<1>3. Sound(g, now)
  BY <1>1, <1>2 DEF Sound, Typed, Listed, IsMap
<1>4. now \in 0 .. MaxTime /\ ledger \in [packets : 0 .. MaxPackets, nodes : Nat, edges : Nat]
  BY <1>1, GraphAssumption
<1>5. IsMap(heard, Addrs, 0 .. now)
  BY <1>1, <1>2 DEF IsMap
<1> QED BY <1>1, <1>3, <1>4, <1>5 DEF SoundInv

\* A packet keeps it.
LEMMA IngestSound ==
  ASSUME GraphInv(g), LedgerInv, SoundInv, Ingest
  PROVE  SoundInv'
<1>1. PICK p \in Packets :
        /\ ledger.packets < MaxPackets
        /\ g' = Ingested(g, p, now) /\ heard' = Put(Put(heard, p.src, now), p.dst, now)
        /\ ledger' = [ledger EXCEPT !.packets = @ + 1]
        /\ now' = now /\ sweep' = sweep
  BY DEF Ingest
<1>2. now \in Nat /\ now \in 0 .. now
  BY DEF SoundInv
<1>3. Sound(g', now')
  BY <1>1, <1>2, IngestedSound DEF SoundInv, LedgerInv
<1>4. ledger' \in [packets : 0 .. MaxPackets, nodes : Nat, edges : Nat]
  <2>1. ledger \in [packets : 0 .. MaxPackets, nodes : Nat, edges : Nat]
    BY DEF SoundInv
  <2>2. ledger.packets + 1 \in 0 .. MaxPackets
    BY <1>1, <2>1, GraphAssumption
  <2> QED BY <1>1, <2>1, <2>2
<1>5. IsMap(heard', Addrs, 0 .. now')
  <2>1. p.src \in Addrs /\ p.dst \in Addrs
    BY GraphAssumption
  <2> QED BY <1>1, <1>2, <2>1 DEF SoundInv, IsMap, Put
<1> QED BY <1>1, <1>3, <1>4, <1>5 DEF SoundInv

\* So does a sweep of nodes, which takes the addresses they list along.
LEMMA NodeSweepSound ==
  ASSUME GraphInv(g), LedgerInv, SoundInv, RemoveStaleNodes
  PROVE  SoundInv'
<1> DEFINE gone  == StalestNodes
           addrs == UNION {Elements(g.nodes[n].ips) : n \in gone}
           names == gone \cup {g.nodes[n].name : n \in gone}
           macs  == {m \in DOMAIN g.macTo :
                       g.macTo[m] \in gone /\ m \in g.nodes[g.macTo[m]].macs}
           sum   == MapThenSumSet(LAMBDA n : g.nodes[n].packets, gone)
<1>1. /\ g' = [g EXCEPT !.nodes  = Without(@, gone), !.ipTo  = Without(@, addrs),
                       !.nameTo = Without(@, names), !.macTo = Without(@, macs)]
      /\ sweep' = "edges" /\ now' = now /\ heard' = heard
  BY DEF RemoveStaleNodes
<1>2. ledger' = [ledger EXCEPT !.nodes = @ + sum]
  BY DEF RemoveStaleNodes
<1>3. Typed(g, now) /\ Listed(g)
  BY DEF SoundInv, Sound
<1>4. \A n \in gone : n \in DOMAIN g.nodes
  BY GoneAreSilent
<1>5. \A a \in addrs : a \in DOMAIN g.ipTo /\ g.ipTo[a] \in gone
  BY <1>3, <1>4 DEF Listed
<1> HIDE DEF gone, addrs, names, macs, sum
<1>6. /\ g'.nodes = Without(g.nodes, gone) /\ g'.ipTo = Without(g.ipTo, addrs)
      /\ g'.nameTo = Without(g.nameTo, names) /\ g'.macTo = Without(g.macTo, macs)
      /\ g'.edges = g.edges /\ g'.shared = g.shared
  BY <1>1 DEF GraphInv, Shape, Fields
<1>7. /\ DOMAIN g'.nodes = DOMAIN g.nodes \ gone /\ \A n \in DOMAIN g'.nodes : g'.nodes[n] = g.nodes[n]
      /\ DOMAIN g'.ipTo = DOMAIN g.ipTo \ addrs /\ \A a \in DOMAIN g'.ipTo : g'.ipTo[a] = g.ipTo[a]
      /\ DOMAIN g'.nameTo \subseteq DOMAIN g.nameTo
      /\ \A x \in DOMAIN g'.nameTo : g'.nameTo[x] = g.nameTo[x]
      /\ DOMAIN g'.macTo \subseteq DOMAIN g.macTo /\ \A m \in DOMAIN g'.macTo : g'.macTo[m] = g.macTo[m]
  BY <1>6 DEF Without
<1>8. Typed(g', now)
  BY <1>3, <1>6, <1>7 DEF Typed, IsMap
<1>9. Listed(g')
  BY <1>3, <1>5, <1>7 DEF Listed
<1>10. ledger' \in [packets : 0 .. MaxPackets, nodes : Nat, edges : Nat]
  <2>1. ledger \in [packets : 0 .. MaxPackets, nodes : Nat, edges : Nat]
    BY DEF SoundInv
  <2>2. ledger'.nodes \in Nat
    BY DecayLedger DEF LedgerInv
  <2> QED BY <1>2, <2>1, <2>2
<1> QED BY <1>1, <1>8, <1>9, <1>10 DEF SoundInv, Sound

\* And a sweep of edges.
LEMMA EdgeSweepSound ==
  ASSUME GraphInv(g), LedgerInv, SoundInv, RemoveStaleEdges
  PROVE  SoundInv'
<1> DEFINE gone == StalestEdges
           sum  == MapThenSumSet(LAMBDA e : g.edges[e].fwd + g.edges[e].rev, gone)
<1>1. /\ g' = [g EXCEPT !.edges = Without(@, gone), !.adj = Unindexed(@, gone)]
      /\ sweep' = "idle" /\ now' = now /\ heard' = heard
  BY DEF RemoveStaleEdges
<1>2. ledger' = [ledger EXCEPT !.edges = @ + sum]
  BY DEF RemoveStaleEdges
<1> HIDE DEF gone, sum
<1>3. /\ g'.nodes = g.nodes /\ g'.ipTo = g.ipTo /\ g'.nameTo = g.nameTo /\ g'.macTo = g.macTo
      /\ g'.shared = g.shared /\ g'.edges = Without(g.edges, gone)
  BY <1>1 DEF GraphInv, Shape, Fields
<1>4. DOMAIN g'.edges \subseteq DOMAIN g.edges /\ \A e \in DOMAIN g'.edges : g'.edges[e] = g.edges[e]
  BY <1>3 DEF Without
<1>5. Sound(g', now')
  BY <1>1, <1>3, <1>4 DEF SoundInv, Sound, Typed, Listed, IsMap
<1>6. ledger' \in [packets : 0 .. MaxPackets, nodes : Nat, edges : Nat]
  <2>1. ledger \in [packets : 0 .. MaxPackets, nodes : Nat, edges : Nat]
    BY DEF SoundInv
  <2>2. ledger'.edges \in Nat
    BY DecayLedger DEF LedgerInv
  <2> QED BY <1>2, <2>1, <2>2
<1> QED BY <1>1, <1>5, <1>6 DEF SoundInv

\* And time passing.
LEMMA TickSound ==
  ASSUME SoundInv, Tick
  PROVE  SoundInv'
<1>1. /\ now' = now + 1 /\ now < MaxTime /\ g' = g /\ heard' = heard /\ sweep' = sweep /\ ledger' = ledger
      /\ now \in 0 .. MaxTime
  BY DEF Tick, SoundInv
<1>2. (\A s \in 0 .. now : s \in 0 .. now + 1) /\ now' \in 0 .. MaxTime
  BY <1>1, GraphAssumption
<1>3. NodeAt(now) \subseteq NodeAt(now + 1) /\ EdgeAt(now) \subseteq EdgeAt(now + 1)
  BY <1>2 DEF NodeAt, EdgeAt
<1>4. Sound(g', now')
  BY <1>1, <1>3 DEF SoundInv, Sound, Typed, Listed, IsMap
<1> QED BY <1>1, <1>2, <1>4 DEF SoundInv, IsMap

\* Whatever the packets, merges, promotions, demotions and sweeps, and whatever is an
\* endpoint, no value loses its type and no listed address its node (graph.go:270-372,
\* 573-720; decay.go).
THEOREM SoundInvariant == Spec => []SoundInv
<1>1. Init => SoundInv
  BY InitSound
<1>2. IInv /\ LedgerInv /\ SoundInv /\ [Next]_vars => SoundInv'
  <2> SUFFICES ASSUME IInv, LedgerInv, SoundInv, [Next]_vars PROVE SoundInv'
    OBVIOUS
  <2>1. GraphInv(g)
    BY DEF IInv
  <2>2. CASE Ingest
    BY <2>1, <2>2, IngestSound
  <2>3. CASE RemoveStaleNodes
    BY <2>1, <2>3, NodeSweepSound
  <2>4. CASE RemoveStaleEdges
    BY <2>1, <2>4, EdgeSweepSound
  <2>5. CASE Tick
    BY <2>5, TickSound
  <2>6. CASE UNCHANGED vars
    BY <2>6 DEF vars, SoundInv
  <2> QED BY <2>2, <2>3, <2>4, <2>5, <2>6 DEF Next
<1> QED BY <1>1, <1>2, GraphInvariant, LedgerInvariant, PTL DEF Spec

-----------------------------------------------------------------------------
(* The system while link-layer endpoints are apart *)

HostsInv == now \in 0 .. MaxTime /\ Hosts(g, now, {}) /\ Fresh(g, heard, now, {})

\* The empty graph has no host to be wrong about.
LEMMA InitHosts == Init => HostsInv
<1> SUFFICES ASSUME Init PROVE HostsInv
  OBVIOUS
<1>1. /\ g.nodes = Empty /\ g.edges = Empty /\ g.ipTo = Empty /\ g.nameTo = Empty
      /\ g.macTo = Empty /\ g.shared = {} /\ heard = Empty /\ now = 0
  BY DEF Init
<1>2. DOMAIN Empty = {}
  BY DEF Empty
<1>3. Hosts(g, now, {})
  BY <1>1, <1>2 DEF Hosts, Typed, Sorted, Listed, Keyed, IsMap
<1>4. Fresh(g, heard, now, {})
  BY <1>1, <1>2 DEF Fresh, Lasting, Recent, IsMap
<1>5. now \in 0 .. MaxTime
  BY <1>1, GraphAssumption
<1> QED BY <1>3, <1>4, <1>5 DEF HostsInv

\* A packet keeps it.
LEMMA IngestHosts ==
  ASSUME LinkLayerApart, GraphInv(g), LedgerInv, HostsInv, Ingest
  PROVE  HostsInv'
<1>1. PICK p \in Packets :
        /\ g' = Ingested(g, p, now) /\ heard' = Put(Put(heard, p.src, now), p.dst, now)
        /\ now' = now
  BY DEF Ingest
<1>2. now \in Nat
  BY DEF HostsInv
<1>3. Hosts(g', now', {}) /\ Fresh(g', heard', now', {})
  BY <1>1, <1>2, IngestedHosts DEF HostsInv, LedgerInv
<1> QED BY <1>1, <1>3 DEF HostsInv

\* A sweep of nodes keeps it: what it takes was silent, so that no heard address and no
\* live edge leads to it, and takes the index entries that lead to it along.
LEMMA NodeSweepHosts ==
  ASSUME GraphInv(g), HostsInv, RemoveStaleNodes
  PROVE  HostsInv'
<1> DEFINE gone  == StalestNodes
           addrs == UNION {Elements(g.nodes[n].ips) : n \in gone}
           names == gone \cup {g.nodes[n].name : n \in gone}
           macs  == {m \in DOMAIN g.macTo :
                       g.macTo[m] \in gone /\ m \in g.nodes[g.macTo[m]].macs}
<1>1. /\ g' = [g EXCEPT !.nodes  = Without(@, gone), !.ipTo  = Without(@, addrs),
                       !.nameTo = Without(@, names), !.macTo = Without(@, macs)]
      /\ now' = now /\ heard' = heard
  BY DEF RemoveStaleNodes
<1>3. Typed(g, now) /\ Sorted(g) /\ Listed(g) /\ Keyed(g, {}) /\ Fresh(g, heard, now, {})
      /\ now \in 0 .. MaxTime
  BY DEF HostsInv, Hosts
<1>4. \A n \in gone : n \in DOMAIN g.nodes /\ now - g.nodes[n].seen > Threshold
  BY GoneAreSilent
<1>5. \A a \in addrs : a \in DOMAIN g.ipTo /\ g.ipTo[a] \in gone
  BY <1>3, <1>4 DEF Listed
<1>6. \A m \in macs : g.macTo[m] \in gone
  OBVIOUS
<1> HIDE DEF gone, addrs, names, macs
<1>7. /\ g'.nodes = Without(g.nodes, gone) /\ g'.ipTo = Without(g.ipTo, addrs)
      /\ g'.nameTo = Without(g.nameTo, names) /\ g'.macTo = Without(g.macTo, macs)
      /\ g'.edges = g.edges /\ g'.shared = g.shared
  BY <1>1 DEF GraphInv, Shape, Fields
<1>8. /\ DOMAIN g'.nodes = DOMAIN g.nodes \ gone /\ \A n \in DOMAIN g'.nodes : g'.nodes[n] = g.nodes[n]
      /\ DOMAIN g'.ipTo = DOMAIN g.ipTo \ addrs /\ \A a \in DOMAIN g'.ipTo : g'.ipTo[a] = g.ipTo[a]
      /\ DOMAIN g'.nameTo \subseteq DOMAIN g.nameTo
      /\ \A x \in DOMAIN g'.nameTo : g'.nameTo[x] = g.nameTo[x]
      /\ DOMAIN g'.macTo = DOMAIN g.macTo \ macs /\ \A m \in DOMAIN g'.macTo : g'.macTo[m] = g.macTo[m]
  BY <1>7 DEF Without
<1>9. Typed(g', now)
  BY <1>3, <1>7, <1>8 DEF Typed, IsMap
<1>10. Sorted(g')
  BY <1>3, <1>7, <1>8 DEF Sorted
<1>11. Listed(g')
  BY <1>3, <1>5, <1>8 DEF Listed
<1>12. Keyed(g', {})
  BY <1>3, <1>5, <1>6, <1>8 DEF Keyed
<1>13. ASSUME NEW n \in DOMAIN g.nodes, NEW s \in 0 .. now, s <= g.nodes[n].seen,
              ~(s + Threshold < now)
       PROVE  n \in DOMAIN g'.nodes /\ g'.nodes[n] = g.nodes[n]
  <2>1. g.nodes[n].seen \in 0 .. now
    BY <1>3 DEF Typed, IsMap, NodeAt
  <2>2. ~(now - g.nodes[n].seen > Threshold)
    BY <1>3, <1>13, <2>1, GraphAssumption
  <2> QED BY <1>4, <1>8, <2>2
<1>14. Lasting(g', now, {})
  <2> SUFFICES ASSUME NEW e \in DOMAIN g.edges, ~(g.edges[e].seen + Threshold < now), NEW n \in e
               PROVE  n \in DOMAIN g'.nodes /\ g.edges[e].seen <= g'.nodes[n].seen
    BY <1>7 DEF Lasting
  <2>1. n \in DOMAIN g.nodes /\ g.edges[e].seen <= g.nodes[n].seen
    BY <1>3 DEF Fresh, Lasting
  <2>2. g.edges[e].seen \in 0 .. now
    BY <1>3 DEF Typed, IsMap, EdgeAt
  <2> QED BY <1>13, <2>1, <2>2
<1>15. Recent(g', heard, now, {})
  <2> SUFFICES ASSUME NEW a \in DOMAIN heard, heard[a] + Threshold >= now
               PROVE  /\ a \in DOMAIN g'.ipTo
                      /\ g'.ipTo[a] \in DOMAIN g'.nodes /\ heard[a] <= g'.nodes[g'.ipTo[a]].seen
    BY DEF Recent
  <2>1. a \in DOMAIN g.ipTo /\ g.ipTo[a] \in DOMAIN g.nodes /\ heard[a] <= g.nodes[g.ipTo[a]].seen
    BY <1>3 DEF Fresh, Recent
  <2>2. heard[a] \in 0 .. now
    BY <1>3 DEF Fresh, IsMap
  <2>3. g.ipTo[a] \in DOMAIN g'.nodes /\ g'.nodes[g.ipTo[a]] = g.nodes[g.ipTo[a]]
    <3>1. ~(heard[a] + Threshold < now)
      BY <1>3, <2>2, GraphAssumption
    <3> QED BY <1>13, <2>1, <2>2, <3>1
  <2>4. a \in DOMAIN g'.ipTo /\ g'.ipTo[a] = g.ipTo[a]
    BY <1>5, <1>8, <2>1, <2>3
  <2> QED BY <2>1, <2>3, <2>4
<1>16. Hosts(g', now', {})
  BY <1>1, <1>9, <1>10, <1>11, <1>12 DEF Hosts
<1>17. Fresh(g', heard', now', {})
  BY <1>1, <1>3, <1>14, <1>15 DEF Fresh
<1> QED BY <1>1, <1>3, <1>16, <1>17 DEF HostsInv

\* So does a sweep of edges.
LEMMA EdgeSweepHosts ==
  ASSUME GraphInv(g), HostsInv, RemoveStaleEdges
  PROVE  HostsInv'
<1> DEFINE gone == StalestEdges
<1>1. /\ g' = [g EXCEPT !.edges = Without(@, gone), !.adj = Unindexed(@, gone)]
      /\ now' = now /\ heard' = heard
  BY DEF RemoveStaleEdges
<1> HIDE DEF gone
<1>3. /\ g'.nodes = g.nodes /\ g'.ipTo = g.ipTo /\ g'.nameTo = g.nameTo /\ g'.macTo = g.macTo
      /\ g'.shared = g.shared /\ g'.edges = Without(g.edges, gone)
  BY <1>1 DEF GraphInv, Shape, Fields
<1>4. DOMAIN g'.edges \subseteq DOMAIN g.edges /\ \A e \in DOMAIN g'.edges : g'.edges[e] = g.edges[e]
  BY <1>3 DEF Without
<1>5. Hosts(g', now', {})
  <2>1. Typed(g', now')
    BY <1>1, <1>3, <1>4 DEF HostsInv, Hosts, Typed, IsMap
  <2>2. Sorted(g') /\ Listed(g') /\ Keyed(g', {})
    BY <1>3 DEF HostsInv, Hosts, Sorted, Listed, Keyed
  <2> QED BY <2>1, <2>2 DEF Hosts
<1>6. Fresh(g', heard', now', {})
  BY <1>1, <1>3, <1>4 DEF HostsInv, Fresh, Lasting, Recent
<1> QED BY <1>1, <1>5, <1>6 DEF HostsInv

\* Time passing only makes more of it due to decay.
LEMMA TickHosts ==
  ASSUME HostsInv, Tick
  PROVE  HostsInv'
<1>1. /\ now' = now + 1 /\ now < MaxTime /\ g' = g /\ heard' = heard
      /\ now \in 0 .. MaxTime
  BY DEF Tick, HostsInv
<1>2. \A s \in 0 .. now : s \in 0 .. now + 1
  BY <1>1
<1>3. NodeAt(now) \subseteq NodeAt(now + 1) /\ EdgeAt(now) \subseteq EdgeAt(now + 1)
  BY <1>2 DEF NodeAt, EdgeAt
<1>4. Typed(g', now')
  BY <1>1, <1>3 DEF HostsInv, Hosts, Typed, IsMap
<1>5. Hosts(g', now', {})
  BY <1>1, <1>4 DEF HostsInv, Hosts
<1>6. Lasting(g', now', {})
  <2> SUFFICES ASSUME NEW e \in DOMAIN g.edges, ~(g.edges[e].seen + Threshold < now + 1)
               PROVE  \A n \in e : n \in DOMAIN g.nodes /\ g.edges[e].seen <= g.nodes[n].seen
    BY <1>1 DEF Lasting
  <2>1. g.edges[e].seen \in 0 .. now
    BY DEF HostsInv, Hosts, Typed, IsMap, EdgeAt
  <2>2. ~(g.edges[e].seen + Threshold < now)
    BY <1>1, <2>1, GraphAssumption
  <2> QED BY <2>2 DEF HostsInv, Fresh, Lasting
<1>7. Recent(g', heard', now', {})
  <2> SUFFICES ASSUME NEW a \in DOMAIN heard, heard[a] + Threshold >= now + 1
               PROVE  /\ a \in DOMAIN g.ipTo
                      /\ g.ipTo[a] \in DOMAIN g.nodes /\ heard[a] <= g.nodes[g.ipTo[a]].seen
    BY <1>1 DEF Recent
  <2>1. heard[a] \in 0 .. now
    BY DEF HostsInv, Fresh, IsMap
  <2>2. heard[a] + Threshold >= now
    BY <1>1, <2>1, GraphAssumption
  <2> QED BY <2>2 DEF HostsInv, Fresh, Recent
<1>8. IsMap(heard', Addrs, 0 .. now')
  BY <1>1, <1>2 DEF HostsInv, Fresh, IsMap
<1>9. Fresh(g', heard', now', {})
  BY <1>6, <1>7, <1>8 DEF Fresh
<1>10. now' \in 0 .. MaxTime
  BY <1>1, GraphAssumption
<1> QED BY <1>1, <1>5, <1>9, <1>10 DEF HostsInv

\* While a MAC that is an endpoint of its own is not seen beside an address too, ids, names
\* and anchors are what they should be after any packets, merges, promotions, demotions and
\* sweeps, and a node is no older than what leads to it (graph.go:270-372, 573-720; decay.go).
THEOREM HostsInvariant == ASSUME LinkLayerApart PROVE Spec => []HostsInv
<1>1. Init => HostsInv
  BY InitHosts
<1>2. IInv /\ LedgerInv /\ HostsInv /\ [Next]_vars => HostsInv'
  <2> SUFFICES ASSUME IInv, LedgerInv, HostsInv, [Next]_vars PROVE HostsInv'
    OBVIOUS
  <2>1. GraphInv(g)
    BY DEF IInv
  <2>2. CASE Ingest
    BY <2>1, <2>2, IngestHosts
  <2>3. CASE RemoveStaleNodes
    BY <2>1, <2>3, NodeSweepHosts
  <2>4. CASE RemoveStaleEdges
    BY <2>1, <2>4, EdgeSweepHosts
  <2>5. CASE Tick
    BY <2>5, TickHosts
  <2>6. CASE UNCHANGED vars
    BY <2>6 DEF vars, HostsInv
  <2> QED BY <2>2, <2>3, <2>4, <2>5, <2>6 DEF Next
<1> QED BY <1>1, <1>2, GraphInvariant, LedgerInvariant, PTL DEF Spec

\* Under the same hypothesis, decay takes no host that was heard within the threshold, under
\* whatever address: its node was last seen no earlier; and an edge it leaves without an end
\* is itself due (decayGraph).
THEOREM DecayAlwaysTakesOnlySilent == ASSUME LinkLayerApart PROVE Spec => []DecayTakesOnlySilent
<1>1. HostsInv => DecayTakesOnlySilent
  <2> SUFFICES ASSUME HostsInv PROVE DecayTakesOnlySilent
    OBVIOUS
  <2>1. now \in Nat /\ Threshold \in Nat
    BY GraphAssumption DEF HostsInv
  <2>2. HeardHostsStay
    <3> SUFFICES ASSUME NEW a \in DOMAIN heard, now - heard[a] <= Threshold
                 PROVE  /\ a \in DOMAIN g.ipTo /\ g.ipTo[a] \in DOMAIN g.nodes
                        /\ g.nodes[g.ipTo[a]].seen >= heard[a]
      BY DEF HeardHostsStay
    <3>1. heard[a] \in 0 .. now
      BY DEF HostsInv, Fresh, IsMap
    <3>2. heard[a] + Threshold >= now
      BY <2>1, <3>1
    <3>3. /\ a \in DOMAIN g.ipTo /\ g.ipTo[a] \in DOMAIN g.nodes
          /\ heard[a] <= g.nodes[g.ipTo[a]].seen
      BY <3>2 DEF HostsInv, Fresh, Recent
    <3>4. g.nodes[g.ipTo[a]].seen \in 0 .. now
      BY <3>3 DEF HostsInv, Hosts, Typed, IsMap, NodeAt
    <3> QED BY <3>1, <3>3, <3>4
  <2>3. BareEdgesAreStale
    <3> SUFFICES ASSUME NEW e \in DOMAIN g.edges PROVE e \subseteq DOMAIN g.nodes \/ e \in StaleEdges
      BY DEF BareEdgesAreStale
    <3>1. g.edges[e].seen \in 0 .. now
      BY DEF HostsInv, Hosts, Typed, IsMap, EdgeAt
    <3>2. g.edges[e].seen + Threshold < now => now - g.edges[e].seen > Threshold
      BY <2>1, <3>1
    <3> QED BY <3>2 DEF HostsInv, Fresh, Lasting, StaleEdges
  <2> QED BY <2>2, <2>3 DEF DecayTakesOnlySilent
<1> QED BY <1>1, HostsInvariant, PTL

\* Under the same hypothesis, a MAC that two hosts have is no node's id (graph.go:618-619).
LEMMA SharedMacNever == ASSUME LinkLayerApart PROVE Spec => []SharedMacIsNoIdentity
<1>1. IInv /\ HostsInv => SharedMacIsNoIdentity
  <2> SUFFICES ASSUME IInv, HostsInv, NEW m \in g.shared, m \in DOMAIN g.nodes PROVE FALSE
    BY DEF SharedMacIsNoIdentity
  <2>1. m \in MacsBeside
    BY DEF HostsInv, Hosts, Sorted
  <2>2. m \in DOMAIN g.macTo
    BY <2>1 DEF HostsInv, Hosts, Keyed
  <2> QED BY <2>2 DEF IInv, GraphInv, Anchors
<1> QED BY <1>1, GraphInvariant, HostsInvariant, PTL

\* Whatever is an endpoint, every variable has its type, a listed address resolves to the
\* node that lists it, and a packet leaves each of its addresses and the MAC beside it on
\* one node, and an edge seen now between the two nodes; and where link-layer endpoints are
\* apart, a MAC that two hosts have is no node's id.
THEOREM IdentitiesAlwaysResolve == Spec => IdentitiesResolve
<1>1. IInv /\ LedgerInv /\ SoundInv => TypeOK /\ ListedResolves
  <2> SUFFICES ASSUME IInv, LedgerInv, SoundInv
               PROVE  TypeOK /\ ListedResolves
    OBVIOUS
  <2>1. Typed(g, now) /\ Listed(g) /\ now \in 0 .. MaxTime
    BY DEF SoundInv, Sound
  <2>2. \A s \in 0 .. now : s \in 0 .. MaxTime
    BY <2>1, GraphAssumption
  <2>3. NodeAt(now) \subseteq Node /\ EdgeAt(now) \subseteq Edge
    BY <2>2 DEF NodeAt, EdgeAt, Node, Edge
  <2>4. IsMap(g.nodes, Ids, Node) /\ IsMap(g.edges, EdgeIds, Edge)
    BY <2>1, <2>3 DEF Typed, IsMap
  <2>5. IsMap(g.adj, Ids, SUBSET EdgeIds)
    <3>1. g.adj = AdjOf(DOMAIN g.edges)
      BY DEF IInv, GraphInv, Adjacent
    <3>2. \A e \in DOMAIN g.edges : e \in EdgeIds /\ e \subseteq Ids
      BY <2>1 DEF Typed, IsMap, EdgeIds
    <3> QED BY <3>1, <3>2 DEF AdjOf, IsMap
  <2>6. IsMap(heard, Addrs, 0 .. MaxTime)
    BY <2>2 DEF SoundInv, IsMap
  <2>7. TypeOK
    BY <2>1, <2>4, <2>5, <2>6 DEF TypeOK, Typed, SoundInv, LedgerInv, Counted
  <2>8. ListedResolves
    BY <2>1 DEF Listed, ListedResolves
  <2> QED BY <2>7, <2>8
<1>2. IInv /\ LedgerInv /\ SoundInv =>
        \A p \in Packets : Ingests(p) =>
          /\ Belongs(p.src, p.srcMAC)' /\ Belongs(p.dst, p.dstMAC)'
          /\ LET e == {g'.ipTo[p.src], g'.ipTo[p.dst]}
             IN  e \in DOMAIN g'.edges /\ g'.edges[e].seen = now
  <2> SUFFICES ASSUME IInv, LedgerInv, SoundInv, NEW p \in Packets, Ingests(p)
               PROVE  /\ Belongs(p.src, p.srcMAC)' /\ Belongs(p.dst, p.dstMAC)'
                      /\ Joins(g', p.src, p.dst, now)
    BY DEF Joins
  <2>1. g' = Ingested(g, p, now)
    BY DEF Ingests
  <2>2. GraphInv(g) /\ Counted(g) /\ Sound(g, now) /\ now \in Nat
    BY DEF IInv, LedgerInv, SoundInv
  <2>3. On(g', p.src, p.srcMAC) /\ On(g', p.dst, p.dstMAC) /\ Joins(g', p.src, p.dst, now)
    BY <2>1, <2>2, IngestedSound
  <2> QED BY <2>3 DEF On, Belongs
<1>3. IInv /\ LedgerInv /\ SoundInv =>
        [\A p \in Packets : Ingests(p) =>
          /\ Belongs(p.src, p.srcMAC)' /\ Belongs(p.dst, p.dstMAC)'
          /\ LET e == {g'.ipTo[p.src], g'.ipTo[p.dst]}
             IN  e \in DOMAIN g'.edges /\ g'.edges[e].seen = now]_vars
  BY <1>2
<1>4. Spec => [](TypeOK /\ ListedResolves) /\ PacketsLand
  BY <1>1, <1>3, GraphInvariant, LedgerInvariant, SoundInvariant, PTL DEF PacketsLand
<1>5. Spec => [](LinkLayerApart => SharedMacIsNoIdentity)
  <2>1. CASE LinkLayerApart
    BY <2>1, SharedMacNever, PTL
  <2>2. CASE ~LinkLayerApart
    BY <2>2, PTL
  <2> QED BY <2>1, <2>2
<1> QED BY <1>4, <1>5, PTL DEF IdentitiesResolve
=============================================================================

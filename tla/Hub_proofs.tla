----------------------------- MODULE Hub_proofs -----------------------------
(***************************************************************************)
(* For any number of connections, any graphs, buffers and events: the hub  *)
(* never sends on a closed channel and never closes one twice              *)
(* (ChannelInv); no change is forgotten: a client's last view was built    *)
(* from what there is now, or something still leads to it (CatchUpInv);    *)
(* and the messages in flight to a browser lead from what it draws to the  *)
(* mirror the next difference is computed from (StreamInv).                *)
(***************************************************************************)
EXTENDS Hub, WellFoundedInduction, TLAPS

Unregistered == {"none", "registering"}

ChannelTypes ==
    /\ clients \subseteq Conns /\ todo \subseteq Conns
    /\ closed \in [Conns -> BOOLEAN]
    /\ reader \in [Conns -> {"none", "registering", "reading", "unregistering", "done"}]
    /\ socket \in [Conns -> {"new", "open", "closed"}]

\* A connection is handed to the hub once, when it is made.
ConnectsOnce == \A c \in Conns : socket[c] = "new" => reader[c] = "none"

\* A client of the hub has been registered and its channel is open.
MembersAreOpen ==
    \A c \in Conns :
        /\ c \in clients => reader[c] \notin Unregistered /\ ~closed[c]
        /\ closed[c] => reader[c] \notin Unregistered

\* Within a tick the current client and those still to come are the hub's: only trySend
\* takes one out before the tick ends, and that one is then no longer current.
TickServesMembers ==
    /\ todo \subseteq clients
    /\ hpc \in {"select", "clear", "drain"} => todo = {}
    /\ hpc \in {"mode", "build", "send"} => cur \in clients /\ cur \notin todo

ChannelInv == ChannelTypes /\ ConnectsOnce /\ MembersAreOpen /\ TickServesMembers /\ ~panicked

-----------------------------------------------------------------------------
\* Initially there is no client and no channel has been closed (NewHub).
LEMMA ChannelInit == Init => ChannelInv
  BY DEF Init, ChannelInv, ChannelTypes, ConnectsOnce, MembersAreOpen, TickServesMembers, Unregistered

\* Where Onward leads keeps the tick among the hub's clients, when the current one stays.
LEMMA OnwardServesMembers ==
  ASSUME NEW out, NEW snapshot, Onward(out, snapshot), TickServesMembers,
         hpc \in {"build", "send"}, todo' = todo, clients' = clients
  PROVE  TickServesMembers'
  <1>1. CASE out # <<>>
    BY <1>1 DEF Onward, TickServesMembers
  <1>2. CASE out = <<>> /\ todo # {}
    BY <1>2 DEF Onward, TickServesMembers
  <1>3. CASE out = <<>> /\ todo = {}
    BY <1>3 DEF Onward, TickServesMembers
  <1> QED
    BY <1>1, <1>2, <1>3

\* When trySend drops the current client, the tick leaves it.
LEMMA OnwardAfterDrop ==
  ASSUME NEW snapshot, Onward(<<>>, snapshot), TickServesMembers,
         hpc = "send", todo' = todo, clients' = clients \ {cur}
  PROVE  TickServesMembers'
  <1>1. CASE todo # {}
    BY <1>1 DEF Onward, TickServesMembers
  <1>2. CASE todo = {}
    BY <1>2 DEF Onward, TickServesMembers
  <1> QED
    BY <1>1, <1>2

\* Closing the channel of a member leaves the others' as they are.
LEMMA CloseOnce ==
  ASSUME ChannelInv, NEW c \in clients, CloseSend(c)
  PROVE  /\ ~panicked'
         /\ closed' \in [Conns -> BOOLEAN]
         /\ \A d \in Conns : closed'[d] <=> (d = c \/ closed[d])
  BY DEF ChannelInv, ChannelTypes, MembersAreOpen, CloseSend

\* Every step of the hub, of the pumps and of the world around them keeps ChannelInv.
LEMMA ChannelStep == ChannelInv /\ [Next]_vars => ChannelInv'
  <1> SUFFICES ASSUME ChannelInv, [Next]_vars
               PROVE  ChannelInv'
    OBVIOUS
  <1> USE DEF ChannelInv, ChannelTypes, ConnectsOnce, MembersAreOpen
  <1>1. CASE GraphChanges \/ SaveOverride \/ MarkResyncAll
    <2>1. UNCHANGED <<clients, hpc, todo, cur, pipes, pumps>>
      BY <1>1 DEF GraphChanges, SaveOverride, MarkResyncAll, hub
    <2> QED
      BY <2>1 DEF pipes, pumps, TickServesMembers
  <1>2. ASSUME NEW c \in Conns, Connect(c)
        PROVE  ChannelInv'
    BY <1>2 DEF Connect, hub, pipes, TickServesMembers, Unregistered
  <1>3. ASSUME NEW c \in Conns, SocketBreaks(c) \/ ReadFails(c) \/ PumpEnds(c)
        PROVE  ChannelInv'
    <2>1. UNCHANGED <<hub, pipes>>
      BY <1>3 DEF SocketBreaks, ReadFails, PumpEnds
    <2>2. CASE SocketBreaks(c) \/ PumpEnds(c)
      BY <2>1, <2>2 DEF SocketBreaks, PumpEnds, hub, pipes, TickServesMembers
    <2>3. CASE ReadFails(c)
      BY <2>1, <2>3 DEF ReadFails, hub, pipes, TickServesMembers, Unregistered
    <2> QED
      BY <1>3, <2>2, <2>3
  <1>4. ASSUME NEW c \in Conns, ApplyControl(c)
        PROVE  ChannelInv'
    <2>1. UNCHANGED <<hub, pipes, pumps>>
      BY <1>4 DEF ApplyControl
    <2> QED
      BY <2>1 DEF hub, pipes, pumps, TickServesMembers
  <1>5. ASSUME NEW c \in Conns, WriteMessage(c)
        PROVE  ChannelInv'
    BY <1>5 DEF WriteMessage, hub, pumps, TickServesMembers
  <1>6. ASSUME NEW b \in Browsers, TimerFires(b)
        PROVE  ChannelInv'
    <2>1. UNCHANGED <<hub, pipes, pumps>>
      BY <1>6 DEF TimerFires
    <2> QED
      BY <2>1 DEF hub, pipes, pumps, TickServesMembers
  <1>7. ASSUME NEW c \in Conns, Register(c)
        PROVE  ChannelInv'
    BY <1>7 DEF Register, pipes, TickServesMembers, Unregistered
  <1>8. ASSUME NEW c \in Conns, Unregister(c)
        PROVE  ChannelInv'
    <2>1. /\ hpc = "select" /\ hpc' = "select" /\ todo' = todo /\ clients' = clients \ {c}
          /\ reader[c] = "unregistering" /\ reader' = [reader EXCEPT ![c] = "done"]
          /\ socket' = [socket EXCEPT ![c] = "closed"]
      BY <1>8 DEF Unregister
    <2>2. TickServesMembers'
      BY <2>1 DEF TickServesMembers
    <2>3. CASE c \in clients
      <3>1. CloseSend(c)
        BY <1>8, <2>3 DEF Unregister
      <3>2. /\ ~panicked'
            /\ closed' \in [Conns -> BOOLEAN]
            /\ \A d \in Conns : closed'[d] <=> (d = c \/ closed[d])
        BY <2>3, <3>1, CloseOnce
      <3> QED
        BY <2>1, <2>2, <3>2 DEF Unregistered
    <2>4. CASE c \notin clients
      <3>1. UNCHANGED <<closed, panicked>>
        BY <1>8, <2>4 DEF Unregister
      <3> QED
        BY <2>1, <2>2, <3>1 DEF Unregistered
    <2> QED
      BY <2>3, <2>4
  <1>9. CASE ResyncAll
    BY <1>9 DEF ResyncAll, pipes, pumps, TickServesMembers
  <1>10. ASSUME NEW layoutBusy, TickStarts(layoutBusy)
         PROVE  ChannelInv'
    <2>1. hpc' \in {"select", "clear"}
      BY <1>10 DEF TickStarts
    <2> QED
      BY <1>10, <2>1 DEF TickStarts, pipes, pumps, TickServesMembers
  <1>11. CASE ClearDirty \/ DrainFlows
    BY <1>11 DEF ClearDirty, DrainFlows, pipes, pumps, TickServesMembers
  <1>12. ASSUME NEW c \in Conns, ConsumeNeedsFull(c)
         PROVE  ChannelInv'
    BY <1>12 DEF ConsumeNeedsFull, pipes, pumps, TickServesMembers
  <1>13. CASE ReadMode
    BY <1>13 DEF ReadMode, pipes, pumps, TickServesMembers
  <1>14. ASSUME NEW due, BuildRaw(due) \/ BuildStyled(due)
         PROVE  ChannelInv'
    <2>1. /\ hpc = "build" /\ todo' = todo /\ clients' = clients
          /\ UNCHANGED <<pipes, pumps>>
      BY <1>14 DEF BuildRaw, BuildStyled
    <2>2. PICK out, snapshot : Onward(out, snapshot)
      BY <1>14 DEF BuildRaw, BuildStyled
    <2>3. TickServesMembers'
      BY <2>1, <2>2, OnwardServesMembers
    <2> QED
      BY <2>1, <2>3 DEF pipes, pumps
  <1>15. CASE TrySend
    <2>1. cur \in clients /\ hpc = "send" /\ todo' = todo /\ UNCHANGED pumps
      BY <1>15 DEF TrySend, TickServesMembers
    <2>2. CASE Len(send[cur]) < SendCap
      <3>1. /\ clients' = clients /\ closed' = closed
            /\ panicked' = (panicked \/ closed[cur])
            /\ Onward(Tail(tick.out), tick.snapshot)
        BY <1>15, <2>2 DEF TrySend
      <3>2. TickServesMembers'
        BY <2>1, <3>1, OnwardServesMembers
      <3>3. ~panicked'
        BY <2>1, <3>1
      <3> QED
        BY <2>1, <3>1, <3>2, <3>3 DEF pumps
    <2>3. CASE ~(Len(send[cur]) < SendCap)
      <3>1. CloseSend(cur) /\ clients' = clients \ {cur} /\ Onward(<<>>, tick.snapshot)
        BY <1>15, <2>3 DEF TrySend
      <3>2. TickServesMembers'
        BY <2>1, <3>1, OnwardAfterDrop
      <3>3. /\ ~panicked'
            /\ closed' \in [Conns -> BOOLEAN]
            /\ \A d \in Conns : closed'[d] <=> (d = cur \/ closed[d])
        BY <2>1, <3>1, CloseOnce
      <3> QED
        BY <2>1, <3>1, <3>2, <3>3 DEF pumps
    <2> QED
      BY <2>2, <2>3
  <1>16. CASE UNCHANGED vars
    BY <1>16 DEF vars, hub, pipes, pumps, TickServesMembers
  <1>17. CASE TickStep
    BY <1>11, <1>12, <1>13, <1>14, <1>15, <1>17 DEF TickStep
  <1>18. CASE Environment
    BY <1>1, <1>2, <1>3, <1>4, <1>18 DEF Environment
  <1> QED
    BY <1>1, <1>3, <1>5, <1>6, <1>7, <1>8, <1>9, <1>10, <1>16, <1>17, <1>18 DEF Next

\* In every behaviour of the hub its clients are registered connections with an open
\* channel, and a tick only serves clients (Run, tick, trySend).
THEOREM ChannelInvariant == Spec => []ChannelInv
  <1>1. Init => ChannelInv
    BY ChannelInit
  <1>2. ChannelInv /\ [Next]_vars => ChannelInv'
    BY ChannelStep
  <1> QED
    BY <1>1, <1>2, PTL DEF Spec

\* No channel is closed twice or sent on once closed, however registrations, slow-consumer
\* drops and unregistrations interleave (websocket.go Run and trySend).
THEOREM ChannelsSafe == Spec => []ChannelClosedOnce
  <1>1. ChannelInv => ChannelClosedOnce
    BY DEF ChannelInv, ChannelClosedOnce
  <1> QED
    BY <1>1, ChannelInvariant, PTL

-----------------------------------------------------------------------------
(* Nothing is forgotten: the inductive invariant. *)

\* The record of the tick's locals keeps its fields.
TickShape ==
    /\ DOMAIN tick = {"flows", "snapshot", "full", "raw", "timeline", "out"}
    /\ tick.timeline \in Windows \cup {None}

ClientShape ==
    /\ DOMAIN last = Conns /\ DOMAIN built = Conns
    /\ view \in [Conns -> Views] /\ raw \in [Conns -> BOOLEAN]
    /\ needsFull \in [Conns -> BOOLEAN]
    /\ timeline \in [Conns -> Windows \cup {None}]

\* A connection starts with needsFull set, and only a tick consumes it.
NewNeedFull == \A c \in Conns : reader[c] \in Unregistered => needsFull[c]

\* The snapshot a tick shares between its clients is the graph as it still is, unless the
\* graph has been marked dirty again.
SnapshotIsCurrent ==
    /\ hpc \in {"select", "clear", "drain"} => tick.snapshot = None
    /\ tick.snapshot # None => tick.snapshot = graph \/ dirty

\* Two timeline positions, None for the live graph, in one capture.
SamePlace(t, w) == (t = None <=> w = None) /\ (t # None => t.capture = w.capture)

\* The mode the tick has read is the client's, or a control message has asked for more.
ModeAgrees ==
    hpc = "build" /\ ~needsFull[cur] =>
        tick.raw = raw[cur] /\ SamePlace(tick.timeline, timeline[cur])

\* Client c will be built again, or is none of the styled ones.
Due(c) ==
    \/ needsFull[c] \/ raw[c] \/ resyncAll \/ handler = "saved" \/ dirty
    \/ hpc \in {"clear", "drain"} \/ c \in todo
    \/ c = cur /\ hpc \in {"mode", "build"}

BuiltFrom(c, source) == last[c] = Content(Picture(source, overrides, view[c]))

\* The last view of client c was built from what there is: the graph, or a window of the
\* capture it looks at, the one markTimelineBuilt recorded.
Rebuilt(c) ==
    \/ timeline[c] = None /\ BuiltFrom(c, graph)
    \/ /\ timeline[c] # None
       /\ \E w \in Windows : /\ w.capture = timeline[c].capture /\ w.t = built[c]
                             /\ BuiltFrom(c, w)

CaughtUp == \A c \in clients : Due(c) \/ Rebuilt(c)

CatchUpShape == TickShape /\ ClientShape
CatchUpInv ==
    CatchUpShape /\ NewNeedFull /\ SnapshotIsCurrent /\ ModeAgrees /\ CaughtUp

\* Initially there is no client, and every connection asks for a full picture (NewHub).
LEMMA CatchUpInit == Init => CatchUpInv
  <1> SUFFICES ASSUME Init PROVE CatchUpInv
    OBVIOUS
  <1>1. TickShape /\ ClientShape
    BY HubAssumption DEF Init, NoTick, TickShape, ClientShape
  <1>2. NewNeedFull /\ CaughtUp
    BY DEF Init, NewNeedFull, CaughtUp
  <1>3. SnapshotIsCurrent /\ ModeAgrees
    BY DEF Init, NoTick, SnapshotIsCurrent, ModeAgrees
  <1> QED
    BY <1>1, <1>2, <1>3 DEF CatchUpInv, CatchUpShape

\* Where Onward leads the snapshot is the one it was given, or none.
LEMMA OnwardSnapshot ==
  ASSUME NEW out, NEW snapshot, Onward(out, snapshot), TickShape
  PROVE  /\ TickShape'
         /\ tick'.snapshot = snapshot \/ tick'.snapshot = None
         /\ hpc' \in {"send", "next", "select"}
         /\ hpc' = "select" => tick'.snapshot = None
  <1>1. CASE out # <<>>
    BY <1>1 DEF Onward, TickShape
  <1>2. CASE out = <<>> /\ todo # {}
    BY <1>2 DEF Onward, TickShape, NoTick
  <1>3. CASE out = <<>> /\ todo = {}
    BY <1>3 DEF Onward, TickShape, NoTick
  <1> QED
    BY <1>1, <1>2, <1>3

\* CatchUpInv reads nothing of the pipes, the pumps and the screens but who has registered.
LEMMA CatchUpElsewhere ==
  ASSUME CatchUpInv, UNCHANGED <<world, hub, client>>,
         \A c \in Conns : reader'[c] \in Unregistered => reader[c] \in Unregistered
  PROVE  CatchUpInv'
  <1>1. NewNeedFull'
    BY DEF CatchUpInv, NewNeedFull, client
  <1>2. (TickShape /\ ClientShape /\ SnapshotIsCurrent)'
    BY DEF CatchUpInv, CatchUpShape, TickShape, ClientShape, SnapshotIsCurrent, world, hub, client
  <1>3. ModeAgrees'
    BY DEF CatchUpInv, ModeAgrees, SamePlace, hub, client
  <1>4. CaughtUp'
    BY DEF CatchUpInv, CaughtUp, Due, Rebuilt, BuiltFrom, Content, world, hub, client
  <1> QED
    BY <1>1, <1>2, <1>3, <1>4 DEF CatchUpInv, CatchUpShape

\* A packet, the decay or an edit of the overrides leaves a flag for every client.
LEMMA CatchUpWorld == CatchUpInv /\ (GraphChanges \/ SaveOverride \/ MarkResyncAll) => CatchUpInv'
  <1> SUFFICES ASSUME CatchUpInv, GraphChanges \/ SaveOverride \/ MarkResyncAll
               PROVE  CatchUpInv'
    OBVIOUS
  <1>1. /\ UNCHANGED <<clients, tickSeq, hpc, todo, cur, tick>> /\ UNCHANGED <<client, pumps>>
        /\ dirty' \/ handler' = "saved" \/ resyncAll'
        /\ (graph' = graph /\ dirty' = dirty) \/ dirty'
    <2>1. CASE GraphChanges
      BY <2>1 DEF GraphChanges, hub
    <2>2. CASE SaveOverride
      BY <2>2 DEF SaveOverride, hub
    <2>3. CASE MarkResyncAll
      BY <2>3 DEF MarkResyncAll
    <2> QED
      BY <2>1, <2>2, <2>3
  <1>2. (TickShape /\ ClientShape /\ NewNeedFull)'
    BY <1>1 DEF CatchUpInv, CatchUpShape, TickShape, ClientShape, NewNeedFull, client, pumps
  <1>3. SnapshotIsCurrent'
    BY <1>1 DEF CatchUpInv, SnapshotIsCurrent
  <1>4. ModeAgrees'
    BY <1>1 DEF CatchUpInv, ModeAgrees, SamePlace, client
  <1>5. CaughtUp'
    BY <1>1 DEF CaughtUp, Due
  <1> QED
    BY <1>2, <1>3, <1>4, <1>5 DEF CatchUpInv, CatchUpShape

\* A control message forces a full picture, or moves within the capture it looks at.
LEMMA CatchUpControl ==
  ASSUME CatchUpInv, ChannelInv, NEW c \in Conns, ApplyControl(c)
  PROVE  CatchUpInv'
  <1>1. UNCHANGED <<last, graph, dirty, flows, overrides, handler, hub, pumps>>
    BY DEF ApplyControl
  <1>2. ClientShape /\ TickShape
    BY DEF CatchUpInv, CatchUpShape
  <1>3. /\ ClientShape'
        /\ \A d \in Conns \ {c} : /\ view'[d] = view[d] /\ raw'[d] = raw[d]
                                  /\ timeline'[d] = timeline[d] /\ built'[d] = built[d]
                                  /\ needsFull'[d] = needsFull[d]
        /\ needsFull[c] => needsFull'[c]
        /\ \/ needsFull'[c]
           \/ /\ view'[c] = view[c] /\ raw'[c] = raw[c] /\ built'[c] = built[c]
              /\ SamePlace(timeline[c], timeline'[c])
    <2>1. CASE /\ \E v \in Views : view' = [view EXCEPT ![c] = v]
               /\ needsFull' = [needsFull EXCEPT ![c] = TRUE]
               /\ UNCHANGED <<raw, timeline, built>>
      BY <1>1, <1>2, <2>1 DEF ClientShape
    <2>2. CASE /\ raw' = [raw EXCEPT ![c] = ~@]
               /\ needsFull' = [needsFull EXCEPT ![c] = TRUE]
               /\ UNCHANGED <<view, timeline, built>>
      BY <1>1, <1>2, <2>2 DEF ClientShape
    <2>3. ASSUME NEW w \in Windows,
                 timeline' = [timeline EXCEPT ![c] = w],
                 NEW enters, enters = (timeline[c] = None \/ timeline[c].capture # w.capture),
                 built' = [built EXCEPT ![c] = IF enters THEN None ELSE @],
                 needsFull' = [needsFull EXCEPT ![c] = @ \/ enters],
                 UNCHANGED <<view, raw>>
          PROVE  <1>3!1 /\ <1>3!2 /\ <1>3!3 /\ <1>3!4
      <3>1. ClientShape'
        BY <1>1, <1>2, <2>3 DEF ClientShape
      <3>2. <1>3!2 /\ <1>3!3
        BY <1>2, <2>3 DEF ClientShape
      <3>3. timeline'[c] = w /\ w # None
        BY <1>2, <2>3, HubAssumption DEF ClientShape
      <3>4. CASE enters
        BY <1>2, <2>3, <3>1, <3>2, <3>4 DEF ClientShape
      <3>5. CASE ~enters
        <4>1. built'[c] = built[c]
          BY <1>2, <2>3, <3>5 DEF ClientShape
        <4>2. SamePlace(timeline[c], timeline'[c])
          BY <2>3, <3>3, <3>5 DEF SamePlace
        <4> QED
          BY <2>3, <3>1, <3>2, <4>1, <4>2
      <3> QED
        BY <3>4, <3>5, <2>3
    <2>4. CASE /\ timeline[c] # None
               /\ timeline' = [timeline EXCEPT ![c] = None]
               /\ built' = [built EXCEPT ![c] = None]
               /\ needsFull' = [needsFull EXCEPT ![c] = TRUE]
               /\ UNCHANGED <<view, raw>>
      BY <1>1, <1>2, <2>4 DEF ClientShape
    <2> QED
      BY <2>1, <2>2, <2>3, <2>4 DEF ApplyControl
  <1>4. (TickShape /\ NewNeedFull /\ SnapshotIsCurrent)'
    BY <1>1, <1>3 DEF CatchUpInv, CatchUpShape, TickShape, NewNeedFull, SnapshotIsCurrent, hub, pumps
  <1>5. ModeAgrees'
    BY <1>1, <1>3 DEF CatchUpInv, ModeAgrees, SamePlace, hub, ChannelInv, ChannelTypes, TickServesMembers
  <1>6. CaughtUp'
    <2> SUFFICES ASSUME NEW d \in clients, ~Due(d)' PROVE Rebuilt(d)'
      BY <1>1 DEF CaughtUp, hub
    <2>1. d \in Conns
      BY DEF ChannelInv, ChannelTypes
    <2>2. ~Due(d) /\ (d # c \/ ~needsFull'[c])
      BY <1>1, <1>2, <1>3, <2>1 DEF Due, hub
    <2>3. /\ view'[d] = view[d] /\ built'[d] = built[d] /\ SamePlace(timeline[d], timeline'[d])
      BY <1>3, <2>1, <2>2 DEF SamePlace
    <2>4. Rebuilt(d)
      BY <2>2 DEF CatchUpInv, CaughtUp
    <2> QED
      BY <1>1, <2>3, <2>4 DEF Rebuilt, BuiltFrom, SamePlace
  <1> QED
    BY <1>3, <1>4, <1>5, <1>6 DEF CatchUpInv, CatchUpShape

\* The select of the hub goroutine: registrations, the resync token and the tick's gate.
LEMMA CatchUpSelect ==
  ASSUME CatchUpInv, ChannelInv,
         \/ \E c \in Conns : Register(c) \/ Unregister(c)
         \/ ResyncAll
         \/ \E layoutBusy \in BOOLEAN : TickStarts(layoutBusy)
  PROVE  CatchUpInv'
  <1> USE DEF CatchUpInv, CatchUpShape
  <1>1. ASSUME NEW c \in Conns, Register(c)
        PROVE  CatchUpInv'
    <2>1. /\ UNCHANGED <<world, client, resyncAll, hpc, todo, cur, tick>>
          /\ clients' = clients \cup {c} /\ reader[c] = "registering"
          /\ reader' = [reader EXCEPT ![c] = "reading"]
      BY <1>1 DEF Register
    <2>2. (TickShape /\ ClientShape /\ NewNeedFull)'
      BY <2>1 DEF TickShape, ClientShape, NewNeedFull, client, Unregistered, ChannelInv, ChannelTypes
    <2>3. (SnapshotIsCurrent /\ ModeAgrees)'
      BY <2>1 DEF SnapshotIsCurrent, ModeAgrees, SamePlace, client, world
    <2>4. needsFull'[c]
      BY <2>1 DEF NewNeedFull, Unregistered, client
    <2>5. CaughtUp'
      BY <2>1, <2>4 DEF CaughtUp, Due, Rebuilt, BuiltFrom, Content, world, client
    <2> QED
      BY <2>2, <2>3, <2>5
  <1>2. ASSUME NEW c \in Conns, Unregister(c)
        PROVE  CatchUpInv'
    <2>1. /\ UNCHANGED <<world, client, resyncAll, hpc, todo, cur, tick>>
          /\ clients' = clients \ {c}
          /\ reader' = [reader EXCEPT ![c] = "done"]
      BY <1>2 DEF Unregister
    <2>2. (TickShape /\ ClientShape /\ NewNeedFull)'
      BY <2>1 DEF TickShape, ClientShape, NewNeedFull, client, Unregistered, ChannelInv, ChannelTypes
    <2>3. (SnapshotIsCurrent /\ ModeAgrees)'
      BY <2>1 DEF SnapshotIsCurrent, ModeAgrees, SamePlace, client, world
    <2>5. CaughtUp'
      BY <2>1 DEF CaughtUp, Due, Rebuilt, BuiltFrom, Content, world, client
    <2> QED
      BY <2>2, <2>3, <2>5
  <1>3. CASE ResyncAll
    <2>1. /\ UNCHANGED <<world, clients, hpc, todo, cur, tick, view, raw, last, timeline, built, pumps>>
          /\ hpc = "select"
          /\ needsFull' = [c \in Conns |-> needsFull[c] \/ c \in clients]
      BY <1>3 DEF ResyncAll
    <2>2. (TickShape /\ ClientShape /\ NewNeedFull)'
      BY <2>1 DEF TickShape, ClientShape, NewNeedFull, pumps
    <2>3. (SnapshotIsCurrent /\ ModeAgrees)'
      BY <2>1 DEF SnapshotIsCurrent, ModeAgrees, world
    <2>4. CaughtUp'
      BY <2>1 DEF CaughtUp, Due, ChannelInv, ChannelTypes
    <2> QED
      BY <2>2, <2>3, <2>4
  <1>4. ASSUME NEW layoutBusy, TickStarts(layoutBusy)
        PROVE  CatchUpInv'
    <2>1. /\ UNCHANGED <<world, clients, resyncAll, todo, cur, tick, client, pumps>>
          /\ hpc = "select" /\ hpc' \in {"select", "clear"}
      BY <1>4 DEF TickStarts
    <2>2. (TickShape /\ ClientShape /\ NewNeedFull)'
      BY <2>1 DEF TickShape, ClientShape, NewNeedFull, client, pumps
    <2>3. (SnapshotIsCurrent /\ ModeAgrees)'
      BY <2>1 DEF SnapshotIsCurrent, ModeAgrees, world
    <2>4. CaughtUp'
      BY <2>1 DEF CaughtUp, Due, Rebuilt, BuiltFrom, Content, world, client
    <2> QED
      BY <2>2, <2>3, <2>4
  <1> QED
    BY <1>1, <1>2, <1>3, <1>4

\* The head of a tick: it clears dirty before any client is built, so every client is still
\* to come.
LEMMA CatchUpHead ==
  ASSUME CatchUpInv, ChannelInv,
         \/ ClearDirty \/ DrainFlows \/ ReadMode
         \/ \E c \in Conns : ConsumeNeedsFull(c)
  PROVE  CatchUpInv'
  <1> USE DEF CatchUpInv, CatchUpShape
  <1>1. CASE ClearDirty
    <2>1. /\ UNCHANGED <<graph, overrides, clients, todo, cur, tick, client, pumps>>
          /\ hpc = "clear" /\ hpc' = "drain"
      BY <1>1 DEF ClearDirty
    <2>2. (TickShape /\ ClientShape /\ NewNeedFull)'
      BY <2>1 DEF TickShape, ClientShape, NewNeedFull, client, pumps
    <2>3. (SnapshotIsCurrent /\ ModeAgrees /\ CaughtUp)'
      BY <2>1 DEF SnapshotIsCurrent, ModeAgrees, CaughtUp, Due
    <2> QED
      BY <2>2, <2>3
  <1>2. CASE DrainFlows
    <2>1. /\ UNCHANGED <<clients, client, pumps>>
          /\ hpc' = "next" /\ todo' = clients /\ tick' = [NoTick EXCEPT !.flows = flows]
      BY <1>2 DEF DrainFlows
    <2>2. (TickShape /\ ClientShape /\ NewNeedFull)'
      BY <2>1 DEF TickShape, ClientShape, NewNeedFull, client, pumps, NoTick
    <2>3. (SnapshotIsCurrent /\ ModeAgrees /\ CaughtUp)'
      BY <2>1 DEF SnapshotIsCurrent, ModeAgrees, CaughtUp, Due, NoTick
    <2> QED
      BY <2>2, <2>3
  <1>3. ASSUME NEW c \in Conns, ConsumeNeedsFull(c)
        PROVE  CatchUpInv'
    <2>1. /\ UNCHANGED <<world, clients, resyncAll, view, raw, last, timeline, built, pumps>>
          /\ hpc = "next" /\ hpc' = "mode" /\ c \in todo /\ todo' = todo \ {c} /\ cur' = c
          /\ tick' = [tick EXCEPT !.full = needsFull[c]]
          /\ needsFull' = [needsFull EXCEPT ![c] = FALSE]
      BY <1>3 DEF ConsumeNeedsFull
    <2>2. reader[c] \notin Unregistered
      BY <2>1 DEF ChannelInv, MembersAreOpen, TickServesMembers
    <2>3. (TickShape /\ ClientShape /\ NewNeedFull)'
      BY <2>1, <2>2 DEF TickShape, ClientShape, NewNeedFull, pumps
    <2>4. (SnapshotIsCurrent /\ ModeAgrees)'
      BY <2>1 DEF SnapshotIsCurrent, ModeAgrees, TickShape, world
    <2>5. CaughtUp'
      BY <2>1 DEF CaughtUp, Due, Rebuilt, BuiltFrom, Content, world, ChannelInv, ChannelTypes, ClientShape
    <2> QED
      BY <2>3, <2>4, <2>5
  <1>4. CASE ReadMode
    <2>1. /\ UNCHANGED <<world, clients, resyncAll, todo, cur, client, pumps>>
          /\ hpc = "mode" /\ hpc' = "build" /\ cur \in Conns
          /\ tick' = [tick EXCEPT !.raw = raw[cur], !.timeline = timeline[cur]]
      BY <1>4 DEF ReadMode, ChannelInv, ChannelTypes, TickServesMembers
    <2>2. (TickShape /\ ClientShape /\ NewNeedFull)'
      BY <2>1 DEF TickShape, ClientShape, NewNeedFull, client, pumps
    <2>3. (SnapshotIsCurrent /\ ModeAgrees)'
      BY <2>1 DEF SnapshotIsCurrent, ModeAgrees, SamePlace, TickShape, world, client
    <2>4. CaughtUp'
      BY <2>1 DEF CaughtUp, Due, Rebuilt, BuiltFrom, Content, world, client
    <2> QED
      BY <2>2, <2>3, <2>4
  <1> QED
    BY <1>1, <1>2, <1>3, <1>4

\* The build of a client touches nothing of the others; the snapshot it goes on with is the
\* tick's or the graph as it is.
LEMMA BuildShape ==
  ASSUME CatchUpInv, ChannelInv, NEW due, BuildRaw(due) \/ BuildStyled(due)
  PROVE  /\ UNCHANGED <<world, clients, resyncAll, todo, view, raw, needsFull, timeline, pumps>>
         /\ hpc = "build" /\ cur \in Conns /\ MarkTimelineBuilt
         /\ hpc' \in {"send", "next", "select"}
         /\ (TickShape /\ ClientShape /\ NewNeedFull /\ SnapshotIsCurrent /\ ModeAgrees)'
         /\ \A d \in Conns \ {cur} : built'[d] = built[d] /\ last'[d] = last[d]
  <1>1. /\ UNCHANGED <<world, clients, resyncAll, todo, view, raw, needsFull, timeline, pumps>>
        /\ hpc = "build" /\ MarkTimelineBuilt
    BY DEF BuildRaw, BuildStyled
  <1>2. cur \in Conns
    BY <1>1 DEF ChannelInv, ChannelTypes, TickServesMembers
  <1>3. PICK out, snapshot : Onward(out, snapshot) /\ snapshot \in {Snapshot, tick.snapshot}
    <2>1. CASE BuildRaw(due)
      BY <2>1 DEF BuildRaw
    <2>2. CASE BuildStyled(due)
      BY <2>2 DEF BuildStyled
    <2> QED
      BY <2>1, <2>2
  <1>4. /\ TickShape'
        /\ tick'.snapshot = snapshot \/ tick'.snapshot = None
        /\ hpc' \in {"send", "next", "select"}
        /\ hpc' = "select" => tick'.snapshot = None
    BY <1>3, OnwardSnapshot DEF CatchUpInv, CatchUpShape
  <1>5. (SnapshotIsCurrent /\ ModeAgrees)'
    <2>1. snapshot # None => snapshot = graph \/ dirty
      BY <1>3 DEF Snapshot, CatchUpInv, SnapshotIsCurrent
    <2>2. SnapshotIsCurrent'
      BY <1>1, <1>4, <2>1 DEF SnapshotIsCurrent, world
    <2> QED
      BY <1>4, <2>2 DEF ModeAgrees
  <1>6. NewNeedFull'
    BY <1>1 DEF CatchUpInv, NewNeedFull, pumps
  <1>7. last' = last \/ \E x : last' = [last EXCEPT ![cur] = x]
    BY DEF BuildRaw, BuildStyled
  <1>8. built' = built \/ \E x : built' = [built EXCEPT ![cur] = x]
    BY <1>1 DEF MarkTimelineBuilt
  <1>9. /\ DOMAIN last' = Conns /\ DOMAIN built' = Conns
        /\ \A d \in Conns \ {cur} : built'[d] = built[d] /\ last'[d] = last[d]
    BY <1>2, <1>7, <1>8 DEF CatchUpInv, CatchUpShape, ClientShape
  <1>10. ClientShape'
    BY <1>1, <1>9 DEF CatchUpInv, CatchUpShape, ClientShape
  <1> QED
    BY <1>1, <1>2, <1>4, <1>5, <1>6, <1>9, <1>10

\* Building a client from the position ReadMode read, after all flags that could be set
\* while it was read, leaves it caught up or due once more.
LEMMA CatchUpBuild ==
  ASSUME CatchUpInv, ChannelInv, NEW due, BuildRaw(due) \/ BuildStyled(due)
  PROVE  CatchUpInv'
  <1>1. /\ UNCHANGED <<world, clients, resyncAll, todo, view, raw, needsFull, timeline, pumps>>
        /\ hpc = "build" /\ cur \in Conns /\ MarkTimelineBuilt
        /\ hpc' \in {"send", "next", "select"}
        /\ (TickShape /\ ClientShape /\ NewNeedFull /\ SnapshotIsCurrent /\ ModeAgrees)'
        /\ \A d \in Conns \ {cur} : built'[d] = built[d] /\ last'[d] = last[d]
    BY BuildShape
  <1>2. ASSUME NEW d \in clients, d # cur PROVE (Due(d) \/ Rebuilt(d))'
    <2>1. Due(d) \/ Rebuilt(d)
      BY <1>2 DEF CatchUpInv, CaughtUp
    <2>2. d \in Conns
      BY DEF ChannelInv, ChannelTypes
    <2>3. CASE Due(d)
      BY <1>1, <1>2, <2>3 DEF Due, world
    <2>4. CASE Rebuilt(d)
      BY <1>1, <1>2, <2>2, <2>4 DEF Rebuilt, BuiltFrom, Content, world
    <2> QED
      BY <2>1, <2>3, <2>4
  <1>3. ASSUME NEW k \in Conns, k = cur, ~needsFull[k], ~raw[k], ~dirty
        PROVE  Rebuilt(k)'
    <2>1. ~tick.raw /\ SamePlace(tick.timeline, timeline[k])
      BY <1>1, <1>3 DEF CatchUpInv, ModeAgrees
    <2>2. BuildStyled(due)
      BY <2>1 DEF BuildRaw
    <2>3. last' = [last EXCEPT ![cur] =
              Content(Picture(IF tick.timeline = None THEN Snapshot ELSE tick.timeline,
                              overrides, view[cur]))]
      BY <2>2 DEF BuildStyled
    <2>4. last'[k] = Content(Picture(IF tick.timeline = None THEN Snapshot ELSE tick.timeline,
                                     overrides, view[k]))
      BY <1>3, <2>3 DEF CatchUpInv, CatchUpShape, ClientShape
    <2>5. UNCHANGED <<graph, overrides, view, timeline>>
      BY <1>1 DEF world
    <2>6. CASE timeline[k] = None
      <3>1. tick.timeline = None /\ Snapshot = graph
        BY <1>3, <2>1, <2>6 DEF SamePlace, Snapshot, CatchUpInv, SnapshotIsCurrent
      <3>2. BuiltFrom(k, graph)'
        BY <2>4, <2>5, <3>1 DEF BuiltFrom, Content
      <3> QED
        BY <2>5, <2>6, <3>2 DEF Rebuilt
    <2>7. CASE timeline[k] # None
      <3>1. /\ tick.timeline \in Windows /\ tick.timeline # None
            /\ tick.timeline.capture = timeline[k].capture
        BY <2>1, <2>7 DEF SamePlace, CatchUpInv, CatchUpShape, TickShape
      <3>2. built'[k] = tick.timeline.t
        BY <1>1, <1>3, <2>7, <3>1 DEF MarkTimelineBuilt, CatchUpInv, CatchUpShape, ClientShape
      <3>3. PICK w \in Windows : w = tick.timeline
        BY <3>1
      <3>4. BuiltFrom(k, w)'
        BY <2>4, <2>5, <3>1, <3>3 DEF BuiltFrom, Content
      <3> QED
        BY <2>5, <2>7, <3>1, <3>2, <3>3, <3>4 DEF Rebuilt
    <2> QED
      BY <2>6, <2>7
  <1>4. CaughtUp'
    <2> SUFFICES ASSUME NEW d \in clients PROVE (Due(d) \/ Rebuilt(d))'
      BY <1>1 DEF CaughtUp
    <2>1. d \in Conns
      BY DEF ChannelInv, ChannelTypes
    <2>2. CASE d = cur /\ ~needsFull[d] /\ ~raw[d] /\ ~dirty
      BY <1>3, <2>1, <2>2
    <2>3. CASE d = cur /\ (needsFull[d] \/ raw[d] \/ dirty)
      BY <1>1, <2>3 DEF Due, world
    <2> QED
      BY <1>2, <2>2, <2>3
  <1> QED
    BY <1>1, <1>4 DEF CatchUpInv, CatchUpShape

\* A send changes no view; when it drops its client there is one client less to care for.
LEMMA CatchUpSend == CatchUpInv /\ TrySend => CatchUpInv'
  <1> SUFFICES ASSUME CatchUpInv, TrySend PROVE CatchUpInv'
    OBVIOUS
  <1>1. /\ UNCHANGED <<world, resyncAll, todo, client, pumps>> /\ hpc = "send"
        /\ clients' \subseteq clients
    BY DEF TrySend
  <1>2. PICK out : Onward(out, tick.snapshot)
    BY DEF TrySend
  <1>3. /\ TickShape'
        /\ tick'.snapshot = tick.snapshot \/ tick'.snapshot = None
        /\ hpc' \in {"send", "next", "select"}
        /\ hpc' = "select" => tick'.snapshot = None
    BY <1>2, OnwardSnapshot DEF CatchUpInv, CatchUpShape
  <1>4. (ClientShape /\ NewNeedFull)'
    BY <1>1 DEF CatchUpInv, CatchUpShape, ClientShape, NewNeedFull, client, pumps
  <1>5. (SnapshotIsCurrent /\ ModeAgrees)'
    BY <1>1, <1>3 DEF CatchUpInv, SnapshotIsCurrent, ModeAgrees, world
  <1>6. CaughtUp'
    <2> SUFFICES ASSUME NEW d \in clients PROVE (Due(d) \/ Rebuilt(d))'
      BY <1>1 DEF CaughtUp
    <2>1. Due(d) \/ Rebuilt(d)
      BY DEF CatchUpInv, CaughtUp
    <2>2. CASE Due(d)
      BY <1>1, <2>2 DEF Due, world, client
    <2>3. CASE Rebuilt(d)
      BY <1>1, <2>3 DEF Rebuilt, BuiltFrom, Content, world, client
    <2> QED
      BY <2>1, <2>2, <2>3
  <1> QED
    BY <1>3, <1>4, <1>5, <1>6 DEF CatchUpInv, CatchUpShape

\* Every step keeps CatchUpInv.
LEMMA CatchUpStep == CatchUpInv /\ ChannelInv /\ [Next]_vars => CatchUpInv'
  <1> SUFFICES ASSUME CatchUpInv, ChannelInv, [Next]_vars
               PROVE  CatchUpInv'
    OBVIOUS
  <1>1. CASE \/ \E c \in Conns : \/ Connect(c) \/ SocketBreaks(c) \/ ReadFails(c)
                                 \/ WriteMessage(c) \/ PumpEnds(c)
             \/ \E b \in Browsers : TimerFires(b)
             \/ UNCHANGED vars
    <2>1. UNCHANGED <<world, hub, client>>
      BY <1>1 DEF Connect, SocketBreaks, ReadFails, WriteMessage, PumpEnds, TimerFires, vars
    <2>2. \A d \in Conns : reader'[d] \in Unregistered => reader[d] \in Unregistered
      <3>1. CASE UNCHANGED reader
        BY <3>1
      <3>2. ASSUME NEW c \in Conns, Connect(c)
            PROVE  <2>2
        BY <3>2 DEF Connect, ChannelInv, ChannelTypes, ConnectsOnce, Unregistered
      <3>3. ASSUME NEW c \in Conns, ReadFails(c)
            PROVE  <2>2
        BY <3>3 DEF ReadFails, ChannelInv, ChannelTypes, Unregistered
      <3> QED
        BY <1>1, <3>1, <3>2, <3>3
           DEF SocketBreaks, WriteMessage, PumpEnds, TimerFires, vars, pumps
    <2> QED
      BY <2>1, <2>2, CatchUpElsewhere
  <1>2. CASE GraphChanges \/ SaveOverride \/ MarkResyncAll
    BY <1>2, CatchUpWorld
  <1>3. ASSUME NEW c \in Conns, ApplyControl(c)
        PROVE  CatchUpInv'
    BY <1>3, CatchUpControl
  <1>4. CASE \/ \E c \in Conns : Register(c) \/ Unregister(c)
             \/ ResyncAll
             \/ \E layoutBusy \in BOOLEAN : TickStarts(layoutBusy)
    BY <1>4, CatchUpSelect
  <1>5. CASE TickStep
    <2>1. CASE ClearDirty \/ DrainFlows \/ ReadMode \/ \E c \in Conns : ConsumeNeedsFull(c)
      BY <2>1, CatchUpHead
    <2>2. ASSUME NEW due, BuildRaw(due) \/ BuildStyled(due)
          PROVE  CatchUpInv'
      BY <2>2, CatchUpBuild
    <2> QED
      BY <1>5, <2>1, <2>2, CatchUpSend DEF TickStep
  <1> QED
    BY <1>1, <1>2, <1>3, <1>4, <1>5 DEF Next, Environment

\* In every behaviour of the hub a client is marked for a rebuild, or its last view was
\* built from the graph, the overrides and the position it is to show (tick, applyControl,
\* MarkResyncAll).
THEOREM CatchUpInvariant == Spec => []CatchUpInv
  <1>1. Init => CatchUpInv
    BY CatchUpInit
  <1>2. CatchUpInv /\ ChannelInv /\ [Next]_vars => CatchUpInv'
    BY CatchUpStep
  <1> QED
    BY <1>1, <1>2, ChannelInvariant, PTL DEF Spec

\* No change of the graph, of the overrides or of a client's controls is lost between the
\* flags and the views, whatever comes in while a tick runs (websocket.go tick).
THEOREM NothingLost == Spec => []NothingForgotten
  <1>1. CatchUpInv /\ ChannelInv => NothingForgotten
    <2> SUFFICES ASSUME CatchUpInv, ChannelInv, hpc = "select", ~dirty, ~resyncAll, handler = "idle",
                        NEW c \in clients, ~needsFull[c], ~raw[c], ~TimelineDirty(c)
                 PROVE  last[c] = Showing(c)
      BY DEF NothingForgotten
    <2>1. c \in Conns /\ ~Due(c)
      BY DEF Due, ChannelInv, ChannelTypes, TickServesMembers
    <2>2. Rebuilt(c)
      BY <2>1 DEF CatchUpInv, CaughtUp
    <2>3. CASE timeline[c] = None
      BY <2>2, <2>3 DEF Rebuilt, BuiltFrom, Showing
    <2>4. CASE timeline[c] # None
      <3>1. PICK w \in Windows : /\ w.capture = timeline[c].capture /\ w.t = built[c]
                                 /\ BuiltFrom(c, w)
        BY <2>2, <2>4 DEF Rebuilt
      <3>2. timeline[c] \in Windows /\ built[c] = timeline[c].t
        BY <2>1, <2>4 DEF TimelineDirty, CatchUpInv, CatchUpShape, ClientShape
      <3>3. w = timeline[c]
        BY <3>1, <3>2, HubAssumption
      <3> QED
        BY <2>4, <3>1, <3>3 DEF BuiltFrom, Showing
    <2> QED
      BY <2>3, <2>4
  <1> QED
    BY <1>1, CatchUpInvariant, ChannelInvariant, PTL

-----------------------------------------------------------------------------
(* Types, and queues of well-formed messages.                              *)

\* A message of the hub: its kind, and of a delta whether it begins, continues or
\* completes a full picture.
Well(m) ==
    /\ m.kind \in {"delta", "counts", "rawMeta", "raw"}
    /\ m.kind = "delta" =>
          /\ m.full \in BOOLEAN /\ m.partial \in BOOLEAN /\ m.done \in BOOLEAN
          /\ m.full => (m.partial <=> ~m.done)
          /\ m.done => m.full \/ m.partial

Queue(w) == (\E S : w \in Seq(S)) /\ \A k \in 1 .. Len(w) : Well(w[k])

\* No message is a queue,
LEMMA QueueEmpty == Queue(<<>>)
<1>1. <<>> \in Seq({}) /\ Len(<<>>) = 0
  OBVIOUS
<1> QED
  BY <1>1 DEF Queue

\* one well-formed message is,
LEMMA QueueOne ==
    ASSUME NEW m, Well(m)
    PROVE  Queue(<<m>>)
<1>1. <<m>> \in Seq({m}) /\ Len(<<m>>) = 1 /\ <<m>>[1] = m
  OBVIOUS
<1>2. \A k \in 1 .. 1 : k = 1
  OBVIOUS
<1> QED
  BY <1>1, <1>2 DEF Queue

\* and two queues in a row are, each where it is expected.
LEMMA QueueJoin ==
    ASSUME NEW v, NEW w, Queue(v), Queue(w)
    PROVE  /\ Queue(v \o w) /\ Len(v) \in Nat /\ Len(w) \in Nat /\ Len(v \o w) = Len(v) + Len(w)
           /\ \A k \in 1 .. Len(v) : (v \o w)[k] = v[k]
           /\ \A k \in Len(v) + 1 .. Len(v) + Len(w) : (v \o w)[k] = w[k - Len(v)]
<1>1. PICK S : v \in Seq(S)
  BY DEF Queue
<1>2. PICK T : w \in Seq(T)
  BY DEF Queue
<1>3. v \in Seq(S \cup T) /\ w \in Seq(S \cup T)
  BY <1>1, <1>2
<1>4. /\ v \o w \in Seq(S \cup T) /\ Len(v \o w) = Len(v) + Len(w)
      /\ Len(v) \in Nat /\ Len(w) \in Nat
      /\ \A k \in 1 .. Len(v) : (v \o w)[k] = v[k]
      /\ \A k \in Len(v) + 1 .. Len(v) + Len(w) : (v \o w)[k] = w[k - Len(v)]
  BY <1>3
<1>5. ASSUME NEW k \in 1 .. Len(v \o w) PROVE Well((v \o w)[k])
  <2>1. CASE k \in 1 .. Len(v)
    BY <1>4, <2>1 DEF Queue
  <2>2. CASE k \in Len(v) + 1 .. Len(v) + Len(w)
    <3>1. k - Len(v) \in 1 .. Len(w)
      BY <1>4, <2>2
    <3> QED
      BY <1>4, <2>2, <3>1 DEF Queue
  <2> QED
    BY <1>4, <2>1, <2>2
<1> QED
  BY <1>4, <1>5 DEF Queue

\* The rest of a queue, once its first message is gone.
LEMMA QueueTail ==
    ASSUME NEW w, Queue(w), w # <<>>
    PROVE  /\ Queue(Tail(w)) /\ Well(Head(w)) /\ w[1] = Head(w) /\ Len(w) \in Nat /\ Len(w) # 0
           /\ Len(Tail(w)) = Len(w) - 1 /\ \A k \in 1 .. Len(w) - 1 : Tail(w)[k] = w[k + 1]
<1>1. PICK S : w \in Seq(S)
  BY DEF Queue
<1>2. /\ Tail(w) \in Seq(S) /\ Len(w) \in Nat /\ Len(w) # 0 /\ w[1] = Head(w)
      /\ Len(Tail(w)) = Len(w) - 1 /\ \A k \in 1 .. Len(w) - 1 : Tail(w)[k] = w[k + 1]
  BY <1>1
<1>3. ASSUME NEW k \in 1 .. Len(w) - 1 PROVE Well(Tail(w)[k])
  <2>1. k + 1 \in 1 .. Len(w)
    BY <1>2
  <2> QED
    BY <1>2, <2>1 DEF Queue
<1>4. Well(Head(w))
  <2>1. 1 \in 1 .. Len(w)
    BY <1>2
  <2> QED
    BY <1>2, <2>1 DEF Queue
<1> QED
  BY <1>2, <1>3, <1>4 DEF Queue

\* Sending the first of the messages to come changes nothing of what is queued in all.
LEMMA QueueMoves ==
    ASSUME NEW v, NEW w, Queue(v), Queue(w), w # <<>>
    PROVE  /\ Queue(Append(v, Head(w))) /\ Len(Append(v, Head(w))) = Len(v) + 1
           /\ Append(v, Head(w)) \o Tail(w) = v \o w
           /\ Tail(w) = <<>> => Append(v, Head(w)) = v \o w
<1>1. PICK S : v \in Seq(S)
  BY DEF Queue
<1>2. PICK T : w \in Seq(T)
  BY DEF Queue
<1> DEFINE U == S \cup T
<1>3. v \in Seq(U) /\ w \in Seq(U)
  BY <1>1, <1>2
<1> HIDE DEF U
<1>4. /\ Append(v, Head(w)) \in Seq(U) /\ Len(Append(v, Head(w))) = Len(v) + 1
      /\ Append(v, Head(w)) \o Tail(w) = v \o w
      /\ Head(w) \in U
  BY <1>3
<1>5. Append(v, Head(w)) = v \o <<Head(w)>>
  BY <1>3, <1>4
<1>6. Well(Head(w))
  BY QueueTail
<1>7. Queue(v \o <<Head(w)>>)
  BY <1>6, QueueOne, QueueJoin
<1>8. Tail(w) = <<>> => Append(v, Head(w)) \o Tail(w) = Append(v, Head(w))
  BY <1>4
<1> QED
  BY <1>4, <1>5, <1>7, <1>8

\* Nothing behind a queue changes nothing.
LEMMA QueueFront ==
    ASSUME NEW v, Queue(v)
    PROVE  v \o <<>> = v
<1>1. PICK S : v \in Seq(S)
  BY DEF Queue
<1> QED
  BY <1>1

-----------------------------------------------------------------------------
(* What the hub sends.                                                     *)

\* What the quotient of two numbers is.
LEMMA DivIs ==
    ASSUME NEW a \in Nat, NEW c \in Nat \ {0}
    PROVE  /\ a \div c \in Nat /\ (a \div c) * c <= a /\ a < (a \div c) * c + c
  OBVIOUS

\* Enough chunks for all of them, and more than one.
LEMMA CountIs ==
    ASSUME NEW S, NEW order \in Seq(S), Len(order) > FullChunkSize
    PROVE  ChunkCount(order) \in Nat /\ ChunkCount(order) >= 2
           /\ Len(order) <= ChunkCount(order) * FullChunkSize
<1> DEFINE n == ChunkCount(order)
           c == FullChunkSize
<1>1. Len(order) \in Nat /\ c \in Nat \ {0} /\ Len(order) > c
  BY HubAssumption
<1>2. n \in Nat /\ n * c <= Len(order) + c - 1 /\ Len(order) + c - 1 < n * c + c
  BY <1>1, DivIs DEF ChunkCount
<1> HIDE DEF n, c
<1>3. Len(order) <= n * c
  BY <1>1, <1>2
<1>4. n # 0 /\ n # 1
  BY <1>1, <1>3
<1> QED
  BY <1>2, <1>3, <1>4 DEF n, c

\* The messages of a delta: itself, complete when it is full; or the chunks of a full.
LEMMA SplitIs ==
    ASSUME NEW order, NEW d, d.kind = "delta", d.full \in BOOLEAN, d.partial = FALSE,
           NEW S, order \in Seq(S),
           DOMAIN d = {"kind", "node", "edge", "gone", "cut", "full", "partial", "done", "total"}
    PROVE  /\ Queue(SplitDelta(order, d))
           /\ ~d.full \/ Len(order) <= FullChunkSize =>
                 SplitDelta(order, d) = <<[d EXCEPT !.done = d.full]>>
           /\ d.full /\ Len(order) > FullChunkSize =>
                 /\ Len(SplitDelta(order, d)) = ChunkCount(order)
                 /\ \A k \in 1 .. ChunkCount(order) :
                       SplitDelta(order, d)[k] = Chunk(order, d, k, Riding(order, d, k), k = ChunkCount(order))
<1>1. Len(order) \in Nat /\ FullChunkSize \in Nat
  BY HubAssumption
<1>2. CASE ~d.full \/ Len(order) <= FullChunkSize
  <2> DEFINE m == [d EXCEPT !.done = d.full]
  <2>1. SplitDelta(order, d) = <<m>>
    BY <1>2 DEF SplitDelta
  <2>2. m.kind = "delta" /\ m.full = d.full /\ m.partial = d.partial /\ m.done = d.full
    OBVIOUS
  <2>3. Well(m)
    BY <2>2 DEF Well
  <2> QED
    BY <1>1, <1>2, <2>1, <2>3, QueueOne
<1>3. CASE d.full /\ Len(order) > FullChunkSize
  <2> DEFINE n == ChunkCount(order)
             w == SplitDelta(order, d)
             m(k) == Chunk(order, d, k, Riding(order, d, k), k = n)
  <2>1. n \in Nat /\ n >= 2
    BY <1>3, CountIs
  <2>2. w = [k \in 1 .. n |-> m(k)]
    BY <1>1, <1>3 DEF SplitDelta
  <2>3. ASSUME NEW k \in 1 .. n PROVE Well(m(k))
    <3>1. /\ m(k).kind = "delta" /\ m(k).partial \in BOOLEAN /\ m(k).partial
          /\ m(k).full \in BOOLEAN /\ (m(k).full <=> k = 1)
          /\ m(k).done \in BOOLEAN /\ (m(k).done <=> k = n)
      BY DEF Chunk
    <3> HIDE DEF m, n
    <3> QED
      BY <2>1, <3>1 DEF Well
  <2> HIDE DEF w, m, n
  <2>4. w \in Seq({m(k) : k \in 1 .. n}) /\ Len(w) = n
    BY <2>1, <2>2
  <2>5. \A k \in 1 .. n : w[k] = m(k)
    BY <2>2
  <2>6. Queue(w)
    BY <2>3, <2>4, <2>5 DEF Queue
  <2> QED
    BY <1>1, <1>3, <2>4, <2>5, <2>6 DEF w, m, n
<1> QED
  BY <1>1, <1>2, <1>3

-----------------------------------------------------------------------------
(* Types.                                                                  *)

WorldTyped ==
    /\ graph \in Graphs /\ dirty \in BOOLEAN /\ flows \in BOOLEAN
    /\ overrides \in Nat /\ events \in 0 .. MaxEvents /\ overrides <= events
    /\ handler \in {"idle", "saved"}
    /\ resyncAll \in BOOLEAN /\ tickSeq \in 0 .. (RebuildEvery - 1)

TickTyped ==
    /\ hpc \in {"select", "clear", "drain", "next", "mode", "build", "send"}
    /\ cur \in Conns \cup {0} /\ (cur \in Conns <=> hpc \in {"mode", "build", "send"})
    /\ tick.flows \in BOOLEAN /\ tick.full \in BOOLEAN /\ tick.raw \in BOOLEAN
    /\ tick.snapshot \in Graphs \cup {None}
    /\ Queue(tick.out) /\ (hpc = "send" <=> tick.out # <<>>)

PipesTyped ==
    /\ DOMAIN send = Conns
    /\ \A c \in Conns : Queue(send[c]) /\ Len(send[c]) <= SendCap
    /\ panicked \in BOOLEAN /\ pump \in [Conns -> {"none", "pumping", "done"}]

TypeInv == WorldTyped /\ TickTyped /\ PipesTyped

\* What holds by the proofs before.
Settled == ChannelInv /\ CatchUpInv

\* The parts of Settled the steps below need.
LEMMA SettledTypes ==
    ASSUME Settled
    PROVE  TickShape /\ ClientShape /\ ChannelTypes /\ MembersAreOpen /\ TickServesMembers
  BY DEF Settled, ChannelInv, CatchUpInv, CatchUpShape

\* No connection is the current one when cur is 0.
LEMMA ZeroIsNone == 0 \notin Conns /\ Conns \subseteq Nat
  BY HubAssumption DEF Conns

\* The two type invariants together are the one of the model.
LEMMA TypesAreOK ==
    ASSUME TypeInv, Settled
    PROVE  TypeOK
<1>1. TickShape /\ ClientShape /\ ChannelTypes
  BY SettledTypes
<1>2. overrides \in 0 .. MaxEvents
  BY HubAssumption DEF TypeInv, WorldTyped
<1> QED
  BY <1>1, <1>2 DEF TypeInv, WorldTyped, TickTyped, PipesTyped, TickShape, ClientShape,
                    ChannelTypes, TypeOK

\* Initially every variable has its type.
LEMMA TypeInit == Init => TypeInv
<1> SUFFICES ASSUME Init PROVE TypeInv
  OBVIOUS
<1>1. WorldTyped
  <2>1. MaxEvents \in Nat /\ RebuildEvery \in Nat \ {0} /\ FirstGraph \in Graphs
    BY HubAssumption
  <2>2. 0 \in 0 .. MaxEvents /\ 0 \in 0 .. (RebuildEvery - 1) /\ 0 \in Nat /\ 0 <= 0
    BY <2>1
  <2>3. /\ graph = FirstGraph /\ dirty = FALSE /\ flows = FALSE /\ overrides = 0 /\ handler = "idle"
        /\ resyncAll = FALSE /\ tickSeq = 0 /\ events = 0
    BY DEF Init
  <2> QED
    BY <2>1, <2>2, <2>3 DEF WorldTyped
<1>2. TickTyped
  BY ZeroIsNone, QueueEmpty DEF Init, TickTyped, NoTick
<1>3. PipesTyped
  <2>1. Len(<<>>) = 0 /\ SendCap \in Nat
    BY HubAssumption
  <2>2. \A c \in Conns : send[c] = <<>>
    BY DEF Init
  <2>3. \A c \in Conns : Queue(send[c]) /\ Len(send[c]) <= SendCap
    BY <2>1, <2>2, QueueEmpty
  <2> QED
    BY <2>3 DEF Init, PipesTyped
<1> QED
  BY <1>1, <1>2, <1>3 DEF TypeInv

\* Going on to the next message or client keeps the types of the tick.
LEMMA OnwardTyped ==
    ASSUME NEW out, NEW snapshot, Onward(out, snapshot), Queue(out), TypeInv, Settled,
           snapshot \in Graphs \cup {None}, hpc \in {"build", "send"}
    PROVE  TickTyped'
<1>1. DOMAIN tick = {"flows", "snapshot", "full", "raw", "timeline", "out"} /\ cur \in Conns
  BY SettledTypes DEF TickShape, TypeInv, TickTyped
<1>2. CASE out # <<>>
  <2>1. tick' = [tick EXCEPT !.out = out, !.snapshot = snapshot] /\ hpc' = "send" /\ cur' = cur
    BY <1>2 DEF Onward
  <2>2. /\ tick'.out = out /\ tick'.snapshot = snapshot /\ tick'.flows = tick.flows
        /\ tick'.full = tick.full /\ tick'.raw = tick.raw
    BY <1>1, <2>1
  <2> QED
    BY <1>1, <1>2, <2>1, <2>2 DEF TypeInv, TickTyped
<1>3. CASE out = <<>>
  <2>1. /\ tick' \in {[NoTick EXCEPT !.flows = tick.flows, !.snapshot = snapshot], NoTick}
        /\ hpc' \in {"next", "select"} /\ cur' = 0
    BY <1>3 DEF Onward
  <2>2. CASE tick' = NoTick
    BY <2>1, <2>2, ZeroIsNone, QueueEmpty DEF NoTick, TickTyped
  <2>3. CASE tick' = [NoTick EXCEPT !.flows = tick.flows, !.snapshot = snapshot]
    <3>1. /\ tick'.out = <<>> /\ tick'.snapshot = snapshot /\ tick'.flows = tick.flows
          /\ tick'.full = FALSE /\ tick'.raw = FALSE
      BY <2>3 DEF NoTick
    <3> QED
      BY <2>1, <3>1, ZeroIsNone, QueueEmpty DEF TypeInv, TickTyped
  <2> QED
    BY <2>1, <2>2, <2>3
<1> QED
  BY <1>2, <1>3

\* An event of the world stays within its bound, and the overrides within the events.
LEMMA EventsGrow ==
    ASSUME WorldTyped, Happens
    PROVE  events' \in 0 .. MaxEvents /\ events' = events + 1 /\ overrides + 1 \in Nat
           /\ overrides <= events' /\ overrides + 1 <= events'
<1>1. events \in Nat /\ MaxEvents \in Nat /\ events < MaxEvents /\ events' = events + 1
      /\ overrides \in Nat /\ overrides <= events
  BY HubAssumption DEF Happens, WorldTyped
<1> QED
  BY <1>1

\* Every step keeps the types of the world.
LEMMA WorldStep ==
    ASSUME TypeInv, Settled, [Next]_vars
    PROVE  WorldTyped'
<1> USE DEF TypeInv
<1>1. CASE UNCHANGED <<world, resyncAll, tickSeq>>
  BY <1>1 DEF world, WorldTyped
<1>2. CASE GraphChanges
  <2>1. UNCHANGED <<overrides, handler, resyncAll, tickSeq>> /\ graph' \in Graphs /\ dirty' = TRUE
        /\ flows' \in BOOLEAN /\ Happens
    BY <1>2 DEF GraphChanges, hub, WorldTyped
  <2> QED
    BY <2>1, EventsGrow DEF WorldTyped
<1>3. CASE SaveOverride
  <2>1. UNCHANGED <<graph, dirty, flows, resyncAll, tickSeq>> /\ overrides' = overrides + 1
        /\ handler' = "saved" /\ Happens
    BY <1>3 DEF SaveOverride, hub
  <2> QED
    BY <2>1, EventsGrow DEF WorldTyped
<1>4. CASE MarkResyncAll
  BY <1>4 DEF MarkResyncAll, WorldTyped
<1>5. ASSUME NEW c, ApplyControl(c) PROVE WorldTyped'
  <2>1. UNCHANGED <<graph, dirty, flows, overrides, handler, resyncAll, tickSeq>> /\ Happens
    BY <1>5 DEF ApplyControl, hub
  <2> QED
    BY <2>1, EventsGrow DEF WorldTyped
<1>6. CASE ResyncAll
  BY <1>6 DEF ResyncAll, world, WorldTyped
<1>7. ASSUME NEW layoutBusy, TickStarts(layoutBusy) PROVE WorldTyped'
  <2>1. UNCHANGED <<graph, dirty, flows, overrides, handler, events, resyncAll>>
        /\ tickSeq' = (tickSeq + 1) % RebuildEvery
    BY <1>7 DEF TickStarts, world
  <2>2. RebuildEvery \in Nat \ {0} /\ tickSeq + 1 \in Nat
    BY HubAssumption DEF WorldTyped
  <2>3. tickSeq' \in 0 .. (RebuildEvery - 1)
    BY <2>1, <2>2
  <2> QED
    BY <2>1, <2>3 DEF WorldTyped
<1>8. CASE ClearDirty \/ DrainFlows
  BY <1>8 DEF ClearDirty, DrainFlows, WorldTyped
<1>9. ASSUME NEW c, \/ Connect(c) \/ SocketBreaks(c) \/ ReadFails(c) \/ Register(c) \/ Unregister(c)
                    \/ WriteMessage(c) \/ PumpEnds(c) \/ TimerFires(c) \/ ConsumeNeedsFull(c)
                    \/ BuildRaw(c) \/ BuildStyled(c) \/ ReadMode \/ TrySend
      PROVE  WorldTyped'
  <2>1. UNCHANGED <<world, resyncAll, tickSeq>>
    BY <1>9 DEF Connect, SocketBreaks, ReadFails, Register, Unregister, WriteMessage, PumpEnds,
                TimerFires, ConsumeNeedsFull, BuildRaw, BuildStyled, ReadMode, TrySend, hub
  <2> QED
    BY <1>1, <2>1
<1>10. CASE UNCHANGED vars
  BY <1>1, <1>10 DEF vars, hub
<1> QED
  BY <1>2, <1>3, <1>4, <1>5, <1>6, <1>7, <1>8, <1>9, <1>10 DEF Next, Environment, TickStep

-----------------------------------------------------------------------------
(* What a tick sends a client.                                             *)

IsMap(f) == f = [x \in DOMAIN f |-> f[x]]

\* Two functions with the same domain and values are the same.
LEMMA SameMap ==
    ASSUME NEW f, NEW g, IsMap(f), IsMap(g), DOMAIN f = DOMAIN g, \A x \in DOMAIN f : f[x] = g[x]
    PROVE  f = g
  BY DEF IsMap

\* A view as BuildView draws it.
Drawable(p) ==
    /\ p.order \in Seq(DOMAIN p.node)
    /\ \A n \in DOMAIN p.node : \E i \in DOMAIN p.order : p.order[i] = n
    /\ IsMap(p.node) /\ IsMap(p.edge)
    /\ \A e \in DOMAIN p.edge : e # {} /\ e \subseteq DOMAIN p.node

CountsOf(p) == [kind |-> "counts", total |-> p.total]

\* The messages of a styled tick: the difference from l to p, if it says anything or a flow
\* is to be shown, and perhaps the counters.
IsAnswer(out, l, p, full) ==
    \E styled, counts :
        /\ out = styled \o counts
        /\ \/ styled = <<>> /\ IsNil(BuildDelta(l, p, full))
           \/ styled = SplitDelta(p.order, BuildDelta(l, p, full))
        /\ counts = <<>> \/ counts = <<CountsOf(p)>>

\* What a tick makes of a styled client.
LEMMA StyledIs ==
    ASSUME NEW due, BuildStyled(due), TypeInv, Settled
    PROVE  \E p, out, snapshot :
              /\ Drawable(p) /\ IsAnswer(out, last[cur], p, tick.full)
              /\ last' = [last EXCEPT ![cur] = Content(p)]
              /\ Onward(out, snapshot) /\ snapshot \in Graphs \cup {None}
<1> DEFINE live == tick.timeline = None
           source == IF live THEN Snapshot ELSE tick.timeline
           p == Picture(source, overrides, view[cur])
           delta == BuildDelta(last[cur], p, tick.full)
           quiet == IsNil(delta) /\ ~(live /\ tick.flows)
           counts == IF due /\ ~tick.full THEN <<[kind |-> "counts", total |-> p.total]>>
                     ELSE <<>>
           out == (IF quiet THEN <<>> ELSE SplitDelta(p.order, delta)) \o counts
           snapshot == IF live THEN Snapshot ELSE tick.snapshot
<1>1. last' = [last EXCEPT ![cur] = Content(p)] /\ Onward(out, snapshot) /\ hpc = "build"
  BY DEF BuildStyled
<1>2. Snapshot \in Graphs /\ snapshot \in Graphs \cup {None}
  BY DEF Snapshot, TypeInv, TickTyped, WorldTyped
<1>3. source \in Sources /\ overrides \in 0 .. MaxEvents /\ view[cur] \in Views
  <2>1. cur \in Conns /\ view \in [Conns -> Views] /\ tick.timeline \in Windows \cup {None}
    BY <1>1, SettledTypes DEF TypeInv, TickTyped, TickShape, ClientShape
  <2>2. overrides \in 0 .. MaxEvents
    BY HubAssumption DEF TypeInv, WorldTyped
  <2> QED
    BY <1>2, <2>1, <2>2 DEF Sources
<1>4. Drawable(p)
  <2> HIDE DEF source
  <2> QED
    BY <1>3, HubAssumption DEF Drawable, IsMap
<1>5. IsAnswer(out, last[cur], p, tick.full)
  <2> DEFINE styled == IF quiet THEN <<>> ELSE SplitDelta(p.order, delta)
  <2>1. \/ styled = <<>> /\ IsNil(BuildDelta(last[cur], p, tick.full))
        \/ styled = SplitDelta(p.order, BuildDelta(last[cur], p, tick.full))
    OBVIOUS
  <2>2. counts = <<>> \/ counts = <<CountsOf(p)>>
    BY DEF CountsOf
  <2>3. out = styled \o counts
    OBVIOUS
  <2> HIDE DEF styled, counts, out, p
  <2> QED
    BY <2>1, <2>2, <2>3 DEF IsAnswer
<1> HIDE DEF p, out, snapshot
<1> QED
  BY <1>1, <1>2, <1>4, <1>5

\* The counters travel in one message or none.
LEMMA CountsQueued ==
    ASSUME NEW p, NEW counts, counts = <<>> \/ counts = <<CountsOf(p)>>
    PROVE  /\ Queue(counts) /\ Len(counts) \in 0 .. 1
           /\ \A k \in 1 .. Len(counts) : counts[k].kind = "counts"
<1>1. CASE counts = <<>>
  <2>1. Len(counts) = 0
    BY <1>1
  <2> QED
    BY <1>1, <2>1, QueueEmpty
<1>2. CASE counts = <<CountsOf(p)>>
  <2>1. Len(counts) = 1 /\ counts[1] = CountsOf(p) /\ CountsOf(p).kind = "counts"
    BY <1>2 DEF CountsOf
  <2>2. Well(CountsOf(p))
    BY <2>1 DEF Well
  <2>3. Queue(counts)
    BY <1>2, <2>2, QueueOne
  <2>4. \A k \in 1 .. 1 : k = 1
    OBVIOUS
  <2> QED
    BY <2>1, <2>3, <2>4
<1> QED
  BY <1>1, <1>2

\* The messages of a styled tick are well-formed.
LEMMA AnswerQueued ==
    ASSUME NEW p, NEW l, NEW full \in BOOLEAN, NEW out, Drawable(p), IsAnswer(out, l, p, full)
    PROVE  Queue(out)
<1> DEFINE delta == BuildDelta(l, p, full)
<1>1. /\ delta.kind = "delta" /\ delta.full \in BOOLEAN /\ delta.partial = FALSE
      /\ DOMAIN delta = {"kind", "node", "edge", "gone", "cut", "full", "partial", "done", "total"}
  BY DEF BuildDelta
<1> HIDE DEF delta
<1>2. Queue(SplitDelta(p.order, delta))
  BY <1>1, SplitIs DEF Drawable
<1>3. PICK styled, counts : /\ out = styled \o counts
                            /\ styled = <<>> \/ styled = SplitDelta(p.order, delta)
                            /\ counts = <<>> \/ counts = <<CountsOf(p)>>
  BY DEF IsAnswer, delta
<1>4. Queue(styled) /\ Queue(counts)
  BY <1>2, <1>3, QueueEmpty, CountsQueued
<1> QED
  BY <1>3, <1>4, QueueJoin

\* Every step keeps the types of the tick and its messages well-formed.
LEMMA TickStepTyped ==
    ASSUME TypeInv, Settled, [Next]_vars
    PROVE  TickTyped'
<1> DEFINE Same == UNCHANGED <<hpc, cur, tick>>
<1>0. /\ TickTyped /\ WorldTyped /\ ClientShape
      /\ DOMAIN tick = {"flows", "snapshot", "full", "raw", "timeline", "out"}
  BY SettledTypes DEF TypeInv, TickShape
<1>1. CASE Same
  BY <1>0, <1>1 DEF TickTyped
<1>2. ASSUME NEW c, \/ GraphChanges \/ SaveOverride \/ MarkResyncAll \/ ApplyControl(c)
                    \/ Connect(c) \/ SocketBreaks(c) \/ ReadFails(c) \/ Register(c) \/ Unregister(c)
                    \/ WriteMessage(c) \/ PumpEnds(c) \/ TimerFires(c) \/ ResyncAll \/ UNCHANGED vars
      PROVE  TickTyped'
  <2>1. Same
    BY <1>2 DEF GraphChanges, SaveOverride, MarkResyncAll, ApplyControl, Connect, SocketBreaks,
                ReadFails, Register, Unregister, WriteMessage, PumpEnds, TimerFires, ResyncAll, vars, hub
  <2> QED
    BY <1>1, <2>1
<1>3. ASSUME NEW layoutBusy, TickStarts(layoutBusy) PROVE TickTyped'
  <2>1. hpc = "select" /\ hpc' \in {"select", "clear"} /\ UNCHANGED <<cur, tick>>
    BY <1>3 DEF TickStarts
  <2> QED
    BY <1>0, <2>1 DEF TickTyped
<1>4. CASE ClearDirty
  <2>1. hpc = "clear" /\ hpc' = "drain" /\ UNCHANGED <<cur, tick>>
    BY <1>4 DEF ClearDirty
  <2> QED
    BY <1>0, <2>1 DEF TickTyped
<1>5. CASE DrainFlows
  <2>1. hpc = "drain" /\ hpc' = "next" /\ cur' = cur /\ tick' = [NoTick EXCEPT !.flows = flows]
    BY <1>5 DEF DrainFlows
  <2>2. /\ tick'.out = <<>> /\ tick'.flows = flows /\ tick'.full = FALSE /\ tick'.raw = FALSE
        /\ tick'.snapshot = None
    BY <2>1 DEF NoTick
  <2> QED
    BY <1>0, <2>1, <2>2, QueueEmpty DEF TickTyped, WorldTyped
<1>6. ASSUME NEW c \in Conns, ConsumeNeedsFull(c) PROVE TickTyped'
  <2>1. hpc = "next" /\ hpc' = "mode" /\ cur' = c /\ tick' = [tick EXCEPT !.full = needsFull[c]]
    BY <1>6 DEF ConsumeNeedsFull
  <2>2. /\ tick'.out = tick.out /\ tick'.flows = tick.flows /\ tick'.full = needsFull[c]
        /\ tick'.raw = tick.raw /\ tick'.snapshot = tick.snapshot
    BY <1>0, <2>1
  <2>3. needsFull[c] \in BOOLEAN
    BY <1>0 DEF ClientShape
  <2> QED
    BY <1>0, <2>1, <2>2, <2>3 DEF TickTyped
<1>7. CASE ReadMode
  <2>1. /\ hpc = "mode" /\ hpc' = "build" /\ cur' = cur
        /\ tick' = [tick EXCEPT !.raw = raw[cur], !.timeline = timeline[cur]]
    BY <1>7 DEF ReadMode
  <2>2. /\ tick'.out = tick.out /\ tick'.flows = tick.flows /\ tick'.full = tick.full
        /\ tick'.raw = raw[cur] /\ tick'.snapshot = tick.snapshot
    BY <1>0, <2>1
  <2>3. cur \in Conns
    BY <1>0, <2>1 DEF TickTyped
  <2>4. raw[cur] \in BOOLEAN
    BY <1>0, <2>3 DEF ClientShape
  <2> QED
    BY <1>0, <2>1, <2>2, <2>4 DEF TickTyped
<1>8. ASSUME NEW due, BuildRaw(due) PROVE TickTyped'
  <2>1. PICK out, snapshot : /\ Onward(out, snapshot) /\ snapshot \in Graphs \cup {None}
                             /\ out = <<>> \/ \E p : out = <<[kind |-> "rawMeta", total |-> p.total],
                                                   [kind |-> "raw", picture |-> Content(p)]>>
    <3>1. CASE tick.full \/ due
      BY <1>0, <1>8, <3>1 DEF BuildRaw, Snapshot, TickTyped, WorldTyped
    <3>2. CASE ~(tick.full \/ due)
      BY <1>0, <1>8, <3>2 DEF BuildRaw, TickTyped
    <3> QED
      BY <3>1, <3>2
  <2>2. Queue(out)
    <3>1. ASSUME NEW p, out = <<[kind |-> "rawMeta", total |-> p.total],
                                [kind |-> "raw", picture |-> Content(p)]>>
          PROVE  Queue(out)
      <4> DEFINE a == [kind |-> "rawMeta", total |-> p.total]
                 b == [kind |-> "raw", picture |-> Content(p)]
      <4>1. Well(a) /\ Well(b)
        BY DEF Well
      <4>2. out = <<a>> \o <<b>>
        BY <3>1
      <4> HIDE DEF a, b
      <4> QED
        BY <4>1, <4>2, QueueOne, QueueJoin
    <3> QED
      BY <2>1, <3>1, QueueEmpty
  <2> QED
    BY <1>8, <2>1, <2>2, OnwardTyped DEF BuildRaw
<1>9. ASSUME NEW due, BuildStyled(due) PROVE TickTyped'
  <2>1. PICK p, out, snapshot :
              /\ Drawable(p) /\ IsAnswer(out, last[cur], p, tick.full)
              /\ Onward(out, snapshot) /\ snapshot \in Graphs \cup {None}
    BY <1>9, StyledIs
  <2>2. Queue(out)
    BY <1>0, <2>1, AnswerQueued DEF TickTyped
  <2> QED
    BY <1>9, <2>1, <2>2, OnwardTyped DEF BuildStyled
<1>10. CASE TrySend
  <2>1. PICK out : Onward(out, tick.snapshot) /\ out \in {Tail(tick.out), <<>>} /\ hpc = "send"
    BY <1>10 DEF TrySend
  <2>2. Queue(tick.out) /\ tick.out # <<>> /\ tick.snapshot \in Graphs \cup {None}
    BY <1>0, <2>1 DEF TickTyped
  <2>3. Queue(out)
    BY <2>1, <2>2, QueueTail, QueueEmpty
  <2> QED
    BY <2>1, <2>2, <2>3, OnwardTyped
<1> QED
  BY <1>2, <1>3, <1>4, <1>5, <1>6, <1>7, <1>8, <1>9, <1>10 DEF Next, Environment, TickStep

\* Every step keeps the queues well-formed and within their capacity.
LEMMA PipesStep ==
    ASSUME TypeInv, Settled, [Next]_vars
    PROVE  PipesTyped'
<1>0. /\ PipesTyped /\ TickTyped /\ SendCap \in Nat \ {0} /\ closed \in [Conns -> BOOLEAN]
  BY SettledTypes, HubAssumption DEF TypeInv, ChannelTypes
<1>1. CASE UNCHANGED <<send, pump, panicked>>
  BY <1>0, <1>1 DEF PipesTyped
<1>2. ASSUME NEW c, \/ GraphChanges \/ SaveOverride \/ MarkResyncAll \/ ApplyControl(c)
                    \/ Connect(c) \/ SocketBreaks(c) \/ ReadFails(c)
                    \/ TimerFires(c) \/ ResyncAll \/ TickStarts(c) \/ ClearDirty \/ DrainFlows
                    \/ ConsumeNeedsFull(c) \/ ReadMode \/ BuildRaw(c) \/ BuildStyled(c) \/ UNCHANGED vars
      PROVE  PipesTyped'
  <2>1. UNCHANGED <<send, pump, panicked>>
    BY <1>2 DEF GraphChanges, SaveOverride, MarkResyncAll, ApplyControl, Connect, SocketBreaks,
                ReadFails, TimerFires, ResyncAll, TickStarts, ClearDirty, DrainFlows,
                ConsumeNeedsFull, ReadMode, BuildRaw, BuildStyled, vars, pipes, pumps
  <2> QED
    BY <1>1, <2>1
<1>3. ASSUME NEW c \in Conns, Register(c) \/ PumpEnds(c) PROVE PipesTyped'
  <2>1. UNCHANGED <<send, panicked>>
    BY <1>3 DEF Register, PumpEnds, pipes
  <2>2. pump' = [pump EXCEPT ![c] = "pumping"] \/ pump' = [pump EXCEPT ![c] = "done"]
    BY <1>3 DEF Register, PumpEnds
  <2> QED
    BY <1>0, <2>1, <2>2 DEF PipesTyped
<1>4. ASSUME NEW c \in Conns, Unregister(c) PROVE PipesTyped'
  <2>1. UNCHANGED <<send, pump>> /\ (panicked' = panicked \/ panicked' = (panicked \/ closed[c]))
    BY <1>4 DEF Unregister, CloseSend
  <2> QED
    BY <1>0, <2>1 DEF PipesTyped
<1>5. ASSUME NEW c \in Conns, WriteMessage(c) PROVE PipesTyped'
  <2>1. UNCHANGED <<panicked, pump>> /\ send[c] # <<>> /\ send' = [send EXCEPT ![c] = Tail(@)]
    BY <1>5 DEF WriteMessage, pumps
  <2>2. Queue(send[c]) /\ Len(send[c]) <= SendCap
    BY <1>0 DEF PipesTyped
  <2>3. Queue(Tail(send[c])) /\ Len(send[c]) \in Nat /\ Len(Tail(send[c])) = Len(send[c]) - 1
    BY <2>1, <2>2, QueueTail
  <2>4. Len(Tail(send[c])) <= SendCap
    BY <1>0, <2>2, <2>3
  <2> QED
    BY <1>0, <2>1, <2>3, <2>4 DEF PipesTyped
<1>6. CASE TrySend
  <2>1. hpc = "send" /\ pump' = pump
    BY <1>6 DEF TrySend, pumps
  <2>2. cur \in Conns /\ tick.out # <<>> /\ Queue(tick.out)
    BY <1>0, <2>1 DEF TickTyped
  <2>3. panicked' \in BOOLEAN
    BY <1>0, <1>6, <2>2 DEF TrySend, CloseSend, PipesTyped
  <2>4. Queue(send[cur]) /\ Len(send[cur]) <= SendCap
    BY <1>0, <2>2 DEF PipesTyped
  <2>5. CASE Len(send[cur]) < SendCap
    <3>1. send' = [send EXCEPT ![cur] = Append(@, Head(tick.out))]
      BY <1>6, <2>5 DEF TrySend
    <3>2. Queue(Append(send[cur], Head(tick.out)))
          /\ Len(Append(send[cur], Head(tick.out))) = Len(send[cur]) + 1 /\ Len(send[cur]) \in Nat
      BY <2>2, <2>4, QueueMoves, QueueJoin
    <3>3. Len(Append(send[cur], Head(tick.out))) <= SendCap
      BY <1>0, <2>5, <3>2
    <3> QED
      BY <1>0, <2>1, <2>2, <2>3, <3>1, <3>2, <3>3 DEF PipesTyped
  <2>6. CASE ~(Len(send[cur]) < SendCap)
    <3>1. send' = send
      BY <1>6, <2>6 DEF TrySend
    <3> QED
      BY <1>0, <2>1, <2>3, <3>1 DEF PipesTyped
  <2> QED
    BY <2>5, <2>6
<1> QED
  BY <1>2, <1>3, <1>4, <1>5, <1>6 DEF Next, Environment, TickStep

\* What the earlier proofs establish, together.
LEMMA SettledAlways == Spec => []Settled
<1>1. ChannelInv /\ CatchUpInv => Settled
  BY DEF Settled
<1> QED
  BY <1>1, ChannelInvariant, CatchUpInvariant, PTL

\* In every behaviour of the hub every variable keeps its type, no send buffer is beyond its
\* capacity, and the hub is in the middle of a client exactly between consumeNeedsFull and
\* the end of its sends (websocket.go tick, trySend).
THEOREM HubTyped == Spec => [](TypeInv /\ TypeOK)
<1>1. Init => TypeInv
  BY TypeInit
<1>2. TypeInv /\ Settled /\ [Next]_vars => TypeInv'
  BY WorldStep, TickStepTyped, PipesStep DEF TypeInv
<1>3. TypeInv /\ Settled => TypeOK
  BY TypesAreOK
<1> QED
  BY <1>1, <1>2, <1>3, SettledAlways, PTL DEF Spec

-----------------------------------------------------------------------------
(* Drawings: what a screen shows, and what the messages make of it.        *)

\* The part of a screen the stream of differences works on.
Draw(s) == [node |-> s.node, edge |-> s.edge, sync |-> s.sync,
            synced |-> s.synced, lost |-> s.lost, adrift |-> s.adrift]

IsDrawing(d) ==
    /\ DOMAIN d = {"node", "edge", "sync", "synced", "lost", "adrift"}
    /\ d.synced \in BOOLEAN /\ d.lost \in BOOLEAN /\ d.adrift \in BOOLEAN

SyncBegun(d, m) == IF m.full THEN [NoSync EXCEPT !.on = m.partial] ELSE d.sync

SyncWith(d, m) ==
    IF SyncBegun(d, m).on
    THEN [SyncBegun(d, m) EXCEPT !.node = @ \cup DOMAIN m.node, !.edge = @ \cup DOMAIN m.edge]
    ELSE SyncBegun(d, m)

Kept(d, m) == IF SyncWith(d, m).on THEN SyncWith(d, m) ELSE [node |-> DOMAIN m.node, edge |-> DOMAIN m.edge]

NodeBy(d, m) ==
    IF m.done
    THEN Restrict(Redrawn(d.node, m.node, m.gone), Kept(d, m).node \cap DOMAIN Redrawn(d.node, m.node, m.gone))
    ELSE Redrawn(d.node, m.node, m.gone)

EdgeBy(d, m) ==
    IF m.done
    THEN Restrict(Redrawn(d.edge, m.edge, m.cut), Kept(d, m).edge \cap DOMAIN Redrawn(d.edge, m.edge, m.cut))
    ELSE Redrawn(d.edge, m.edge, m.cut)

\* updateGraph, of a drawing.
Redraw(d, m) ==
    [node |-> NodeBy(d, m), edge |-> EdgeBy(d, m),
     sync |-> IF m.done THEN NoSync ELSE SyncWith(d, m),
     synced |-> d.synced \/ m.full, lost |-> d.lost /\ ~m.done, adrift |-> d.adrift /\ ~m.done]

Noted(d, m) ==
    [node |-> d.node, edge |-> d.edge, sync |-> d.sync,
     synced |-> d.synced, lost |-> d.lost, adrift |-> d.adrift \/ ~(d.synced \/ m.full)]

\* What message m makes of drawing d, when nothing delays it.
Turn(d, m) == IF m.kind = "delta" THEN Redraw(Noted(d, m), m) ELSE d

ScreenFields == {"conn", "node", "edge", "sync", "total", "raw", "pending", "scheduled",
                 "synced", "lost", "adrift"}

Shaped(s) ==
    /\ DOMAIN s = ScreenFields
    /\ s.synced \in BOOLEAN /\ s.lost \in BOOLEAN /\ s.adrift \in BOOLEAN

\* The drawing of a screen is one.
LEMMA DrawIs ==
    ASSUME NEW s, Shaped(s)
    PROVE  IsDrawing(Draw(s))
  BY DEF Shaped, IsDrawing, Draw

\* updateGraph does to a screen what Redraw does to its drawing.
LEMMA UpdateDraws ==
    ASSUME NEW s, Shaped(s), NEW m, m.full \in BOOLEAN, m.done \in BOOLEAN
    PROVE  /\ Shaped(UpdateGraph(s, m)) /\ Draw(UpdateGraph(s, m)) = Redraw(Draw(s), m)
           /\ UpdateGraph(s, m).pending = s.pending /\ UpdateGraph(s, m).scheduled = s.scheduled
           /\ UpdateGraph(s, m).conn = s.conn
<1> DEFINE t == UpdateGraph(s, m)
           d == Draw(s)
<1>1. DOMAIN s = ScreenFields
  BY DEF Shaped
<1>2. DOMAIN t = ScreenFields /\ t.pending = s.pending /\ t.scheduled = s.scheduled /\ t.conn = s.conn
  BY <1>1 DEF UpdateGraph, ScreenFields
<1>3. t.synced = (s.synced \/ m.full) /\ t.lost = (s.lost /\ ~m.done) /\ t.adrift = (s.adrift /\ ~m.done)
  BY <1>1 DEF UpdateGraph, ScreenFields
<1>4. t.sync = IF m.done THEN NoSync ELSE SyncWith(d, m)
  BY <1>1 DEF UpdateGraph, ScreenFields, SyncWith, SyncBegun, Draw
<1>5. t.node = NodeBy(d, m)
  BY <1>1 DEF UpdateGraph, ScreenFields, NodeBy, Kept, SyncWith, SyncBegun, Draw
<1>6. t.edge = EdgeBy(d, m)
  BY <1>1 DEF UpdateGraph, ScreenFields, EdgeBy, Kept, SyncWith, SyncBegun, Draw
<1>7. d.synced = s.synced /\ d.lost = s.lost /\ d.adrift = s.adrift
  BY DEF Draw
<1> HIDE DEF t, d
<1>8. Shaped(t)
  BY <1>2, <1>3 DEF Shaped
<1>9. Draw(t) = Redraw(d, m)
  BY <1>3, <1>4, <1>5, <1>6, <1>7 DEF Draw, Redraw
<1> QED
  BY <1>2, <1>8, <1>9 DEF t, d

\* Noting whether a difference is adrift changes nothing else.
LEMMA TakenDraws ==
    ASSUME NEW s, Shaped(s), NEW m, m.full \in BOOLEAN
    PROVE  /\ Shaped(Taken(s, m)) /\ Draw(Taken(s, m)) = Noted(Draw(s), m)
           /\ Taken(s, m).pending = s.pending /\ Taken(s, m).scheduled = s.scheduled
           /\ Taken(s, m).conn = s.conn
<1> DEFINE t == Taken(s, m)
<1>1. /\ DOMAIN t = ScreenFields /\ t.pending = s.pending /\ t.scheduled = s.scheduled
      /\ t.conn = s.conn /\ t.node = s.node /\ t.edge = s.edge /\ t.sync = s.sync
      /\ t.synced = s.synced /\ t.lost = s.lost /\ t.adrift = (s.adrift \/ ~(s.synced \/ m.full))
  BY DEF Taken, Shaped, ScreenFields
<1> HIDE DEF t
<1>2. Shaped(t)
  BY <1>1 DEF Shaped
<1>3. Draw(t) = Noted(Draw(s), m)
  BY <1>1 DEF Draw, Noted
<1> QED
  BY <1>1, <1>2, <1>3 DEF t

\* A message makes a drawing of a drawing.
LEMMA TurnIs ==
    ASSUME NEW d, IsDrawing(d), NEW m, Well(m)
    PROVE  IsDrawing(Turn(d, m))
<1>1. CASE m.kind = "delta"
  <2>1. m.full \in BOOLEAN /\ m.done \in BOOLEAN
    BY <1>1 DEF Well
  <2>2. IsDrawing(Noted(d, m))
    BY <2>1 DEF Noted, IsDrawing
  <2>3. IsDrawing(Redraw(Noted(d, m), m))
    BY <2>1, <2>2 DEF Redraw, IsDrawing
  <2> QED
    BY <1>1, <2>3 DEF Turn
<1>2. CASE m.kind # "delta"
  BY <1>2 DEF Turn
<1> QED
  BY <1>1, <1>2

\* Once the pending delta is drawn too.
Start(s) == IF s.pending = NoDelta THEN Draw(s) ELSE Redraw(Draw(s), s.pending)

\* The edges have their ends, but for what the throttle lost or an earlier picture left.
Calm(d) == ~d.lost /\ ~d.adrift => \A e \in DOMAIN d.edge : e \subseteq DOMAIN d.node

\* Drawing d is the one the next difference from l is meant for.
Base(d, l) ==
    /\ d.synced /\ ~d.lost => Content(d) = l
    /\ ~d.synced /\ ~d.lost /\ ~d.adrift => l = NoMirror

-----------------------------------------------------------------------------
(* What a queue of messages makes of a drawing.                            *)

\* Each of g[j + 1] .. g[i] is what its message of w makes of the one before.
Path(g, j, i, w) == \A k \in j + 1 .. i : g[k] = Turn(g[k - 1], w[k])

\* From drawing e, after j messages of w, the rest of them draws no edge without its ends
\* and, when it reaches a client of the hub, ends where the next difference begins.
Holds(w, l, member, j, e) ==
    \A i \in j .. Len(w) : \A g :
        g[j] = e /\ Path(g, j, i, w) =>
            /\ IsDrawing(g[i]) /\ Calm(g[i])
            /\ member /\ i = Len(w) => Base(g[i], l)

\* The message after the first j of w does not continue a picture in chunks.
Fresh(w, j) == j = Len(w) \/ ~(w[j + 1].kind = "delta" /\ w[j + 1].partial /\ ~w[j + 1].full)

\* Whatever a lost drawing was, what is left of w makes up for it.
Forgets(w, l, member) ==
    \A j \in 0 .. Len(w) : \A e : IsDrawing(e) /\ e.lost /\ Fresh(w, j) => Holds(w, l, member, j, e)

\* The messages out lead from the baseline l to the view l2.
Leads(out, l, l2) ==
    \A d : IsDrawing(d) /\ Calm(d) /\ Base(d, l) => Holds(out, l2, TRUE, 0, d)

\* Nothing is claimed of a lost drawing.
LEMMA LostIsCalm ==
    ASSUME NEW e, e.lost, NEW l
    PROVE  Calm(e) /\ Base(e, l)
  BY DEF Calm, Base

\* The drawing the rest of a queue holds from is sound itself.
LEMMA HoldsHere ==
    ASSUME NEW w, Queue(w), NEW l, NEW member, NEW e, Holds(w, l, member, 0, e)
    PROVE  IsDrawing(e) /\ Calm(e)
<1> DEFINE g == [k \in {0} |-> e]
<1>1. g[0] = e /\ 0 \in 0 .. Len(w) /\ Path(g, 0, 0, w)
  BY QueueJoin DEF Path
<1> HIDE DEF g
<1>2. IsDrawing(g[0]) /\ Calm(g[0])
  BY <1>1 DEF Holds
<1> QED
  BY <1>1, <1>2

\* With nothing on its way, a sound drawing at its baseline holds.
LEMMA HoldsEmpty ==
    ASSUME NEW l, NEW member, NEW e, IsDrawing(e), Calm(e), member => Base(e, l)
    PROVE  Holds(<<>>, l, member, 0, e)
<1>1. Len(<<>>) = 0
  OBVIOUS
<1> SUFFICES ASSUME NEW i \in 0 .. 0, NEW g, g[0] = e
             PROVE  IsDrawing(g[i]) /\ Calm(g[i]) /\ (member => Base(g[i], l))
  BY <1>1 DEF Holds
<1>2. i = 0
  OBVIOUS
<1> QED
  BY <1>2

\* Dropping the first message only shifts the rest.
LEMMA HoldsPop ==
    ASSUME NEW w, Queue(w), w # <<>>, NEW l, NEW member, NEW j \in 0 .. Len(w) - 1, NEW e,
           Holds(w, l, member, j + 1, e)
    PROVE  Holds(Tail(w), l, member, j, e)
<1>1. /\ Len(w) \in Nat /\ Len(w) # 0 /\ Len(Tail(w)) = Len(w) - 1
      /\ \A k \in 1 .. Len(w) - 1 : Tail(w)[k] = w[k + 1]
  BY QueueTail
<1> SUFFICES ASSUME NEW i \in j .. Len(Tail(w)), NEW g, g[j] = e, Path(g, j, i, Tail(w))
             PROVE  /\ IsDrawing(g[i]) /\ Calm(g[i])
                    /\ member /\ i = Len(Tail(w)) => Base(g[i], l)
  BY DEF Holds
<1> DEFINE h == [k \in j + 1 .. i + 1 |-> g[k - 1]]
<1>2. i + 1 \in j + 1 .. Len(w) /\ i \in Nat /\ j \in Nat
  BY <1>1
<1>3. h[j + 1] = e /\ h[i + 1] = g[i]
  BY <1>2
<1>4. ASSUME NEW k \in (j + 1) + 1 .. i + 1 PROVE h[k] = Turn(h[k - 1], w[k])
  <2>1. k \in j + 1 .. i + 1 /\ k - 1 \in j + 1 .. i + 1 /\ k - 1 \in j + 1 .. i /\ k - 1 \in 1 .. Len(w) - 1
        /\ (k - 1) + 1 = k
    BY <1>1, <1>2
  <2>2. h[k] = g[k - 1] /\ h[k - 1] = g[(k - 1) - 1]
    BY <2>1
  <2>3. g[k - 1] = Turn(g[(k - 1) - 1], Tail(w)[k - 1])
    BY <2>1 DEF Path
  <2>4. Tail(w)[k - 1] = w[k]
    BY <1>1, <2>1
  <2> QED
    BY <2>2, <2>3, <2>4
<1> HIDE DEF h
<1>5. Path(h, j + 1, i + 1, w)
  BY <1>4 DEF Path
<1>6. IsDrawing(h[i + 1]) /\ Calm(h[i + 1]) /\ (member /\ i + 1 = Len(w) => Base(h[i + 1], l))
  BY <1>2, <1>3, <1>5 DEF Holds
<1>7. i = Len(Tail(w)) => i + 1 = Len(w)
  BY <1>1, <1>2
<1> QED
  BY <1>3, <1>6, <1>7

\* The browser takes the next message.
LEMMA HoldsTurn ==
    ASSUME NEW w, Queue(w), w # <<>>, NEW l, NEW member, NEW e, Holds(w, l, member, 0, e)
    PROVE  Holds(Tail(w), l, member, 0, Turn(e, Head(w)))
<1> DEFINE e1 == Turn(e, Head(w))
<1>1. Len(w) \in Nat /\ Len(w) # 0 /\ w[1] = Head(w) /\ 0 \in 0 .. Len(w) - 1
  BY QueueTail
<1>2. Holds(w, l, member, 1, e1)
  <2> SUFFICES ASSUME NEW i \in 1 .. Len(w), NEW g, g[1] = e1, Path(g, 1, i, w)
               PROVE  /\ IsDrawing(g[i]) /\ Calm(g[i])
                      /\ member /\ i = Len(w) => Base(g[i], l)
    BY DEF Holds
  <2> DEFINE h == [k \in 0 .. i |-> IF k = 0 THEN e ELSE g[k]]
  <2>1. i \in Nat /\ i \in 0 .. Len(w) /\ h[0] = e /\ h[i] = g[i] /\ h[1] = g[1]
    BY <1>1
  <2>2. ASSUME NEW k \in 0 + 1 .. i PROVE h[k] = Turn(h[k - 1], w[k])
    <3>1. CASE k = 1
      BY <1>1, <2>1, <3>1
    <3>2. CASE k # 1
      <4>1. k \in 1 + 1 .. i /\ k \in 0 .. i /\ k - 1 \in 0 .. i /\ k # 0 /\ k - 1 # 0
        BY <2>1, <3>2
      <4>2. h[k] = g[k] /\ h[k - 1] = g[k - 1]
        BY <4>1
      <4> QED
        BY <4>1, <4>2 DEF Path
    <3> QED
      BY <3>1, <3>2
  <2> HIDE DEF h
  <2>3. Path(h, 0, i, w)
    BY <2>2 DEF Path
  <2> QED
    BY <2>1, <2>3 DEF Holds
<1> HIDE DEF e1
<1>3. Holds(w, l, member, 0 + 1, e1)
  BY <1>2
<1> QED
  BY <1>1, <1>3, HoldsPop DEF e1

\* The rest of a queue that makes up for lost drawings does too,
LEMMA ForgetsPop ==
    ASSUME NEW w, Queue(w), w # <<>>, NEW l, NEW member, Forgets(w, l, member)
    PROVE  Forgets(Tail(w), l, member)
<1> DEFINE t == Tail(w)
           n == Len(w)
<1>1. n \in Nat /\ n # 0 /\ Len(t) = n - 1
  BY QueueTail
<1>2. \A k \in 1 .. n - 1 : t[k] = w[k + 1]
  BY QueueTail
<1> HIDE DEF t, n
<1> SUFFICES ASSUME NEW j \in 0 .. Len(t), NEW e, IsDrawing(e), e.lost, Fresh(t, j)
             PROVE  Holds(t, l, member, j, e)
  BY DEF Forgets, t
<1>3. j \in 0 .. n - 1 /\ j + 1 \in 0 .. n
  BY <1>1
<1>4. Fresh(w, j + 1)
  <2>1. CASE j = n - 1
    <3>1. j + 1 = n
      BY <1>1, <2>1
    <3> QED
      BY <3>1 DEF Fresh, n
  <2>2. CASE j # n - 1
    <3>1. j + 1 \in 1 .. n - 1
      BY <1>1, <1>3, <2>2
    <3>2. t[j + 1] = w[(j + 1) + 1]
      BY <1>2, <3>1
    <3>3. j # Len(t)
      BY <1>1, <2>2
    <3> QED
      BY <3>2, <3>3 DEF Fresh
  <2> QED
    BY <2>1, <2>2
<1>5. Holds(w, l, member, j + 1, e)
  BY <1>3, <1>4 DEF Forgets, n
<1> QED
  BY <1>3, <1>5, HoldsPop DEF t, n

\* What is left of the queue of a client the hub has dropped.
LEMMA HoldsPrefix ==
    ASSUME NEW v, NEW u, Queue(v), Queue(u), NEW l, NEW member, NEW j \in 0 .. Len(v), NEW e,
           Holds(v \o u, l, member, j, e), NEW l2
    PROVE  Holds(v, l2, FALSE, j, e)
<1>1. /\ Len(v) \in Nat /\ Len(u) \in Nat /\ Len(v \o u) = Len(v) + Len(u)
      /\ \A k \in 1 .. Len(v) : (v \o u)[k] = v[k]
  BY QueueJoin
<1> SUFFICES ASSUME NEW i \in j .. Len(v), NEW g, g[j] = e, Path(g, j, i, v)
             PROVE  IsDrawing(g[i]) /\ Calm(g[i])
  BY DEF Holds
<1>2. i \in j .. Len(v \o u)
  BY <1>1
<1>3. ASSUME NEW k \in j + 1 .. i PROVE g[k] = Turn(g[k - 1], (v \o u)[k])
  <2>1. k \in 1 .. Len(v)
    BY <1>1
  <2> QED
    BY <1>1, <2>1 DEF Path
<1>4. Path(g, j, i, v \o u)
  BY <1>3 DEF Path
<1> QED
  BY <1>2, <1>4 DEF Holds

\* and so does its front, for what is claimed of a dropped client,
LEMMA ForgetsPrefix ==
    ASSUME NEW v, NEW u, Queue(v), Queue(u), NEW l, NEW member, Forgets(v \o u, l, member), NEW l2
    PROVE  Forgets(v, l2, FALSE)
<1>1. /\ Len(v) \in Nat /\ Len(u) \in Nat /\ Len(v \o u) = Len(v) + Len(u)
      /\ \A k \in 1 .. Len(v) : (v \o u)[k] = v[k]
  BY QueueJoin
<1> SUFFICES ASSUME NEW j \in 0 .. Len(v), NEW e, IsDrawing(e), e.lost, Fresh(v, j)
             PROVE  Holds(v, l2, FALSE, j, e)
  BY DEF Forgets
<1>2. CASE j = Len(v)
  <2> SUFFICES ASSUME NEW i \in j .. Len(v), NEW g, g[j] = e
               PROVE  IsDrawing(g[i]) /\ Calm(g[i])
    BY DEF Holds
  <2>1. i = j
    BY <1>1, <1>2
  <2> QED
    BY <2>1, LostIsCalm
<1>3. CASE j # Len(v)
  <2>1. j + 1 \in 1 .. Len(v) /\ j \in 0 .. Len(v \o u) /\ j # Len(v \o u)
    BY <1>1, <1>3
  <2>2. Fresh(v \o u, j)
    BY <1>1, <1>3, <2>1 DEF Fresh
  <2>3. Holds(v \o u, l, member, j, e)
    BY <2>1, <2>2 DEF Forgets
  <2> QED
    BY <2>3, HoldsPrefix
<1> QED
  BY <1>2, <1>3

\* Messages behind others, on their own.
LEMMA HoldsLater ==
    ASSUME NEW v, NEW u, Queue(v), Queue(u), NEW l, NEW member, NEW j \in 0 .. Len(u), NEW e,
           Holds(u, l, member, j, e)
    PROVE  Holds(v \o u, l, member, Len(v) + j, e)
<1> DEFINE n == Len(v)
           q == v \o u
<1>1. n \in Nat /\ Len(u) \in Nat /\ Len(q) = n + Len(u)
  BY QueueJoin
<1>2. \A k \in n + 1 .. n + Len(u) : q[k] = u[k - n]
  BY QueueJoin
<1> HIDE DEF n, q
<1> SUFFICES ASSUME NEW i \in n + j .. Len(q), NEW g, g[n + j] = e, Path(g, n + j, i, q)
             PROVE  /\ IsDrawing(g[i]) /\ Calm(g[i])
                    /\ member /\ i = Len(q) => Base(g[i], l)
  BY DEF Holds, n, q
<1> DEFINE h == [k \in j .. i - n |-> g[k + n]]
<1>3. i - n \in j .. Len(u) /\ (i - n) + n = i /\ j + n = n + j /\ i \in Nat /\ j \in Nat
      /\ j \in j .. i - n /\ i - n \in j .. i - n
  BY <1>1
<1>4. h[j] = e /\ h[i - n] = g[i]
  BY <1>3
<1>5. ASSUME NEW k \in j + 1 .. i - n PROVE h[k] = Turn(h[k - 1], u[k])
  <2>1. k \in j .. i - n /\ k - 1 \in j .. i - n /\ k + n \in n + 1 .. n + Len(u)
        /\ k + n \in (n + j) + 1 .. i /\ (k - 1) + n = (k + n) - 1 /\ (k + n) - n = k
    BY <1>1, <1>3
  <2>2. h[k] = g[k + n] /\ h[k - 1] = g[(k + n) - 1]
    BY <2>1
  <2>3. q[k + n] = u[k]
    BY <1>2, <2>1
  <2>4. g[k + n] = Turn(g[(k + n) - 1], q[k + n])
    BY <2>1 DEF Path
  <2> QED
    BY <2>2, <2>3, <2>4
<1> HIDE DEF h
<1>6. Path(h, j, i - n, u)
  BY <1>5 DEF Path
<1>7. IsDrawing(h[i - n]) /\ Calm(h[i - n]) /\ (member /\ i - n = Len(u) => Base(h[i - n], l))
  BY <1>3, <1>4, <1>6 DEF Holds
<1>8. i = Len(q) => i - n = Len(u)
  BY <1>1, <1>3
<1> QED
  BY <1>4, <1>7, <1>8

\* The hub adds messages to the queue of a client of its own.
LEMMA HoldsJoin ==
    ASSUME NEW v, NEW u, Queue(v), Queue(u), NEW l, NEW l2, NEW j \in 0 .. Len(v), NEW e,
           Holds(v, l, TRUE, j, e), Leads(u, l, l2)
    PROVE  Holds(v \o u, l2, TRUE, j, e)
<1> DEFINE n == Len(v)
           q == v \o u
<1>1. n \in Nat /\ Len(u) \in Nat /\ Len(q) = n + Len(u)
  BY QueueJoin
<1>2. \A k \in 1 .. n : q[k] = v[k]
  BY QueueJoin
<1> HIDE DEF n, q
<1> SUFFICES ASSUME NEW i \in j .. Len(q), NEW g, g[j] = e, Path(g, j, i, q)
             PROVE  /\ IsDrawing(g[i]) /\ Calm(g[i])
                    /\ i = Len(q) => Base(g[i], l2)
  BY DEF Holds, q
<1>3. j \in 0 .. n /\ j \in Nat /\ i \in Nat
  BY <1>1 DEF n
<1>4. ASSUME NEW k \in j .. n, k <= i PROVE Path(g, j, k, v)
  <2> SUFFICES ASSUME NEW x \in j + 1 .. k PROVE g[x] = Turn(g[x - 1], v[x])
    BY DEF Path
  <2>1. x \in 1 .. n /\ x \in j + 1 .. i
    BY <1>1, <1>3, <1>4
  <2> QED
    BY <1>2, <2>1 DEF Path
<1>5. CASE i < n
  <2>1. i \in j .. n /\ i <= i /\ i # Len(q) /\ i \in j .. Len(v)
    BY <1>1, <1>3, <1>5 DEF n
  <2>2. Path(g, j, i, v)
    BY <1>4, <2>1
  <2> QED
    BY <2>1, <2>2 DEF Holds
<1>6. CASE n <= i
  <2>1. n \in j .. n /\ n \in j .. Len(v) /\ n = Len(v)
    BY <1>1, <1>3 DEF n
  <2>2. Path(g, j, n, v)
    BY <1>4, <1>6, <2>1
  <2>3. IsDrawing(g[n]) /\ Calm(g[n]) /\ Base(g[n], l)
    BY <2>1, <2>2 DEF Holds
  <2>4. Holds(u, l2, TRUE, 0, g[n])
    BY <2>3 DEF Leads
  <2>8. 0 \in 0 .. Len(u)
    BY <1>1
  <2>5. Holds(v \o u, l2, TRUE, Len(v) + 0, g[n])
    BY <2>4, <2>8, HoldsLater
  <2>6. n + 0 = n /\ i \in n .. Len(q)
    BY <1>1, <1>6
  <2>7. Path(g, n, i, q)
    <3>1. \A k \in n + 1 .. i : k \in j + 1 .. i
      BY <1>1, <1>3
    <3> QED
      BY <3>1 DEF Path
  <2> QED
    BY <2>5, <2>6, <2>7 DEF Holds, n, q
<1> QED
  BY <1>1, <1>3, <1>5, <1>6

\* and such a queue with messages that lead on behind it.
LEMMA ForgetsJoin ==
    ASSUME NEW v, NEW u, Queue(v), Queue(u), NEW l, NEW l2,
           Forgets(v, l, TRUE), Leads(u, l, l2), Forgets(u, l2, TRUE)
    PROVE  Forgets(v \o u, l2, TRUE)
<1> DEFINE n == Len(v)
           q == v \o u
<1>1. n \in Nat /\ Len(u) \in Nat /\ Len(q) = n + Len(u)
  BY QueueJoin
<1>2. \A k \in 1 .. n : q[k] = v[k]
  BY QueueJoin
<1>3. \A k \in n + 1 .. n + Len(u) : q[k] = u[k - n]
  BY QueueJoin
<1> HIDE DEF n, q
<1> SUFFICES ASSUME NEW j \in 0 .. Len(q), NEW e, IsDrawing(e), e.lost, Fresh(q, j)
             PROVE  Holds(q, l2, TRUE, j, e)
  BY DEF Forgets, q
<1>4. CASE j < n
  <2>1. j \in 0 .. n /\ j + 1 \in 1 .. n /\ j # Len(q)
    BY <1>1, <1>4
  <2>2. Fresh(v, j)
    BY <1>2, <2>1 DEF Fresh
  <2>3. Holds(v, l, TRUE, j, e)
    BY <2>1, <2>2 DEF Forgets, n
  <2> QED
    BY <2>1, <2>3, HoldsJoin DEF n, q
<1>5. CASE n <= j
  <2> DEFINE i == j - n
  <2>1. i \in 0 .. Len(u) /\ n + i = j
    BY <1>1, <1>5
  <2>2. Holds(u, l2, TRUE, i, e)
    <3>1. CASE i = 0
      BY <3>1, LostIsCalm DEF Leads
    <3>2. CASE i # 0
      <4>1. Fresh(u, i)
        <5>1. CASE j = Len(q)
          <6>1. i = Len(u)
            BY <1>1, <5>1
          <6> QED
            BY <6>1 DEF Fresh
        <5>2. CASE j # Len(q)
          <6>1. j + 1 \in n + 1 .. n + Len(u) /\ (j + 1) - n = i + 1
            BY <1>1, <1>5, <5>2
          <6>2. q[j + 1] = u[i + 1]
            BY <1>3, <6>1
          <6> QED
            BY <5>2, <6>2 DEF Fresh
        <5> QED
          BY <5>1, <5>2
      <4> QED
        BY <2>1, <4>1 DEF Forgets
    <3> QED
      BY <3>1, <3>2
  <2> HIDE DEF i
  <2>3. Holds(v \o u, l2, TRUE, Len(v) + i, e)
    BY <2>1, <2>2, HoldsLater
  <2> QED
    BY <2>1, <2>3 DEF n, q
<1>6. j < n \/ n <= j
  BY <1>1
<1> QED
  BY <1>4, <1>5, <1>6

\* Messages that are no deltas change no drawing.
LEMMA OthersDraw ==
    ASSUME NEW w, Queue(w), Len(w) \in 0 .. 2, \A k \in 1 .. Len(w) : w[k].kind # "delta",
           NEW i \in 0 .. Len(w), NEW j \in 0 .. i, NEW g, Path(g, j, i, w)
    PROVE  g[i] = g[j]
<1>1. ASSUME NEW k \in j + 1 .. i PROVE g[k] = g[k - 1]
  <2>1. k \in 1 .. Len(w)
    OBVIOUS
  <2> QED
    BY <2>1 DEF Path, Turn
<1>2. i \in 0 .. 2 /\ (i = j \/ i = j + 1 \/ i = j + 2)
  OBVIOUS
<1>3. CASE i = j + 1
  BY <1>1, <1>3
<1>4. CASE i = j + 2
  <2>1. j + 1 \in j + 1 .. i /\ j + 2 \in j + 1 .. i /\ (j + 1) - 1 = j /\ (j + 2) - 1 = j + 1
    BY <1>4
  <2>2. g[j + 1] = g[j] /\ g[j + 2] = g[j + 1]
    BY <1>1, <2>1
  <2> QED
    BY <1>4, <2>2
<1> QED
  BY <1>2, <1>3, <1>4

\* Messages that are no deltas lead from any baseline to itself.
LEMMA OthersLead ==
    ASSUME NEW w, Queue(w), Len(w) \in 0 .. 2, \A k \in 1 .. Len(w) : w[k].kind # "delta", NEW l
    PROVE  Leads(w, l, l) /\ Forgets(w, l, TRUE)
<1>1. ASSUME NEW j \in 0 .. Len(w), NEW d, IsDrawing(d), Calm(d), Base(d, l)
      PROVE  Holds(w, l, TRUE, j, d)
  <2> SUFFICES ASSUME NEW i \in j .. Len(w), NEW g, g[j] = d, Path(g, j, i, w)
               PROVE  IsDrawing(g[i]) /\ Calm(g[i]) /\ Base(g[i], l)
    BY DEF Holds
  <2>1. i \in 0 .. Len(w) /\ j \in 0 .. i
    OBVIOUS
  <2>2. g[i] = g[j]
    BY <2>1, OthersDraw
  <2> QED
    BY <1>1, <2>2
<1>2. 0 \in 0 .. Len(w)
  OBVIOUS
<1>3. Leads(w, l, l)
  BY <1>1, <1>2 DEF Leads
<1>4. Forgets(w, l, TRUE)
  BY <1>1, LostIsCalm DEF Forgets
<1> QED
  BY <1>3, <1>4

-----------------------------------------------------------------------------
(* What a tick draws.                                                      *)

IsMirror(l) ==
    l = [node |-> l.node, edge |-> l.edge] /\ IsMap(l.node) /\ IsMap(l.edge)

\* The mirrors of the hub: none yet, or the content of a view.
LEMMA MirrorIs ==
    /\ IsMirror(NoMirror)
    /\ \A p : Drawable(p) => /\ IsMirror(Content(p)) /\ Content(p).node = p.node
                             /\ Content(p).edge = p.edge
<1>1. IsMirror(NoMirror)
  <2>1. IsMap(Nothing)
    BY DEF Nothing, IsMap
  <2> QED
    BY <2>1 DEF IsMirror, NoMirror
<1>2. ASSUME NEW p, Drawable(p)
      PROVE  IsMirror(Content(p)) /\ Content(p).node = p.node /\ Content(p).edge = p.edge
  BY <1>2 DEF IsMirror, Content, Drawable
<1> QED
  BY <1>1, <1>2

\* What Restrict makes of a function.
LEMMA RestrictIs ==
    ASSUME NEW f, NEW S
    PROVE  IsMap(Restrict(f, S)) /\ DOMAIN Restrict(f, S) = S /\ \A x \in S : Restrict(f, S)[x] = f[x]
  BY DEF Restrict, IsMap

\* The entries a difference carries.
LEMMA ChangedIs ==
    ASSUME NEW f, NEW base
    PROVE  /\ DOMAIN Changed(f, base, FALSE) \subseteq DOMAIN f
           /\ \A x \in DOMAIN f :
                 x \in DOMAIN Changed(f, base, FALSE) <=> x \notin DOMAIN base \/ base[x] # f[x]
           /\ \A x \in DOMAIN Changed(f, base, FALSE) : Changed(f, base, FALSE)[x] = f[x]
  BY DEF Changed, Restrict

\* A difference, drawn on its baseline.
LEMMA DifferenceDraws ==
    ASSUME NEW f, IsMap(f), NEW base
    PROVE  Redrawn(base, Changed(f, base, FALSE), DOMAIN base \ DOMAIN f) = f
<1> DEFINE put == Changed(f, base, FALSE)
           gone == DOMAIN base \ DOMAIN f
           r == Redrawn(base, put, gone)
<1>1. /\ DOMAIN put \subseteq DOMAIN f
      /\ \A x \in DOMAIN f : x \in DOMAIN put <=> x \notin DOMAIN base \/ base[x] # f[x]
      /\ \A x \in DOMAIN put : put[x] = f[x]
  BY ChangedIs
<1> HIDE DEF put
<1>2. /\ IsMap(r) /\ DOMAIN r = (DOMAIN base \ gone) \cup DOMAIN put
      /\ \A x \in DOMAIN put : r[x] = put[x]
      /\ \A x \in DOMAIN base : x \in gone \/ x \in DOMAIN put \/ r[x] = base[x]
  <2> HIDE DEF gone
  <2> QED
    BY DEF Redrawn, IsMap
<1> HIDE DEF r
<1>3. DOMAIN r = DOMAIN f
  BY <1>1, <1>2
<1>4. ASSUME NEW x \in DOMAIN f PROVE r[x] = f[x]
  <2>1. CASE x \in DOMAIN put
    BY <1>1, <1>2, <2>1
  <2>2. CASE x \notin DOMAIN put
    BY <1>1, <1>2, <2>2
  <2> QED
    BY <2>1, <2>2
<1>5. r = f
  BY <1>2, <1>3, <1>4, SameMap
<1> QED
  BY <1>5 DEF r, put

\* When there is no difference to send, the view is the last one.
LEMMA QuietIs ==
    ASSUME NEW l, IsMirror(l), NEW p, Drawable(p), NEW full \in BOOLEAN, IsNil(BuildDelta(l, p, full))
    PROVE  Content(p) = l
<1>0. full = FALSE
  BY DEF IsNil, BuildDelta
<1>1. /\ DOMAIN l.node \subseteq DOMAIN p.node /\ DOMAIN l.edge \subseteq DOMAIN p.edge
      /\ Changed(p.node, l.node, FALSE) = Nothing /\ Changed(p.edge, l.edge, FALSE) = Nothing
  BY <1>0 DEF IsNil, BuildDelta
<1>2. DOMAIN Nothing = {}
  BY DEF Nothing
<1>3. p.node = l.node
  <2>1. \A x \in DOMAIN p.node : x \in DOMAIN l.node /\ l.node[x] = p.node[x]
    BY <1>1, <1>2 DEF Changed, Restrict
  <2> QED
    BY <1>1, <2>1, SameMap DEF Drawable, IsMirror
<1>4. p.edge = l.edge
  <2>1. \A x \in DOMAIN p.edge : x \in DOMAIN l.edge /\ l.edge[x] = p.edge[x]
    BY <1>1, <1>2 DEF Changed, Restrict
  <2> QED
    BY <1>1, <2>1, SameMap DEF Drawable, IsMirror
<1> QED
  BY <1>3, <1>4 DEF Content, IsMirror

\* A full picture carries every entry.
LEMMA WholeIs ==
    ASSUME NEW f, IsMap(f), NEW base
    PROVE  Changed(f, base, TRUE) = f
<1>1. Changed(f, base, TRUE) = [x \in DOMAIN f |-> f[x]]
  BY DEF Changed, Restrict
<1> QED
  BY <1>1 DEF IsMap

\* What a full picture leaves of f, once it is drawn and complete.
LEMMA CompleteIs ==
    ASSUME NEW f, NEW put, IsMap(put), NEW gone
    PROVE  Restrict(Redrawn(f, put, gone), DOMAIN put \cap DOMAIN Redrawn(f, put, gone)) = put
<1> DEFINE r == Redrawn(f, put, gone)
           S == DOMAIN put \cap DOMAIN r
           t == Restrict(r, S)
<1>1. DOMAIN r = (DOMAIN f \ gone) \cup DOMAIN put /\ \A x \in DOMAIN put : r[x] = put[x]
  BY DEF Redrawn
<1> HIDE DEF r
<1>2. IsMap(t) /\ DOMAIN t = S /\ \A x \in S : t[x] = r[x]
  <2> HIDE DEF S
  <2> QED
    BY RestrictIs
<1>3. S = DOMAIN put
  BY <1>1
<1> HIDE DEF S, t
<1>4. t = put
  BY <1>1, <1>2, <1>3, SameMap
<1> QED
  BY <1>4 DEF t, S, r

\* What a completed drawing of view p is.
Drawn(d, p) == /\ d.node = p.node /\ d.edge = p.edge /\ IsDrawing(d)
               /\ d.synced /\ ~d.lost

\* A completed drawing is sound and at its baseline.
LEMMA DrawnIsBase ==
    ASSUME NEW d, NEW p, Drawable(p), Drawn(d, p)
    PROVE  IsDrawing(d) /\ Calm(d) /\ Base(d, Content(p))
  BY DEF Drawable, Drawn, Calm, Base, Content

\* A full picture in one message.
LEMMA WholeDraws ==
    ASSUME NEW l, NEW p, Drawable(p), NEW d, IsDrawing(d),
           NEW m, m = [BuildDelta(l, p, TRUE) EXCEPT !.done = TRUE]
    PROVE  Drawn(Turn(d, m), p)
<1> DEFINE e == Noted(d, m)
           t == Turn(d, m)
<1>1. /\ m.kind = "delta" /\ m.full = TRUE /\ m.partial = FALSE /\ m.done = TRUE
      /\ m.node = Changed(p.node, l.node, TRUE) /\ m.edge = Changed(p.edge, l.edge, TRUE)
      /\ m.gone = DOMAIN l.node \ DOMAIN p.node /\ m.cut = DOMAIN l.edge \ DOMAIN p.edge
  BY DEF BuildDelta
<1>2. m.node = p.node /\ m.edge = p.edge
  <2>1. Changed(p.node, l.node, TRUE) = p.node /\ Changed(p.edge, l.edge, TRUE) = p.edge
    BY WholeIs DEF Drawable
  <2> QED
    BY <1>1, <2>1
<1>3. Well(m)
  BY <1>1 DEF Well
<1>4. t = Redraw(e, m) /\ IsDrawing(t)
  BY <1>1, <1>3, TurnIs DEF Turn
<1>5. SyncBegun(e, m).on = FALSE
  BY <1>1 DEF SyncBegun, NoSync
<1>6. Kept(e, m).node = DOMAIN p.node /\ Kept(e, m).edge = DOMAIN p.edge
  BY <1>2, <1>5 DEF Kept, SyncWith
<1> HIDE DEF e, t
<1>7. t.node = NodeBy(e, m) /\ t.edge = EdgeBy(e, m)
      /\ (t.synced <=> e.synced \/ m.full) /\ (t.lost <=> e.lost /\ ~m.done)
  BY <1>4 DEF Redraw
<1>10. IsMap(p.node) /\ IsMap(p.edge)
  BY DEF Drawable
<1>8. NodeBy(e, m) = p.node
  <2>1. NodeBy(e, m) = Restrict(Redrawn(e.node, p.node, m.gone), DOMAIN p.node \cap DOMAIN Redrawn(e.node, p.node, m.gone))
    BY <1>1, <1>2, <1>6 DEF NodeBy
  <2> QED
    BY <1>10, <2>1, CompleteIs
<1>9. EdgeBy(e, m) = p.edge
  <2>1. EdgeBy(e, m) = Restrict(Redrawn(e.edge, p.edge, m.cut), DOMAIN p.edge \cap DOMAIN Redrawn(e.edge, p.edge, m.cut))
    BY <1>1, <1>2, <1>6 DEF EdgeBy
  <2> QED
    BY <1>10, <2>1, CompleteIs
<1> QED
  BY <1>1, <1>4, <1>7, <1>8, <1>9 DEF Drawn, t

\* A difference in one message: on the baseline it makes the view, elsewhere it is known to
\* be adrift or lost.
LEMMA PlainDraws ==
    ASSUME NEW l, NEW p, Drawable(p), NEW d, IsDrawing(d), Base(d, l),
           NEW m, m = [BuildDelta(l, p, FALSE) EXCEPT !.done = FALSE]
    PROVE  IsDrawing(Turn(d, m)) /\ Calm(Turn(d, m)) /\ Base(Turn(d, m), Content(p))
<1> DEFINE e == Noted(d, m)
           t == Turn(d, m)
<1>1. /\ m.kind = "delta" /\ m.full = FALSE /\ m.partial = FALSE /\ m.done = FALSE
      /\ m.node = Changed(p.node, l.node, FALSE) /\ m.edge = Changed(p.edge, l.edge, FALSE)
      /\ m.gone = DOMAIN l.node \ DOMAIN p.node /\ m.cut = DOMAIN l.edge \ DOMAIN p.edge
  BY DEF BuildDelta
<1>2. Well(m)
  BY <1>1 DEF Well
<1>3. t = Redraw(e, m) /\ IsDrawing(t)
  BY <1>1, <1>2, TurnIs DEF Turn
<1>4. /\ e.node = d.node /\ e.edge = d.edge /\ e.synced = d.synced /\ e.lost = d.lost
      /\ (e.adrift <=> d.adrift \/ ~(d.synced \/ m.full))
  BY DEF Noted
<1>5. /\ t.node = Redrawn(d.node, m.node, m.gone) /\ t.edge = Redrawn(d.edge, m.edge, m.cut)
      /\ (t.synced <=> d.synced) /\ (t.lost <=> d.lost) /\ (t.adrift <=> d.adrift \/ ~d.synced)
  <2>1. NodeBy(e, m) = Redrawn(d.node, m.node, m.gone) /\ EdgeBy(e, m) = Redrawn(d.edge, m.edge, m.cut)
    BY <1>1, <1>4 DEF NodeBy, EdgeBy
  <2> HIDE DEF e, t
  <2>2. t.node = NodeBy(e, m) /\ t.edge = EdgeBy(e, m)
    BY <1>3 DEF Redraw
  <2>3. (t.synced <=> e.synced \/ m.full) /\ (t.lost <=> e.lost /\ ~m.done)
    BY <1>3 DEF Redraw
  <2>4. t.adrift <=> e.adrift /\ ~m.done
    BY <1>3 DEF Redraw
  <2> QED
    BY <1>1, <1>4, <2>1, <2>2, <2>3, <2>4
<1> HIDE DEF e, t
<1>6. CASE d.synced /\ ~d.lost
  <2>1. l.node = d.node /\ l.edge = d.edge
    BY <1>6 DEF Base, Content
  <2>2. t.node = p.node /\ t.edge = p.edge
    <3>1. /\ t.node = Redrawn(l.node, Changed(p.node, l.node, FALSE), DOMAIN l.node \ DOMAIN p.node)
          /\ t.edge = Redrawn(l.edge, Changed(p.edge, l.edge, FALSE), DOMAIN l.edge \ DOMAIN p.edge)
      BY <1>1, <1>5, <2>1
    <3>2. /\ Redrawn(l.node, Changed(p.node, l.node, FALSE), DOMAIN l.node \ DOMAIN p.node) = p.node
          /\ Redrawn(l.edge, Changed(p.edge, l.edge, FALSE), DOMAIN l.edge \ DOMAIN p.edge) = p.edge
      BY DifferenceDraws DEF Drawable
    <3> QED
      BY <3>1, <3>2
  <2>3. Drawn(t, p)
    BY <1>3, <1>5, <1>6, <2>2 DEF Drawn
  <2> QED
    BY <2>3, DrawnIsBase DEF t
<1>7. CASE ~(d.synced /\ ~d.lost)
  <2>1. (t.lost \/ t.adrift) /\ ~(t.synced /\ ~t.lost)
    BY <1>5, <1>7 DEF IsDrawing
  <2>2. Calm(t) /\ Base(t, Content(p))
    BY <2>1 DEF Calm, Base
  <2> QED
    BY <1>3, <2>2 DEF t
<1> QED
  BY <1>6, <1>7

-----------------------------------------------------------------------------
(* A full picture in chunks.                                               *)

\* The edges of view p that have come with its first k chunks.
EdgesBy(p, k) == {e \in DOMAIN p.edge : e \subseteq SentBy(p.order, k)}

\* Chunk by chunk more nodes have come, and more edges.
LEMMA SentIs ==
    ASSUME NEW p, Drawable(p)
    PROVE  /\ SentBy(p.order, 0) = {} /\ EdgesBy(p, 0) = {}
           /\ \A k \in Nat : /\ SentBy(p.order, k) \subseteq SentBy(p.order, k + 1)
                             /\ EdgesBy(p, k) \subseteq EdgesBy(p, k + 1)
<1> DEFINE order == p.order
           c == FullChunkSize
<1>1. order \in Seq(DOMAIN p.node) /\ DOMAIN order = 1 .. Len(order) /\ Len(order) \in Nat
  BY DEF Drawable
<1>2. c \in Nat
  BY HubAssumption
<1> HIDE DEF order, c
<1>3. SentBy(order, 0) = {}
  <2>1. 0 * c = 0
    BY <1>2
  <2>2. {j \in DOMAIN order : j <= 0 * c} = {}
    BY <1>1, <2>1
  <2> QED
    BY <2>2 DEF SentBy, c
<1>4. ASSUME NEW k \in Nat PROVE SentBy(order, k) \subseteq SentBy(order, k + 1)
  <2>1. (k + 1) * c = k * c + c /\ k * c \in Nat
    BY <1>2
  <2>2. \A j \in DOMAIN order : j <= k * c => j <= (k + 1) * c
    BY <1>1, <1>2, <2>1
  <2> QED
    BY <2>2 DEF SentBy, c
<1>5. EdgesBy(p, 0) = {}
  <2>1. \A e \in DOMAIN p.edge : e # {}
    BY DEF Drawable
  <2> QED
    BY <1>3, <2>1 DEF EdgesBy, order
<1>6. \A k \in Nat : EdgesBy(p, k) \subseteq EdgesBy(p, k + 1)
  BY <1>4 DEF EdgesBy, order
<1> QED
  BY <1>3, <1>4, <1>5, <1>6 DEF order

\* With the last chunk every node and every edge has come.
LEMMA SentAll ==
    ASSUME NEW p, Drawable(p), Len(p.order) > FullChunkSize
    PROVE  /\ SentBy(p.order, ChunkCount(p.order)) = DOMAIN p.node
           /\ EdgesBy(p, ChunkCount(p.order)) = DOMAIN p.edge
<1> DEFINE n == ChunkCount(p.order)
<1>1. /\ p.order \in Seq(DOMAIN p.node) /\ DOMAIN p.order = 1 .. Len(p.order) /\ Len(p.order) \in Nat
      /\ \A i \in DOMAIN p.order : p.order[i] \in DOMAIN p.node
  BY DEF Drawable
<1>2. n \in Nat /\ Len(p.order) <= n * FullChunkSize
  BY <1>1, CountIs
<1>3. FullChunkSize \in Nat /\ n * FullChunkSize \in Nat
  BY <1>2, HubAssumption
<1> HIDE DEF n
<1>4. \A j \in DOMAIN p.order : j <= n * FullChunkSize
  BY <1>1, <1>2, <1>3
<1>5. SentBy(p.order, n) = {p.order[i] : i \in DOMAIN p.order}
  BY <1>4 DEF SentBy
<1>6. SentBy(p.order, n) = DOMAIN p.node
  BY <1>1, <1>5 DEF Drawable
<1>7. EdgesBy(p, n) = DOMAIN p.edge
  BY <1>6 DEF EdgesBy, Drawable
<1> QED
  BY <1>6, <1>7 DEF n

\* Chunk k of the full picture p that follows l.
ChunkOf(l, p, k) ==
    Chunk(p.order, BuildDelta(l, p, TRUE), k, Riding(p.order, BuildDelta(l, p, TRUE), k),
          k = ChunkCount(p.order))

\* Message m is chunk j + 1 of the full picture p that follows l.
IsChunk(m, l, p, j) ==
    /\ m.kind = "delta" /\ m.partial = TRUE
    /\ m.full \in BOOLEAN /\ (m.full <=> j = 0)
    /\ m.done \in BOOLEAN /\ (m.done <=> j + 1 = ChunkCount(p.order))
    /\ m.node = Restrict(p.node, SentBy(p.order, j + 1) \ SentBy(p.order, j))
    /\ m.edge = Restrict(p.edge, EdgesBy(p, j + 1) \ EdgesBy(p, j))
    /\ m.gone = (IF j = 0 THEN DOMAIN l.node \ DOMAIN p.node ELSE {})
    /\ m.cut = (IF j = 0 THEN DOMAIN l.edge \ DOMAIN p.edge ELSE {})

\* The fields of a chunk.
LEMMA ChunkIs ==
    ASSUME NEW l, NEW p, Drawable(p), NEW j \in Nat
    PROVE  IsChunk(ChunkOf(l, p, j + 1), l, p, j)
<1> DEFINE d == BuildDelta(l, p, TRUE)
           k == j + 1
           m == ChunkOf(l, p, j + 1)
<1>1. d.node = p.node /\ d.edge = p.edge
  <2>1. Changed(p.node, l.node, TRUE) = p.node /\ Changed(p.edge, l.edge, TRUE) = p.edge
    BY WholeIs DEF Drawable
  <2> QED
    BY <2>1 DEF BuildDelta
<1>2. d.gone = DOMAIN l.node \ DOMAIN p.node /\ d.cut = DOMAIN l.edge \ DOMAIN p.edge
  BY DEF BuildDelta
<1> HIDE DEF d
<1>3. k \in Nat /\ k - 1 = j /\ (k = 1 <=> j = 0)
  OBVIOUS
<1> HIDE DEF k
<1>4. Riding(p.order, d, k) = EdgesBy(p, k) \ EdgesBy(p, j)
  BY <1>1, <1>3 DEF Riding, EdgesBy
<1>5. m = Chunk(p.order, d, k, EdgesBy(p, k) \ EdgesBy(p, j), k = ChunkCount(p.order))
  BY <1>4 DEF ChunkOf, d, k
<1> HIDE DEF m
<1>6. /\ m.kind = "delta" /\ m.partial = TRUE
      /\ m.full \in BOOLEAN /\ (m.full <=> k = 1)
      /\ m.done \in BOOLEAN /\ (m.done <=> k = ChunkCount(p.order))
  BY <1>5 DEF Chunk
<1>7. /\ m.node = Restrict(p.node, SentBy(p.order, k) \ SentBy(p.order, j))
      /\ m.edge = Restrict(p.edge, EdgesBy(p, k) \ EdgesBy(p, j))
      /\ m.gone = (IF k = 1 THEN DOMAIN l.node \ DOMAIN p.node ELSE {})
      /\ m.cut = (IF k = 1 THEN DOMAIN l.edge \ DOMAIN p.edge ELSE {})
  BY <1>1, <1>2, <1>3, <1>5 DEF Chunk
<1> QED
  BY <1>3, <1>6, <1>7 DEF IsChunk, k, m

IsSync(s) == DOMAIN s = {"on", "node", "edge"} /\ s.on = TRUE

\* What the first k chunks of p, after l, make of drawing d, before the last one.
Part(d, l, p, k, t) ==
    /\ IsDrawing(t)
    /\ DOMAIN t.node = (DOMAIN d.node \ (DOMAIN l.node \ DOMAIN p.node)) \cup SentBy(p.order, k)
    /\ DOMAIN t.edge = (DOMAIN d.edge \ (DOMAIN l.edge \ DOMAIN p.edge)) \cup EdgesBy(p, k)
    /\ \A x \in SentBy(p.order, k) : t.node[x] = p.node[x]
    /\ \A x \in EdgesBy(p, k) : t.edge[x] = p.edge[x]
    /\ IsSync(t.sync) /\ t.sync.node = SentBy(p.order, k) /\ t.sync.edge = EdgesBy(p, k)
    /\ t.synced /\ (t.lost <=> d.lost) /\ (t.adrift <=> d.adrift)

\* s is what a chunk m makes of the ids collected so far, those of old.
Collects(s, old, m) ==
    /\ IsSync(s)
    /\ s.node = (IF m.full THEN {} ELSE old.node) \cup DOMAIN m.node
    /\ s.edge = (IF m.full THEN {} ELSE old.edge) \cup DOMAIN m.edge

\* What a chunk adds to the ids collected.
LEMMA SyncIs ==
    ASSUME NEW d, NEW m, m.partial = TRUE, m.full \in BOOLEAN, m.full \/ IsSync(d.sync)
    PROVE  Collects(SyncWith(d, m), d.sync, m)
<1> DEFINE r == SyncBegun(d, m)
           s == SyncWith(d, m)
<1>1. /\ IsSync(r) /\ r.node = (IF m.full THEN {} ELSE d.sync.node)
      /\ r.edge = (IF m.full THEN {} ELSE d.sync.edge)
  <2>1. CASE m.full
    BY <2>1 DEF SyncBegun, NoSync, IsSync
  <2>2. CASE ~m.full
    BY <2>2 DEF SyncBegun
  <2> QED
    BY <2>1, <2>2
<1>2. s = [r EXCEPT !.node = @ \cup DOMAIN m.node, !.edge = @ \cup DOMAIN m.edge]
  BY <1>1 DEF SyncWith, IsSync
<1> HIDE DEF r, s
<1>3. DOMAIN s = DOMAIN r /\ s.on = r.on /\ s.node = r.node \cup DOMAIN m.node /\ s.edge = r.edge \cup DOMAIN m.edge
  BY <1>1, <1>2 DEF IsSync
<1> QED
  BY <1>1, <1>3 DEF Collects, IsSync, s

\* A chunk that is not the last.
LEMMA ChunkDraws ==
    ASSUME NEW d, IsDrawing(d), NEW m, Well(m), m.kind = "delta", m.partial = TRUE, ~m.done,
           m.full \/ (d.synced /\ IsSync(d.sync))
    PROVE  /\ IsDrawing(Turn(d, m))
           /\ Turn(d, m).node = Redrawn(d.node, m.node, m.gone) /\ Turn(d, m).edge = Redrawn(d.edge, m.edge, m.cut)
           /\ IsSync(Turn(d, m).sync)
           /\ Turn(d, m).sync.node = (IF m.full THEN {} ELSE d.sync.node) \cup DOMAIN m.node
           /\ Turn(d, m).sync.edge = (IF m.full THEN {} ELSE d.sync.edge) \cup DOMAIN m.edge
           /\ Turn(d, m).synced /\ (Turn(d, m).lost <=> d.lost) /\ (Turn(d, m).adrift <=> d.adrift)
<1> DEFINE e == Noted(d, m)
           t == Turn(d, m)
<1>1. m.full \in BOOLEAN /\ m.done \in BOOLEAN /\ m.done = FALSE
  BY DEF Well
<1>2. t = Redraw(e, m) /\ IsDrawing(t)
  BY TurnIs DEF Turn
<1>3. /\ e.node = d.node /\ e.edge = d.edge /\ e.sync = d.sync /\ (e.synced <=> d.synced)
      /\ (e.lost <=> d.lost) /\ (e.adrift <=> d.adrift)
  BY DEF Noted, IsDrawing
<1>5. NodeBy(e, m) = Redrawn(d.node, m.node, m.gone) /\ EdgeBy(e, m) = Redrawn(d.edge, m.edge, m.cut)
  BY <1>1, <1>3 DEF NodeBy, EdgeBy
<1> HIDE DEF e, t
<1>6. t.node = NodeBy(e, m) /\ t.edge = EdgeBy(e, m) /\ t.sync = SyncWith(e, m)
  BY <1>1, <1>2 DEF Redraw
<1>7. (t.synced <=> e.synced \/ m.full) /\ (t.lost <=> e.lost /\ ~m.done) /\ (t.adrift <=> e.adrift /\ ~m.done)
  BY <1>2 DEF Redraw
<1>8. /\ IsSync(t.sync)
      /\ t.sync.node = (IF m.full THEN {} ELSE e.sync.node) \cup DOMAIN m.node
      /\ t.sync.edge = (IF m.full THEN {} ELSE e.sync.edge) \cup DOMAIN m.edge
  <2>1. m.full \/ IsSync(e.sync)
    BY <1>3
  <2>2. Collects(SyncWith(e, m), e.sync, m)
    BY <1>1, <2>1, SyncIs
  <2> QED
    BY <1>6, <2>2 DEF Collects
<1> QED
  BY <1>1, <1>2, <1>3, <1>5, <1>6, <1>7, <1>8 DEF t

\* The first chunk,
LEMMA PartFirst ==
    ASSUME NEW l, NEW p, Drawable(p), ChunkCount(p.order) \in Nat, ChunkCount(p.order) # 1,
           NEW d, IsDrawing(d), Well(ChunkOf(l, p, 1))
    PROVE  Part(d, l, p, 1, Turn(d, ChunkOf(l, p, 1)))
<1> DEFINE m == ChunkOf(l, p, 1)
           t == Turn(d, m)
           S == SentBy(p.order, 1)
           E == EdgesBy(p, 1)
           gone == DOMAIN l.node \ DOMAIN p.node
           cut == DOMAIN l.edge \ DOMAIN p.edge
<1>0. S \ SentBy(p.order, 0) = S /\ E \ EdgesBy(p, 0) = E
  BY SentIs
<1>1. /\ m.kind = "delta" /\ m.partial = TRUE /\ m.full /\ ~m.done
      /\ m.node = Restrict(p.node, S \ SentBy(p.order, 0)) /\ m.edge = Restrict(p.edge, E \ EdgesBy(p, 0))
      /\ m.gone = gone /\ m.cut = cut
  <2>1. 0 \in Nat /\ 0 + 1 = 1
    OBVIOUS
  <2>2. IsChunk(ChunkOf(l, p, 0 + 1), l, p, 0)
    BY <2>1, ChunkIs
  <2> HIDE DEF m
  <2>3. IsChunk(m, l, p, 0)
    BY <2>1, <2>2 DEF m
  <2> QED
    BY <2>1, <2>3 DEF IsChunk
<1>2. /\ IsDrawing(t)
      /\ t.node = Redrawn(d.node, m.node, m.gone) /\ t.edge = Redrawn(d.edge, m.edge, m.cut)
      /\ IsSync(t.sync)
      /\ t.sync.node = (IF m.full THEN {} ELSE d.sync.node) \cup DOMAIN m.node
      /\ t.sync.edge = (IF m.full THEN {} ELSE d.sync.edge) \cup DOMAIN m.edge
      /\ t.synced /\ (t.lost <=> d.lost) /\ (t.adrift <=> d.adrift)
  <2> HIDE DEF m
  <2> QED
    BY <1>1, ChunkDraws DEF m
<1> HIDE DEF m, t, S, E, gone, cut
<1>3. m.node = Restrict(p.node, S) /\ m.edge = Restrict(p.edge, E)
  BY <1>0, <1>1
<1>4. /\ DOMAIN t.node = (DOMAIN d.node \ gone) \cup S /\ DOMAIN t.edge = (DOMAIN d.edge \ cut) \cup E
      /\ \A x \in S : t.node[x] = p.node[x]
      /\ \A x \in E : t.edge[x] = p.edge[x]
  BY <1>1, <1>2, <1>3 DEF Redrawn, Restrict
<1>5. t.sync.node = S /\ t.sync.edge = E
  BY <1>1, <1>2, <1>3 DEF Restrict
<1> QED
  BY <1>2, <1>4, <1>5 DEF Part, S, E, gone, cut, m, t

\* one in the middle.
LEMMA PartNext ==
    ASSUME NEW l, NEW p, Drawable(p), NEW k \in Nat \ {0}, ChunkCount(p.order) # k + 1,
           NEW d, NEW t, Part(d, l, p, k, t), Well(ChunkOf(l, p, k + 1))
    PROVE  Part(d, l, p, k + 1, Turn(t, ChunkOf(l, p, k + 1)))
<1> DEFINE m == ChunkOf(l, p, k + 1)
           u == Turn(t, m)
           S == SentBy(p.order, k)
           S1 == SentBy(p.order, k + 1)
           E == EdgesBy(p, k)
           E1 == EdgesBy(p, k + 1)
<1>1. /\ m.kind = "delta" /\ m.partial = TRUE /\ ~m.full /\ ~m.done
      /\ m.node = Restrict(p.node, S1 \ S) /\ m.edge = Restrict(p.edge, E1 \ E)
      /\ m.gone = {} /\ m.cut = {}
  <2>1. IsChunk(m, l, p, k)
    BY ChunkIs
  <2> HIDE DEF m
  <2> QED
    BY <2>1 DEF IsChunk
<1>2. S \subseteq S1 /\ E \subseteq E1
  BY SentIs
<1> HIDE DEF m, S, E, S1, E1
<1>3. /\ IsDrawing(t) /\ t.synced /\ (t.lost <=> d.lost) /\ (t.adrift <=> d.adrift)
      /\ DOMAIN t.node = (DOMAIN d.node \ (DOMAIN l.node \ DOMAIN p.node)) \cup S
      /\ DOMAIN t.edge = (DOMAIN d.edge \ (DOMAIN l.edge \ DOMAIN p.edge)) \cup E
      /\ \A x \in S : t.node[x] = p.node[x]
      /\ \A x \in E : t.edge[x] = p.edge[x]
      /\ IsSync(t.sync) /\ t.sync.node = S /\ t.sync.edge = E
  BY DEF Part, S, E
<1>5. /\ IsDrawing(u)
      /\ u.node = Redrawn(t.node, m.node, m.gone) /\ u.edge = Redrawn(t.edge, m.edge, m.cut)
      /\ IsSync(u.sync)
      /\ u.sync.node = (IF m.full THEN {} ELSE t.sync.node) \cup DOMAIN m.node
      /\ u.sync.edge = (IF m.full THEN {} ELSE t.sync.edge) \cup DOMAIN m.edge
      /\ u.synced /\ (u.lost <=> t.lost) /\ (u.adrift <=> t.adrift)
  BY <1>1, <1>3, ChunkDraws DEF m
<1> HIDE DEF u
<1>6. /\ DOMAIN u.node = (DOMAIN d.node \ (DOMAIN l.node \ DOMAIN p.node)) \cup S1
      /\ \A x \in S1 : u.node[x] = p.node[x]
  <2>1. DOMAIN u.node = DOMAIN t.node \cup (S1 \ S)
    BY <1>1, <1>5 DEF Redrawn, Restrict
  <2>2. \A x \in S1 : u.node[x] = p.node[x]
    BY <1>1, <1>3, <1>5 DEF Redrawn, Restrict
  <2> QED
    BY <1>2, <1>3, <2>1, <2>2
<1>7. /\ DOMAIN u.edge = (DOMAIN d.edge \ (DOMAIN l.edge \ DOMAIN p.edge)) \cup E1
      /\ \A x \in E1 : u.edge[x] = p.edge[x]
  <2>1. DOMAIN u.edge = DOMAIN t.edge \cup (E1 \ E)
    BY <1>1, <1>5 DEF Redrawn, Restrict
  <2>2. \A x \in E1 : u.edge[x] = p.edge[x]
    BY <1>1, <1>3, <1>5 DEF Redrawn, Restrict
  <2> QED
    BY <1>2, <1>3, <2>1, <2>2
<1>8. u.sync.node = S1 /\ u.sync.edge = E1
  <2>1. DOMAIN m.node = S1 \ S /\ DOMAIN m.edge = E1 \ E
    BY <1>1 DEF Restrict
  <2> QED
    BY <1>1, <1>2, <1>3, <1>5, <2>1
<1> QED
  BY <1>3, <1>5, <1>6, <1>7, <1>8 DEF Part, S1, E1, m, u

\* The last chunk.
LEMMA PartLast ==
    ASSUME NEW l, NEW p, Drawable(p), NEW k \in Nat \ {0}, ChunkCount(p.order) = k + 1,
           Len(p.order) > FullChunkSize,
           NEW d, NEW t, Part(d, l, p, k, t), Well(ChunkOf(l, p, k + 1))
    PROVE  Drawn(Turn(t, ChunkOf(l, p, k + 1)), p)
<1> DEFINE m == ChunkOf(l, p, k + 1)
           u == Turn(t, m)
           e == Noted(t, m)
           S == SentBy(p.order, k)
           S1 == SentBy(p.order, k + 1)
           E == EdgesBy(p, k)
           E1 == EdgesBy(p, k + 1)
           node == Redrawn(e.node, m.node, m.gone)
           edge == Redrawn(e.edge, m.edge, m.cut)
<1>1. /\ m.kind = "delta" /\ m.partial = TRUE /\ m.full \in BOOLEAN /\ ~m.full /\ m.done \in BOOLEAN /\ m.done
      /\ m.node = Restrict(p.node, S1 \ S) /\ m.edge = Restrict(p.edge, E1 \ E)
      /\ m.gone = {} /\ m.cut = {}
  <2>1. IsChunk(m, l, p, k)
    BY ChunkIs
  <2> HIDE DEF m
  <2> QED
    BY <2>1 DEF IsChunk
<1>2. S \subseteq S1 /\ E \subseteq E1
  BY SentIs
<1>3. S1 = DOMAIN p.node /\ E1 = DOMAIN p.edge
  BY SentAll
<1>4. u = Redraw(e, m) /\ IsDrawing(u)
  <2> HIDE DEF m
  <2>1. IsDrawing(t) /\ Well(m)
    BY DEF Part, m
  <2> QED
    BY <1>1, <2>1, TurnIs DEF Turn
<1> HIDE DEF m, S, E, S1, E1
<1>5. /\ DOMAIN t.node = (DOMAIN d.node \ (DOMAIN l.node \ DOMAIN p.node)) \cup S
      /\ DOMAIN t.edge = (DOMAIN d.edge \ (DOMAIN l.edge \ DOMAIN p.edge)) \cup E
      /\ \A x \in S : t.node[x] = p.node[x]
      /\ \A x \in E : t.edge[x] = p.edge[x]
      /\ t.synced
  BY DEF Part, S, E
<1>6. IsSync(t.sync) /\ t.sync.node = S /\ t.sync.edge = E
  BY DEF Part, S, E
<1>7. e.node = t.node /\ e.edge = t.edge /\ e.sync = t.sync /\ (e.synced <=> t.synced)
  BY DEF Noted
<1> HIDE DEF e
<1>8. Collects(SyncWith(e, m), e.sync, m)
  BY <1>1, <1>6, <1>7, SyncIs
<1>9. DOMAIN m.node = S1 \ S /\ DOMAIN m.edge = E1 \ E
  BY <1>1 DEF Restrict
<1>10. Kept(e, m).node = S1 /\ Kept(e, m).edge = E1
  <2>1. SyncWith(e, m).on /\ SyncWith(e, m).node = S \cup (S1 \ S) /\ SyncWith(e, m).edge = E \cup (E1 \ E)
    BY <1>1, <1>6, <1>7, <1>8, <1>9 DEF Collects, IsSync
  <2> QED
    BY <1>2, <2>1 DEF Kept
<1>11. /\ DOMAIN node = DOMAIN t.node \cup (S1 \ S) /\ \A x \in S1 : node[x] = p.node[x]
  BY <1>1, <1>5, <1>7 DEF Redrawn, Restrict
<1>12. /\ DOMAIN edge = DOMAIN t.edge \cup (E1 \ E) /\ \A x \in E1 : edge[x] = p.edge[x]
  BY <1>1, <1>5, <1>7 DEF Redrawn, Restrict
<1>13. NodeBy(e, m) = Restrict(node, S1 \cap DOMAIN node) /\ EdgeBy(e, m) = Restrict(edge, E1 \cap DOMAIN edge)
  BY <1>1, <1>10 DEF NodeBy, EdgeBy
<1> HIDE DEF node, edge
<1>14. S1 \cap DOMAIN node = S1 /\ E1 \cap DOMAIN edge = E1
  BY <1>5, <1>11, <1>12
<1>15. NodeBy(e, m) = p.node
  <2>1. IsMap(NodeBy(e, m)) /\ DOMAIN NodeBy(e, m) = S1 /\ \A x \in S1 : NodeBy(e, m)[x] = p.node[x]
    BY <1>11, <1>13, <1>14 DEF Restrict, IsMap
  <2>2. IsMap(p.node)
    BY DEF Drawable
  <2> QED
    BY <1>3, <2>1, <2>2, SameMap
<1>16. EdgeBy(e, m) = p.edge
  <2>1. IsMap(EdgeBy(e, m)) /\ DOMAIN EdgeBy(e, m) = E1 /\ \A x \in E1 : EdgeBy(e, m)[x] = p.edge[x]
    BY <1>12, <1>13, <1>14 DEF Restrict, IsMap
  <2>2. IsMap(p.edge)
    BY DEF Drawable
  <2> QED
    BY <1>3, <2>1, <2>2, SameMap
<1> HIDE DEF u
<1>17. u.node = NodeBy(e, m) /\ u.edge = EdgeBy(e, m)
  BY <1>4 DEF Redraw
<1>18. (u.synced <=> e.synced \/ m.full) /\ (u.lost <=> e.lost /\ ~m.done)
  BY <1>4 DEF Redraw
<1> QED
  BY <1>1, <1>4, <1>5, <1>7, <1>15, <1>16, <1>17, <1>18 DEF Drawn, u, m

\* Between the chunks no edge is without its ends either.
LEMMA PartIsCalm ==
    ASSUME NEW l, IsMirror(l), NEW p, Drawable(p), NEW d, IsDrawing(d), Calm(d), Base(d, l),
           NEW k, NEW t, Part(d, l, p, k, t)
    PROVE  Calm(t)
<1> SUFFICES ASSUME ~t.lost, ~t.adrift, NEW e \in DOMAIN t.edge PROVE e \subseteq DOMAIN t.node
  BY DEF Calm
<1>1. /\ DOMAIN t.node = (DOMAIN d.node \ (DOMAIN l.node \ DOMAIN p.node)) \cup SentBy(p.order, k)
      /\ DOMAIN t.edge = (DOMAIN d.edge \ (DOMAIN l.edge \ DOMAIN p.edge)) \cup EdgesBy(p, k)
      /\ ~d.lost /\ ~d.adrift
  BY DEF Part
<1>2. CASE e \in EdgesBy(p, k)
  BY <1>1, <1>2 DEF EdgesBy
<1>3. CASE e \in DOMAIN d.edge \ (DOMAIN l.edge \ DOMAIN p.edge)
  <2>1. e \subseteq DOMAIN d.node
    BY <1>1, <1>3 DEF Calm
  <2>2. CASE d.synced
    <3>1. d.node = l.node /\ d.edge = l.edge
      BY <1>1, <2>2 DEF Base, Content
    <3>2. e \subseteq DOMAIN p.node
      BY <1>3, <3>1 DEF Drawable
    <3> QED
      BY <1>1, <2>1, <3>2
  <2>3. CASE ~d.synced
    <3>1. DOMAIN l.node = {}
      BY <1>1, <2>3 DEF Base, NoMirror, Nothing
    <3> QED
      BY <1>1, <2>1, <3>1
  <2> QED
    BY <2>2, <2>3
<1> QED
  BY <1>1, <1>2, <1>3

\* A set of numbers has a least one.
LEMMA LeastNat ==
    ASSUME NEW T, T \subseteq Nat, T # {}
    PROVE  \E x \in T : \A y \in T : x <= y
<1> DEFINE R == OpToRel(<, Nat)
<1>1. IsWellFoundedOn(R, Nat)
  BY NatLessThanWellFounded
<1>2. \A x, y \in Nat : y < x => <<y, x>> \in R
  BY DEF OpToRel
<1> HIDE DEF R
<1>3. PICK x \in T : \A y \in T : ~ (<<y, x>> \in R)
  BY <1>1, WFMin
<1>4. ASSUME NEW y \in T PROVE x <= y
  <2>1. x \in Nat /\ y \in Nat /\ ~(y < x)
    BY <1>2, <1>3
  <2> QED
    BY <2>1
<1> QED
  BY <1>4

\* Induction up to n: a set that has 0 and, below n, the successor of each member.
LEMMA UpTo ==
    ASSUME NEW n \in Nat, NEW T, 0 \in T, \A k \in 0 .. n : k \in T /\ k < n => k + 1 \in T
    PROVE  \A k \in 0 .. n : k \in T
<1> DEFINE Bad == {k \in 0 .. n : k \notin T}
<1> SUFFICES ASSUME Bad # {} PROVE FALSE
  OBVIOUS
<1>1. Bad \subseteq Nat
  OBVIOUS
<1>2. PICK k \in Bad : \A j \in Bad : k <= j
  BY <1>1, LeastNat
<1>3. k # 0 /\ k - 1 \in 0 .. n /\ k - 1 < n /\ k - 1 \notin Bad
  BY <1>2
<1>4. k - 1 \in T
  BY <1>3
<1>5. (k - 1) + 1 \in T
  BY <1>3, <1>4
<1> QED
  BY <1>2, <1>5

\* The chunks of a full picture lead from any sound drawing to the view.
LEMMA ChunksLead ==
    ASSUME NEW l, IsMirror(l), NEW p, Drawable(p), Len(p.order) > FullChunkSize,
           NEW w, Queue(w), Len(w) = ChunkCount(p.order),
           \A k \in 1 .. ChunkCount(p.order) : w[k] = ChunkOf(l, p, k)
    PROVE  Leads(w, l, Content(p))
<1> DEFINE n == ChunkCount(p.order)
<1>1. n \in Nat /\ n >= 2 /\ n # 1
  BY CountIs DEF Drawable
<1> SUFFICES ASSUME NEW d, IsDrawing(d), Calm(d), Base(d, l),
                    NEW i \in 0 .. Len(w), NEW g, g[0] = d, Path(g, 0, i, w)
             PROVE  /\ IsDrawing(g[i]) /\ Calm(g[i])
                    /\ i = Len(w) => Base(g[i], Content(p))
  BY DEF Leads, Holds
<1> DEFINE Good(k) == /\ k = 0 => g[k] = d
                      /\ 0 < k /\ k < n => Part(d, l, p, k, g[k])
                      /\ k = n => Drawn(g[k], p)
           T == {k \in 0 .. i : Good(k)}
<1>2. i \in Nat /\ i <= n
  BY <1>1
<1>3. 0 \in T
  BY <1>1, <1>2
<1>4. ASSUME NEW k \in 0 .. i, k \in T, k < i PROVE k + 1 \in T
  <2>1. k + 1 \in 0 .. i /\ k + 1 \in 0 + 1 .. i /\ k + 1 \in 1 .. n /\ (k + 1) - 1 = k /\ k \in Nat /\ k < n
    BY <1>2, <1>4
  <2>2. g[k + 1] = Turn(g[k], ChunkOf(l, p, k + 1)) /\ Well(ChunkOf(l, p, k + 1))
    <3>1. w[k + 1] = ChunkOf(l, p, k + 1) /\ Well(w[k + 1])
      BY <2>1 DEF Queue
    <3>2. g[k + 1] = Turn(g[(k + 1) - 1], w[k + 1])
      BY <2>1 DEF Path
    <3> QED
      BY <2>1, <3>1, <3>2
  <2>3. Good(k + 1)
    <3>1. CASE k = 0
      <4>1. k + 1 = 1 /\ g[k] = d
        BY <1>4, <3>1
      <4>2. Part(d, l, p, 1, g[1])
        BY <1>1, <2>2, <4>1, PartFirst
      <4> QED
        BY <1>1, <4>1, <4>2
    <3>2. CASE k # 0
      <4>1. k \in Nat \ {0} /\ k + 1 # 0 /\ 0 < k
        BY <2>1, <3>2
      <4>2. Part(d, l, p, k, g[k])
        BY <1>4, <2>1, <4>1
      <4>3. CASE k + 1 = n
        <5>1. Drawn(g[k + 1], p)
          BY <2>2, <4>1, <4>2, <4>3, PartLast
        <5> QED
          BY <2>1, <4>1, <4>3, <5>1
      <4>4. CASE k + 1 # n
        <5>1. Part(d, l, p, k + 1, g[k + 1])
          BY <2>2, <4>1, <4>2, <4>4, PartNext
        <5> QED
          BY <2>1, <4>1, <4>4, <5>1
      <4> QED
        BY <4>3, <4>4
    <3> QED
      BY <3>1, <3>2
  <2> QED
    BY <2>1, <2>3
<1> HIDE DEF T
<1>5. i \in T
  <2>1. \A k \in 0 .. i : k \in T
    BY <1>2, <1>3, <1>4, UpTo
  <2> QED
    BY <1>2, <2>1
<1>6. Good(i)
  BY <1>5 DEF T
<1> HIDE DEF Good, n
<1>7. CASE i = 0
  <2>1. i # Len(w)
    BY <1>1, <1>7 DEF n
  <2> QED
    BY <1>7, <2>1
<1>8. CASE 0 < i /\ i < n
  <2>1. i # Len(w) /\ Part(d, l, p, i, g[i])
    BY <1>1, <1>2, <1>6, <1>8 DEF n, Good
  <2>2. IsDrawing(g[i])
    BY <2>1 DEF Part
  <2> QED
    BY <2>1, <2>2, PartIsCalm
<1>9. CASE i = n
  <2>1. Drawn(g[i], p)
    BY <1>6, <1>9 DEF Good
  <2> QED
    BY <2>1, DrawnIsBase
<1> QED
  BY <1>1, <1>2, <1>7, <1>8, <1>9

\* What ends at a baseline makes up for a lost drawing, unless one comes in the middle.
LEMMA LeadsForgets ==
    ASSUME NEW w, Queue(w), NEW l, NEW l2, Leads(w, l, l2),
           \A j \in 1 .. Len(w) - 1 : ~Fresh(w, j)
    PROVE  Forgets(w, l2, TRUE)
<1> SUFFICES ASSUME NEW j \in 0 .. Len(w), NEW e, IsDrawing(e), e.lost, Fresh(w, j)
             PROVE  Holds(w, l2, TRUE, j, e)
  BY DEF Forgets
<1>1. Len(w) \in Nat
  BY QueueJoin
<1>2. CASE j = 0
  BY <1>2, LostIsCalm DEF Leads
<1>3. CASE j = Len(w)
  <2> SUFFICES ASSUME NEW i \in j .. Len(w), NEW g, g[j] = e
               PROVE  IsDrawing(g[i]) /\ Calm(g[i]) /\ Base(g[i], l2)
    BY DEF Holds
  <2>1. i = j
    BY <1>1, <1>3
  <2> QED
    BY <2>1, LostIsCalm
<1>4. j = 0 \/ j = Len(w) \/ j \in 1 .. Len(w) - 1
  BY <1>1
<1> QED
  BY <1>2, <1>3, <1>4

\* A message on its own.
LEMMA OneLeads ==
    ASSUME NEW m, Well(m), NEW l, NEW l2,
           \A d : IsDrawing(d) /\ Calm(d) /\ Base(d, l) =>
                    IsDrawing(Turn(d, m)) /\ Calm(Turn(d, m)) /\ Base(Turn(d, m), l2)
    PROVE  Leads(<<m>>, l, l2) /\ Forgets(<<m>>, l2, TRUE)
<1> DEFINE w == <<m>>
<1>1. Queue(w) /\ Len(w) = 1 /\ w[1] = m
  BY QueueOne
<1> HIDE DEF w
<1>2. Leads(w, l, l2)
  <2> SUFFICES ASSUME NEW d, IsDrawing(d), Calm(d), Base(d, l),
                      NEW i \in 0 .. Len(w), NEW g, g[0] = d, Path(g, 0, i, w)
               PROVE  /\ IsDrawing(g[i]) /\ Calm(g[i])
                      /\ i = Len(w) => Base(g[i], l2)
    BY DEF Leads, Holds
  <2>1. CASE i = 0
    BY <1>1, <2>1
  <2>2. CASE i = 1
    <3>1. g[1] = Turn(g[1 - 1], w[1])
      BY <2>2 DEF Path
    <3>2. g[i] = Turn(d, m)
      BY <1>1, <2>2, <3>1
    <3> QED
      BY <3>2
  <2> QED
    BY <1>1, <2>1, <2>2
<1>3. \A j \in 1 .. Len(w) - 1 : ~Fresh(w, j)
  BY <1>1
<1>4. Forgets(w, l2, TRUE)
  BY <1>1, <1>2, <1>3, LeadsForgets
<1> QED
  BY <1>2, <1>4 DEF w

\* A delta, in one message or in chunks, leads from the last view to the new one.
LEMMA SplitLeads ==
    ASSUME NEW l, IsMirror(l), NEW p, Drawable(p), NEW full \in BOOLEAN
    PROVE  LET w == SplitDelta(p.order, BuildDelta(l, p, full)) IN
           Queue(w) /\ Leads(w, l, Content(p)) /\ Forgets(w, Content(p), TRUE)
<1> DEFINE delta == BuildDelta(l, p, full)
           w == SplitDelta(p.order, delta)
           n == ChunkCount(p.order)
<1>1. /\ delta.kind = "delta" /\ delta.full \in BOOLEAN /\ (delta.full <=> full) /\ delta.partial = FALSE
      /\ DOMAIN delta = {"kind", "node", "edge", "gone", "cut", "full", "partial", "done", "total"}
  BY DEF BuildDelta
<1>2. p.order \in Seq(DOMAIN p.node) /\ Len(p.order) \in Nat /\ FullChunkSize \in Nat
  BY HubAssumption DEF Drawable
<1> HIDE DEF delta
<1>3. /\ Queue(w)
      /\ ~delta.full \/ Len(p.order) <= FullChunkSize => w = <<[delta EXCEPT !.done = delta.full]>>
      /\ delta.full /\ Len(p.order) > FullChunkSize =>
            /\ Len(w) = n
            /\ \A k \in 1 .. n : w[k] = Chunk(p.order, delta, k, Riding(p.order, delta, k), k = n)
  BY <1>1, <1>2, SplitIs
<1> HIDE DEF w
<1>4. ASSUME full /\ Len(p.order) > FullChunkSize PROVE Queue(w) /\ Leads(w, l, Content(p)) /\ Forgets(w, Content(p), TRUE)
  <2>1. full = TRUE
    BY <1>4
  <2>2. \A k \in 1 .. n : w[k] = ChunkOf(l, p, k)
    BY <1>1, <1>3, <1>4, <2>1 DEF ChunkOf, delta
  <2>3. Len(w) = n
    BY <1>1, <1>3, <1>4
  <2>4. Leads(w, l, Content(p))
    BY <1>3, <1>4, <2>2, <2>3, ChunksLead
  <2>5. ASSUME NEW j \in 1 .. Len(w) - 1 PROVE ~Fresh(w, j)
    <3>1. n \in Nat
      BY <1>2, <1>4, CountIs
    <3>2. j \in Nat /\ j # 0 /\ j + 1 \in 1 .. n /\ j # Len(w)
      BY <2>3, <3>1
    <3>3. w[j + 1] = ChunkOf(l, p, j + 1)
      BY <2>2, <3>2
    <3>4. IsChunk(w[j + 1], l, p, j)
      BY <3>2, <3>3, ChunkIs
    <3> QED
      BY <3>2, <3>4 DEF IsChunk, Fresh
  <2>6. Forgets(w, Content(p), TRUE)
    BY <1>3, <2>4, <2>5, LeadsForgets
  <2> QED
    BY <1>3, <2>4, <2>6
<1>5. ASSUME full /\ Len(p.order) <= FullChunkSize PROVE Queue(w) /\ Leads(w, l, Content(p)) /\ Forgets(w, Content(p), TRUE)
  <2> DEFINE m == [delta EXCEPT !.done = delta.full]
  <2>1. w = <<m>>
    BY <1>1, <1>3, <1>5
  <2>2. full = TRUE /\ delta.full = TRUE
    BY <1>1, <1>5
  <2>3. m = [BuildDelta(l, p, TRUE) EXCEPT !.done = TRUE]
    BY <2>2 DEF delta
  <2>4. Well(m)
    <3>1. m.kind = "delta" /\ m.full = TRUE /\ m.partial = FALSE /\ m.done = TRUE
      BY <1>1, <2>2
    <3> QED
      BY <3>1 DEF Well
  <2> HIDE DEF m
  <2>5. ASSUME NEW d, IsDrawing(d), Calm(d), Base(d, l)
        PROVE  IsDrawing(Turn(d, m)) /\ Calm(Turn(d, m)) /\ Base(Turn(d, m), Content(p))
    <3>1. Drawn(Turn(d, m), p)
      BY <2>3, <2>5, WholeDraws
    <3> QED
      BY <3>1, DrawnIsBase
  <2>6. Leads(<<m>>, l, Content(p)) /\ Forgets(<<m>>, Content(p), TRUE)
    BY <2>4, <2>5, OneLeads
  <2> QED
    BY <1>3, <2>1, <2>6
<1>6. ASSUME ~full PROVE Queue(w) /\ Leads(w, l, Content(p)) /\ Forgets(w, Content(p), TRUE)
  <2> DEFINE m == [delta EXCEPT !.done = delta.full]
  <2>1. w = <<m>>
    BY <1>1, <1>3, <1>6
  <2>2. full = FALSE /\ delta.full = FALSE
    BY <1>1, <1>6
  <2>3. m = [BuildDelta(l, p, FALSE) EXCEPT !.done = FALSE]
    BY <2>2 DEF delta
  <2>4. Well(m)
    <3>1. m.kind = "delta" /\ m.full = FALSE /\ m.partial = FALSE /\ m.done = FALSE
      BY <1>1, <2>2
    <3> QED
      BY <3>1 DEF Well
  <2> HIDE DEF m
  <2>5. ASSUME NEW d, IsDrawing(d), Calm(d), Base(d, l)
        PROVE  IsDrawing(Turn(d, m)) /\ Calm(Turn(d, m)) /\ Base(Turn(d, m), Content(p))
    BY <2>3, <2>5, PlainDraws
  <2>6. Leads(<<m>>, l, Content(p)) /\ Forgets(<<m>>, Content(p), TRUE)
    BY <2>4, <2>5, OneLeads
  <2> QED
    BY <1>3, <2>1, <2>6
<1>7. ~full \/ (full /\ Len(p.order) > FullChunkSize) \/ (full /\ Len(p.order) <= FullChunkSize)
  BY <1>2
<1>8. Queue(w) /\ Leads(w, l, Content(p)) /\ Forgets(w, Content(p), TRUE)
  BY <1>4, <1>5, <1>6, <1>7
<1> QED
  BY <1>8 DEF w, delta

\* What a styled tick sends leads from the last view to the new one, whatever else the
\* browser still draws.
LEMMA AnswerLeads ==
    ASSUME NEW l, IsMirror(l), NEW p, Drawable(p), NEW full \in BOOLEAN,
           NEW out, IsAnswer(out, l, p, full)
    PROVE  Leads(out, l, Content(p)) /\ Forgets(out, Content(p), TRUE)
<1> DEFINE l2 == Content(p)
<1>1. PICK styled, counts :
        /\ out = styled \o counts
        /\ \/ styled = <<>> /\ IsNil(BuildDelta(l, p, full))
           \/ styled = SplitDelta(p.order, BuildDelta(l, p, full))
        /\ counts = <<>> \/ counts = <<CountsOf(p)>>
  BY DEF IsAnswer
<1>2. /\ Queue(counts) /\ Len(counts) \in 0 .. 1
      /\ \A k \in 1 .. Len(counts) : counts[k].kind = "counts"
  BY <1>1, CountsQueued
<1>3. Queue(styled) /\ Leads(styled, l, l2) /\ Forgets(styled, l2, TRUE)
  <2>1. CASE styled = <<>> /\ IsNil(BuildDelta(l, p, full))
    <3>1. l2 = l
      BY <2>1, QuietIs
    <3>2. Queue(<<>>) /\ Len(<<>>) \in 0 .. 2 /\ \A k \in 1 .. Len(<<>>) : <<>>[k].kind # "delta"
      BY QueueEmpty
    <3>3. Leads(<<>>, l, l) /\ Forgets(<<>>, l, TRUE)
      BY <3>2, OthersLead
    <3> HIDE DEF l2
    <3> QED
      BY <2>1, <3>1, <3>2, <3>3
  <2>2. CASE styled = SplitDelta(p.order, BuildDelta(l, p, full))
    BY <2>2, SplitLeads
  <2> QED
    BY <1>1, <2>1, <2>2
<1> HIDE DEF l2
<1>4. Leads(counts, l2, l2) /\ Forgets(counts, l2, TRUE)
  <2>1. Len(counts) \in 0 .. 2 /\ \A k \in 1 .. Len(counts) : counts[k].kind # "delta"
    BY <1>2
  <2> QED
    BY <1>2, <2>1, OthersLead
<1>5. Leads(out, l, l2)
  <2> SUFFICES ASSUME NEW d, IsDrawing(d), Calm(d), Base(d, l) PROVE Holds(out, l2, TRUE, 0, d)
    BY DEF Leads
  <2>1. Holds(styled, l2, TRUE, 0, d)
    BY <1>3 DEF Leads
  <2>2. 0 \in 0 .. Len(styled)
    BY <1>3, QueueJoin
  <2>3. Holds(styled \o counts, l2, TRUE, 0, d)
    BY <1>2, <1>3, <1>4, <2>1, <2>2, HoldsJoin
  <2> QED
    BY <1>1, <2>3
<1>6. Forgets(out, l2, TRUE)
  BY <1>1, <1>2, <1>3, <1>4, ForgetsJoin
<1> QED
  BY <1>5, <1>6 DEF l2

-----------------------------------------------------------------------------
(* Chunks in order.                                                        *)

\* A chunk that is not the first, and a chunk that is not the last, of a full picture.
Continues(m) == m.kind = "delta" /\ m.partial /\ ~m.full
Unfinished(m) == m.kind = "delta" /\ m.partial /\ ~m.done

\* A chunk that continues a picture follows the one before it.
Ordered(w) == \A k \in 1 .. Len(w) - 1 : Continues(w[k + 1]) => Unfinished(w[k])

\* Nor does such a queue begin in the middle of a picture.
Opening(w) == Ordered(w) /\ (Len(w) # 0 => ~Continues(w[1]))

\* No message continues nothing.
LEMMA OpeningEmpty == Opening(<<>>)
<1>1. Len(<<>>) = 0
  OBVIOUS
<1>2. \A k \in 1 .. 0 - 1 : FALSE
  OBVIOUS
<1> QED
  BY <1>1, <1>2 DEF Opening, Ordered

\* Taking the first message keeps the chunks in order,
LEMMA OrderedTail ==
    ASSUME NEW w, Queue(w), w # <<>>, Ordered(w)
    PROVE  Ordered(Tail(w)) /\ (Len(Tail(w)) # 0 /\ Continues(Tail(w)[1]) => Unfinished(Head(w)))
<1> DEFINE t == Tail(w)
           n == Len(w)
<1>1. n \in Nat /\ n # 0 /\ Len(t) = n - 1 /\ w[1] = Head(w)
  BY QueueTail
<1>2. \A k \in 1 .. n - 1 : t[k] = w[k + 1]
  BY QueueTail
<1>3. \A k \in 1 .. n - 1 : Continues(w[k + 1]) => Unfinished(w[k])
  BY DEF Ordered
<1> HIDE DEF t, n
<1>4. ASSUME NEW k \in 1 .. Len(t) - 1 PROVE Continues(t[k + 1]) => Unfinished(t[k])
  <2>1. k \in 1 .. n - 1 /\ k + 1 \in 1 .. n - 1
    BY <1>1
  <2>2. t[k] = w[k + 1] /\ t[k + 1] = w[(k + 1) + 1]
    BY <1>2, <2>1
  <2> QED
    BY <1>3, <2>1, <2>2
<1>5. Len(t) # 0 /\ Continues(t[1]) => Unfinished(Head(w))
  <2> SUFFICES ASSUME Len(t) # 0, Continues(t[1]) PROVE Unfinished(Head(w))
    OBVIOUS
  <2>1. 1 \in 1 .. n - 1 /\ 1 + 1 = 2
    BY <1>1
  <2>2. t[1] = w[1 + 1]
    BY <1>2, <2>1
  <2> QED
    BY <1>1, <1>3, <2>1, <2>2
<1> QED
  BY <1>4, <1>5 DEF Ordered, t

\* so does losing the last ones,
LEMMA OrderedFront ==
    ASSUME NEW v, NEW u, Queue(v), Queue(u), Ordered(v \o u)
    PROVE  Ordered(v) /\ (Len(v) # 0 => (v \o u)[1] = v[1])
<1> DEFINE q == v \o u
<1>1. Len(v) \in Nat /\ Len(u) \in Nat /\ Len(q) = Len(v) + Len(u)
  BY QueueJoin
<1>2. \A k \in 1 .. Len(v) : q[k] = v[k]
  BY QueueJoin
<1>3. \A k \in 1 .. Len(q) - 1 : Continues(q[k + 1]) => Unfinished(q[k])
  BY DEF Ordered
<1> HIDE DEF q
<1>4. ASSUME NEW k \in 1 .. Len(v) - 1 PROVE Continues(v[k + 1]) => Unfinished(v[k])
  <2>1. k \in 1 .. Len(v) /\ k + 1 \in 1 .. Len(v) /\ k \in 1 .. Len(q) - 1
    BY <1>1
  <2> QED
    BY <1>2, <1>3, <2>1
<1>5. Len(v) # 0 => 1 \in 1 .. Len(v)
  BY <1>1
<1> QED
  BY <1>2, <1>4, <1>5 DEF Ordered, q

\* and so do messages behind them that begin with no continuation.
LEMMA OrderedJoin ==
    ASSUME NEW v, NEW u, Queue(v), Queue(u), Ordered(v), Opening(u)
    PROVE  /\ Ordered(v \o u)
           /\ Len(v \o u) # 0 /\ Continues((v \o u)[1]) => Len(v) # 0 /\ (v \o u)[1] = v[1]
<1> DEFINE q == v \o u
           n == Len(v)
<1>1. n \in Nat /\ Len(u) \in Nat /\ Len(q) = n + Len(u)
  BY QueueJoin
<1>2. \A k \in 1 .. n : q[k] = v[k]
  BY QueueJoin
<1>3. \A k \in n + 1 .. n + Len(u) : q[k] = u[k - n]
  BY QueueJoin
<1>4. \A k \in 1 .. n - 1 : Continues(v[k + 1]) => Unfinished(v[k])
  BY DEF Ordered
<1>5. \A k \in 1 .. Len(u) - 1 : Continues(u[k + 1]) => Unfinished(u[k])
  BY DEF Opening, Ordered
<1>6. Len(u) # 0 => ~Continues(u[1])
  BY DEF Opening
<1> HIDE DEF q, n
<1>7. ASSUME NEW k \in 1 .. Len(q) - 1, Continues(q[k + 1]) PROVE Unfinished(q[k])
  <2>1. CASE k + 1 <= n
    <3>1. k \in 1 .. n /\ k + 1 \in 1 .. n /\ k \in 1 .. n - 1
      BY <1>1, <2>1
    <3>2. q[k] = v[k] /\ q[k + 1] = v[k + 1]
      BY <1>2, <3>1
    <3> QED
      BY <1>4, <1>7, <3>1, <3>2
  <2>2. CASE k = n
    <3>1. k + 1 \in n + 1 .. n + Len(u) /\ (k + 1) - n = 1 /\ Len(u) # 0
      BY <1>1, <2>2
    <3>2. q[k + 1] = u[1]
      BY <1>3, <3>1
    <3> QED
      BY <1>6, <1>7, <3>1, <3>2
  <2>3. CASE n < k
    <3>1. /\ k \in n + 1 .. n + Len(u) /\ k + 1 \in n + 1 .. n + Len(u)
          /\ (k + 1) - n = (k - n) + 1 /\ k - n \in 1 .. Len(u) - 1
      BY <1>1, <2>3
    <3>2. q[k] = u[k - n] /\ q[k + 1] = u[(k - n) + 1]
      BY <1>3, <3>1
    <3> QED
      BY <1>5, <1>7, <3>1, <3>2
  <2> QED
    BY <1>1, <2>1, <2>2, <2>3
<1>8. ASSUME Len(q) # 0, Continues(q[1]) PROVE Len(v) # 0 /\ q[1] = v[1]
  <2>1. CASE n = 0
    <3>1. 1 \in n + 1 .. n + Len(u) /\ 1 - n = 1 /\ Len(u) # 0
      BY <1>1, <1>8, <2>1
    <3>2. q[1] = u[1]
      BY <1>3, <3>1
    <3> QED
      BY <1>6, <1>8, <3>1, <3>2
  <2>2. CASE n # 0
    <3>1. 1 \in 1 .. n
      BY <1>1, <2>2
    <3> QED
      BY <1>2, <2>2, <3>1 DEF n
  <2> QED
    BY <2>1, <2>2
<1> QED
  BY <1>7, <1>8 DEF Ordered, q

\* Two queues that begin with no continuation, in a row.
LEMMA OpeningJoin ==
    ASSUME NEW v, NEW u, Queue(v), Queue(u), Opening(v), Opening(u)
    PROVE  Opening(v \o u)
<1>1. Ordered(v) /\ (Len(v) # 0 => ~Continues(v[1]))
  BY DEF Opening
<1>2. /\ Ordered(v \o u)
      /\ Len(v \o u) # 0 /\ Continues((v \o u)[1]) => Len(v) # 0 /\ (v \o u)[1] = v[1]
  BY <1>1, OrderedJoin
<1> QED
  BY <1>1, <1>2 DEF Opening

\* One or two messages that continue nothing.
LEMMA OpeningFew ==
    ASSUME NEW w, Queue(w), Len(w) \in 0 .. 2, \A k \in 1 .. Len(w) : ~Continues(w[k])
    PROVE  Opening(w)
<1>1. \A k \in 1 .. Len(w) - 1 : k + 1 \in 1 .. Len(w)
  OBVIOUS
<1>2. Len(w) # 0 => 1 \in 1 .. Len(w)
  OBVIOUS
<1> QED
  BY <1>1, <1>2 DEF Opening, Ordered

\* The chunks of a picture are in order, the first one first.
LEMMA SplitOpens ==
    ASSUME NEW l, NEW p, Drawable(p), NEW full \in BOOLEAN
    PROVE  Opening(SplitDelta(p.order, BuildDelta(l, p, full)))
<1> DEFINE delta == BuildDelta(l, p, full)
           w == SplitDelta(p.order, delta)
           n == ChunkCount(p.order)
<1>1. /\ delta.kind = "delta" /\ delta.full \in BOOLEAN /\ (delta.full <=> full) /\ delta.partial = FALSE
      /\ DOMAIN delta = {"kind", "node", "edge", "gone", "cut", "full", "partial", "done", "total"}
  BY DEF BuildDelta
<1>2. p.order \in Seq(DOMAIN p.node) /\ Len(p.order) \in Nat /\ FullChunkSize \in Nat
  BY HubAssumption DEF Drawable
<1> HIDE DEF delta
<1>3. /\ Queue(w)
      /\ ~delta.full \/ Len(p.order) <= FullChunkSize => w = <<[delta EXCEPT !.done = delta.full]>>
      /\ delta.full /\ Len(p.order) > FullChunkSize =>
            /\ Len(w) = n
            /\ \A k \in 1 .. n : w[k] = Chunk(p.order, delta, k, Riding(p.order, delta, k), k = n)
  BY <1>1, <1>2, SplitIs
<1> HIDE DEF w
<1>4. ASSUME full, Len(p.order) > FullChunkSize PROVE Opening(w)
  <2>1. full = TRUE
    BY <1>4
  <2>2. \A k \in 1 .. n : w[k] = ChunkOf(l, p, k)
    BY <1>1, <1>3, <1>4, <2>1 DEF ChunkOf, delta
  <2>3. Len(w) = n /\ n \in Nat /\ n >= 2
    BY <1>1, <1>2, <1>3, <1>4, CountIs
  <2> HIDE DEF n
  <2>4. ASSUME NEW j \in 0 .. n - 1
        PROVE  (Continues(w[j + 1]) => j # 0) /\ (j + 1 # n => Unfinished(w[j + 1]))
    <3>1. j \in Nat /\ j + 1 \in 1 .. n
      BY <2>3
    <3>2. IsChunk(w[j + 1], l, p, j)
      BY <2>2, <3>1, ChunkIs
    <3> QED
      BY <3>2 DEF IsChunk, Continues, Unfinished, n
  <2>5. ASSUME NEW k \in 1 .. Len(w) - 1 PROVE Unfinished(w[k])
    <3>1. k - 1 \in 0 .. n - 1 /\ (k - 1) + 1 = k /\ k # n
      BY <2>3
    <3> QED
      BY <2>4, <3>1
  <2>6. ~Continues(w[1])
    <3>1. 0 \in 0 .. n - 1 /\ 0 + 1 = 1
      BY <2>3
    <3> QED
      BY <2>4, <3>1
  <2> QED
    BY <2>5, <2>6 DEF Opening, Ordered
<1>5. ASSUME ~full \/ Len(p.order) <= FullChunkSize PROVE Opening(w)
  <2> DEFINE m == [delta EXCEPT !.done = delta.full]
  <2>1. w = <<m>>
    BY <1>1, <1>3, <1>5
  <2>2. m.partial = FALSE
    BY <1>1
  <2> HIDE DEF m
  <2>3. Len(w) = 1 /\ w[1] = m
    BY <2>1
  <2>4. \A k \in 1 .. 1 : k = 1
    OBVIOUS
  <2>5. \A k \in 1 .. Len(w) : ~Continues(w[k])
    BY <2>2, <2>3, <2>4 DEF Continues
  <2> QED
    BY <1>3, <2>3, <2>5, OpeningFew
<1>6. (full /\ Len(p.order) > FullChunkSize) \/ (~full \/ Len(p.order) <= FullChunkSize)
  BY <1>2
<1>7. Opening(w)
  BY <1>4, <1>5, <1>6
<1> QED
  BY <1>7 DEF w, delta

\* The messages of a styled tick are in order.
LEMMA AnswerOpens ==
    ASSUME NEW l, NEW p, Drawable(p), NEW full \in BOOLEAN, NEW out, IsAnswer(out, l, p, full)
    PROVE  Opening(out)
<1>1. PICK styled, counts :
        /\ out = styled \o counts
        /\ styled = <<>> \/ styled = SplitDelta(p.order, BuildDelta(l, p, full))
        /\ counts = <<>> \/ counts = <<CountsOf(p)>>
  BY DEF IsAnswer
<1>2. /\ Queue(counts) /\ Len(counts) \in 0 .. 1
      /\ \A k \in 1 .. Len(counts) : counts[k].kind = "counts"
  BY <1>1, CountsQueued
<1>3. Opening(counts)
  BY <1>2, OpeningFew DEF Continues
<1>4. Queue(styled) /\ Opening(styled)
  <2> DEFINE delta == BuildDelta(l, p, full)
  <2>1. /\ delta.kind = "delta" /\ delta.full \in BOOLEAN /\ delta.partial = FALSE
        /\ DOMAIN delta = {"kind", "node", "edge", "gone", "cut", "full", "partial", "done", "total"}
    BY DEF BuildDelta
  <2>2. Queue(SplitDelta(p.order, delta))
    <3> HIDE DEF delta
    <3> QED
      BY <2>1, SplitIs DEF Drawable
  <2>3. Opening(SplitDelta(p.order, delta))
    BY SplitOpens
  <2> HIDE DEF delta
  <2> QED
    BY <1>1, <2>2, <2>3, QueueEmpty, OpeningEmpty DEF delta
<1> QED
  BY <1>1, <1>2, <1>3, <1>4, OpeningJoin

\* What a raw tick sends: nothing, or the counters and a whole picture.
LEMMA RawIs ==
    ASSUME NEW due, BuildRaw(due), TypeInv, Settled
    PROVE  \E out, snapshot :
              /\ Queue(out) /\ Len(out) \in 0 .. 2 /\ \A k \in 1 .. Len(out) : out[k].kind # "delta"
              /\ Onward(out, snapshot)
<1>1. PICK out, snapshot :
         /\ Onward(out, snapshot)
         /\ out = <<>> \/ \E p : out = <<[kind |-> "rawMeta", total |-> p.total],
                               [kind |-> "raw", picture |-> Content(p)]>>
  <2>1. CASE tick.full \/ due
    BY <2>1 DEF BuildRaw
  <2>2. CASE ~(tick.full \/ due)
    BY <2>2 DEF BuildRaw
  <2> QED
    BY <2>1, <2>2
<1>2. Queue(out) /\ Len(out) \in 0 .. 2 /\ \A k \in 1 .. Len(out) : out[k].kind # "delta"
  <2>1. ASSUME NEW p, out = <<[kind |-> "rawMeta", total |-> p.total],
                              [kind |-> "raw", picture |-> Content(p)]>>
        PROVE  Queue(out) /\ Len(out) \in 0 .. 2 /\ \A k \in 1 .. Len(out) : out[k].kind # "delta"
    <3> DEFINE a == [kind |-> "rawMeta", total |-> p.total]
               b == [kind |-> "raw", picture |-> Content(p)]
    <3>1. a.kind = "rawMeta" /\ b.kind = "raw"
      OBVIOUS
    <3>2. out = <<a>> \o <<b>> /\ Len(out) = 2 /\ out[1] = a /\ out[2] = b
      BY <2>1
    <3> HIDE DEF a, b
    <3>3. Well(a) /\ Well(b)
      BY <3>1 DEF Well
    <3>4. Queue(<<a>>) /\ Queue(<<b>>)
      BY <3>3, QueueOne
    <3>5. Queue(out)
      BY <3>2, <3>4, QueueJoin
    <3>6. \A k \in 1 .. 2 : k = 1 \/ k = 2
      OBVIOUS
    <3>7. \A k \in 1 .. Len(out) : out[k].kind # "delta"
      BY <3>1, <3>2, <3>6
    <3>8. Len(out) \in 0 .. 2
      BY <3>2
    <3> QED
      BY <3>5, <3>7, <3>8
  <2>2. CASE out = <<>>
    <3>1. Len(out) = 0
      BY <2>2
    <3>2. \A k \in 1 .. 0 : FALSE
      OBVIOUS
    <3> QED
      BY <2>2, <3>1, <3>2, QueueEmpty
  <2> QED
    BY <1>1, <2>1, <2>2
<1> QED
  BY <1>1, <1>2

-----------------------------------------------------------------------------
(* Screens.                                                                *)

\* A delta that waits for the timer is a difference in one message, and the timer runs.
Waits(s) ==
    s.pending # NoDelta =>
        /\ s.pending.kind = "delta" /\ s.pending.full = FALSE /\ s.pending.partial = FALSE
        /\ s.pending.done = FALSE
        /\ s.scheduled

Sound(s) == Shaped(s) /\ Waits(s) /\ Calm(Draw(s)) /\ Calm(Start(s))

\* The drawing of a screen whose pending delta is lost.
Shaken(s) == [node |-> s.node, edge |-> s.edge, sync |-> s.sync, synced |-> s.synced,
              lost |-> TRUE, adrift |-> s.adrift]

\* Screen t is what message m makes of screen s: its drawing is the turn of what s would
\* become, or of s without its pending delta, which a message in one piece or the first of a
\* picture can displace.
Becomes(s, m, t) ==
    /\ Shaped(t) /\ Waits(t) /\ t.conn = s.conn
    /\ \/ Start(t) = Turn(Start(s), m)
       \/ Start(t) = Turn(Shaken(s), m) /\ ~Continues(m)
    /\ Draw(t) = Start(t) \/ (Calm(Draw(s)) => Calm(Draw(t)))
    /\ Unfinished(m) => t.pending = NoDelta

\* A screen without its pending delta is a lost drawing.
LEMMA ShakenIs ==
    ASSUME NEW s, Shaped(s)
    PROVE  IsDrawing(Shaken(s)) /\ Shaken(s).lost
  BY DEF Shaped, IsDrawing, Shaken

\* The pending delta makes a drawing of a drawing.
LEMMA StartIs ==
    ASSUME NEW s, Shaped(s), Waits(s)
    PROVE  IsDrawing(Start(s))
<1>1. CASE s.pending = NoDelta
  BY <1>1, DrawIs DEF Start
<1>2. CASE s.pending # NoDelta
  <2>1. IsDrawing(Draw(s)) /\ s.pending.full \in BOOLEAN /\ s.pending.done \in BOOLEAN
    BY <1>2, DrawIs DEF Waits
  <2>2. IsDrawing(Redraw(Draw(s), s.pending))
    BY <2>1 DEF Redraw, IsDrawing
  <2> QED
    BY <1>2, <2>2 DEF Start
<1> QED
  BY <1>1, <1>2

\* A screen with nothing pending.
LEMMA StartDraws ==
    ASSUME NEW t, t.pending = NoDelta
    PROVE  Start(t) = Draw(t) /\ Waits(t)
  BY DEF Start, Waits

\* A screen with delta m pending.
LEMMA HeldDraws ==
    ASSUME NEW t, NEW m, t.pending = m, m.kind = "delta"
    PROVE  m # NoDelta /\ Start(t) = Redraw(Draw(t), m)
<1>1. NoDelta.kind = "none"
  BY DEF NoDelta
<1>2. m # NoDelta
  BY <1>1
<1> QED
  BY <1>2 DEF Start

\* updateGraph of a delta that has been taken.
LEMMA AppliedDraws ==
    ASSUME NEW s, Shaped(s), NEW m, m.kind = "delta", m.full \in BOOLEAN, m.done \in BOOLEAN
    PROVE  /\ Shaped(UpdateGraph(Taken(s, m), m)) /\ UpdateGraph(Taken(s, m), m).conn = s.conn
           /\ UpdateGraph(Taken(s, m), m).pending = s.pending
           /\ Draw(UpdateGraph(Taken(s, m), m)) = Turn(Draw(s), m)
<1> DEFINE t == Taken(s, m)
<1>1. Shaped(t) /\ Draw(t) = Noted(Draw(s), m) /\ t.pending = s.pending /\ t.conn = s.conn
  BY TakenDraws
<1> HIDE DEF t
<1>2. /\ Shaped(UpdateGraph(t, m)) /\ Draw(UpdateGraph(t, m)) = Redraw(Draw(t), m)
      /\ UpdateGraph(t, m).pending = t.pending /\ UpdateGraph(t, m).conn = t.conn
  BY <1>1, UpdateDraws
<1>3. Turn(Draw(s), m) = Redraw(Noted(Draw(s), m), m)
  BY DEF Turn
<1> QED
  BY <1>1, <1>2, <1>3 DEF t

\* A delta applied at once, with nothing pending.
LEMMA AppliedBecomes ==
    ASSUME NEW s, Shaped(s), s.pending = NoDelta, NEW m, Well(m), m.kind = "delta"
    PROVE  Becomes(s, m, UpdateGraph(Taken(s, m), m))
<1> DEFINE t == UpdateGraph(Taken(s, m), m)
<1>1. m.full \in BOOLEAN /\ m.done \in BOOLEAN
  BY DEF Well
<1>2. Shaped(t) /\ t.conn = s.conn /\ t.pending = NoDelta /\ Draw(t) = Turn(Draw(s), m)
  BY <1>1, AppliedDraws
<1> HIDE DEF t
<1>3. Start(t) = Draw(t) /\ Waits(t)
  BY <1>2, StartDraws
<1>4. Start(s) = Draw(s)
  BY StartDraws
<1> QED
  BY <1>2, <1>3, <1>4 DEF Becomes, t

\* A full picture, or its first chunk, which cancels what is pending.
LEMMA FullBecomes ==
    ASSUME NEW s, Shaped(s), Waits(s), NEW m, Well(m), m.kind = "delta", m.full = TRUE
    PROVE  Becomes(s, m, UpdateGraph([Taken(s, m) EXCEPT !.pending = NoDelta, !.scheduled = FALSE,
                                          !.lost = @ \/ Taken(s, m).pending # NoDelta], m))
<1> DEFINE r == Taken(s, m)
           q == [r EXCEPT !.pending = NoDelta, !.scheduled = FALSE, !.lost = @ \/ r.pending # NoDelta]
           t == UpdateGraph(q, m)
<1>1. m.full \in BOOLEAN /\ m.done \in BOOLEAN
  BY DEF Well
<1> HIDE DEF t, q
<1>2. Shaped(r) /\ Draw(r) = Noted(Draw(s), m) /\ r.pending = s.pending /\ r.conn = s.conn
  BY <1>1, TakenDraws
<1> HIDE DEF r
<1> USE DEF q
<1>3. /\ DOMAIN q = ScreenFields /\ q.pending = NoDelta /\ q.conn = r.conn /\ q.node = r.node
      /\ q.edge = r.edge /\ q.sync = r.sync /\ q.synced = r.synced /\ q.adrift = r.adrift
      /\ q.lost = (r.lost \/ r.pending # NoDelta)
  BY <1>2 DEF Shaped, ScreenFields
<1> HIDE DEF q
<1>4. Shaped(q)
  BY <1>2, <1>3 DEF Shaped
<1>5. /\ Shaped(t) /\ Draw(t) = Redraw(Draw(q), m)
      /\ t.pending = NoDelta /\ t.conn = s.conn
  <2>1. /\ Shaped(UpdateGraph(q, m)) /\ Draw(UpdateGraph(q, m)) = Redraw(Draw(q), m)
        /\ UpdateGraph(q, m).pending = q.pending /\ UpdateGraph(q, m).conn = q.conn
    BY <1>1, <1>4, UpdateDraws
  <2> QED
    BY <1>2, <1>3, <2>1 DEF t
<1>6. Start(t) = Draw(t) /\ Waits(t)
  BY <1>5, StartDraws
<1>7. ~Continues(m)
  BY DEF Continues
<1>8. CASE s.pending = NoDelta
  <2>1. q.lost = r.lost
    BY <1>2, <1>3, <1>8 DEF Shaped
  <2>2. Draw(q) = Draw(r)
    BY <1>3, <2>1 DEF Draw
  <2>3. Start(t) = Turn(Start(s), m)
    BY <1>2, <1>5, <1>6, <1>8, <2>2 DEF Turn, Start
  <2> QED
    BY <1>5, <1>6, <2>3 DEF Becomes, t, q, r
<1>9. CASE s.pending # NoDelta
  <2>1. q.lost = TRUE
    BY <1>2, <1>3, <1>9
  <2>2. Draw(r).node = Noted(Draw(s), m).node /\ Draw(r).edge = Noted(Draw(s), m).edge
        /\ Draw(r).sync = Noted(Draw(s), m).sync /\ Draw(r).synced = Noted(Draw(s), m).synced
        /\ Draw(r).adrift = Noted(Draw(s), m).adrift
    BY <1>2
  <2>3. /\ r.node = s.node /\ r.edge = s.edge /\ r.sync = s.sync /\ r.synced = s.synced
        /\ r.adrift = (s.adrift \/ ~(s.synced \/ m.full))
    BY <2>2 DEF Draw, Noted
  <2>4. Draw(q) = Noted(Shaken(s), m)
    BY <1>3, <2>1, <2>3 DEF Draw, Noted, Shaken
  <2>5. Start(t) = Turn(Shaken(s), m)
    BY <1>5, <1>6, <2>4 DEF Turn
  <2> QED
    BY <1>5, <1>6, <1>7, <2>5 DEF Becomes, t, q, r
<1> QED
  BY <1>8, <1>9

\* A difference that takes the place of the one that waits, or waits itself.
LEMMA HeldBecomes ==
    ASSUME NEW s, Shaped(s), Waits(s), NEW m, Well(m), m.kind = "delta", m.full = FALSE,
           m.partial = FALSE,
           NEW t, \/ s.scheduled /\ t = [Taken(s, m) EXCEPT !.pending = m,
                                              !.lost = @ \/ Taken(s, m).pending # NoDelta]
                  \/ s.pending = NoDelta /\ t = [Taken(s, m) EXCEPT !.pending = m, !.scheduled = TRUE]
    PROVE  Becomes(s, m, t)
<1> DEFINE r == Taken(s, m)
<1>1. m.full \in BOOLEAN /\ m.done = FALSE
  BY DEF Well
<1>2. /\ Shaped(r) /\ Draw(r) = Noted(Draw(s), m) /\ r.pending = s.pending
      /\ r.scheduled = s.scheduled /\ r.conn = s.conn
  BY <1>1, TakenDraws
<1>3. \/ s.scheduled /\ t = [r EXCEPT !.pending = m, !.lost = @ \/ r.pending # NoDelta]
      \/ s.pending = NoDelta /\ t = [r EXCEPT !.pending = m, !.scheduled = TRUE]
  OBVIOUS
<1> HIDE DEF r
<1>4. /\ DOMAIN t = ScreenFields /\ t.pending = m /\ t.conn = r.conn /\ t.node = r.node
      /\ t.edge = r.edge /\ t.sync = r.sync /\ t.synced = r.synced /\ t.adrift = r.adrift
  BY <1>2, <1>3 DEF Shaped, ScreenFields
<1>5. t.scheduled /\ t.lost = (r.lost \/ r.pending # NoDelta)
  <2>1. CASE s.scheduled /\ t = [r EXCEPT !.pending = m, !.lost = @ \/ r.pending # NoDelta]
    BY <1>2, <2>1 DEF Shaped, ScreenFields
  <2>2. CASE s.pending = NoDelta /\ t = [r EXCEPT !.pending = m, !.scheduled = TRUE]
    <3>1. t.scheduled = TRUE /\ t.lost = r.lost /\ r.pending = NoDelta /\ r.lost \in BOOLEAN
      BY <1>2, <2>2 DEF Shaped, ScreenFields
    <3> QED
      BY <3>1
  <2> QED
    BY <1>3, <2>1, <2>2
<1>6. Shaped(t)
  BY <1>2, <1>4, <1>5 DEF Shaped
<1>7. Waits(t)
  BY <1>1, <1>4, <1>5 DEF Waits
<1>8. Start(t) = Redraw(Draw(t), m)
  BY <1>4, HeldDraws
<1>10. ~Continues(m) /\ ~Unfinished(m)
  BY DEF Continues, Unfinished
<1>11. Calm(Draw(s)) => Calm(Draw(t))
  <2>1. /\ r.node = s.node /\ r.edge = s.edge /\ r.lost = s.lost
        /\ r.adrift = (s.adrift \/ ~(s.synced \/ m.full))
    <3>1. /\ Draw(r).node = Noted(Draw(s), m).node /\ Draw(r).edge = Noted(Draw(s), m).edge
          /\ Draw(r).lost = Noted(Draw(s), m).lost /\ Draw(r).adrift = Noted(Draw(s), m).adrift
      BY <1>2
    <3> QED
      BY <3>1 DEF Draw, Noted
  <2>2. /\ Draw(t).node = s.node /\ Draw(t).edge = s.edge
        /\ Draw(t).lost = t.lost /\ Draw(t).adrift = t.adrift
        /\ Draw(s).node = s.node /\ Draw(s).edge = s.edge
        /\ Draw(s).lost = s.lost /\ Draw(s).adrift = s.adrift
    BY <1>4, <2>1 DEF Draw
  <2>3. (s.lost => t.lost) /\ (s.adrift => t.adrift)
    BY <1>4, <1>5, <2>1
  <2> QED
    BY <2>2, <2>3 DEF Calm
<1>12. CASE s.pending = NoDelta
  <2>1. t.lost = r.lost
    BY <1>2, <1>5, <1>12 DEF Shaped
  <2>2. Draw(t) = Draw(r)
    BY <1>4, <2>1 DEF Draw
  <2>3. Start(t) = Turn(Start(s), m)
    BY <1>2, <1>8, <1>12, <2>2 DEF Turn, Start
  <2> QED
    BY <1>2, <1>4, <1>6, <1>7, <1>10, <1>11, <2>3 DEF Becomes
<1>13. CASE s.pending # NoDelta
  <2>1. t.lost = TRUE
    BY <1>2, <1>5, <1>13
  <2>2. Draw(r).node = Noted(Draw(s), m).node /\ Draw(r).edge = Noted(Draw(s), m).edge
        /\ Draw(r).sync = Noted(Draw(s), m).sync /\ Draw(r).synced = Noted(Draw(s), m).synced
        /\ Draw(r).adrift = Noted(Draw(s), m).adrift
    BY <1>2
  <2>3. /\ r.node = s.node /\ r.edge = s.edge /\ r.sync = s.sync /\ r.synced = s.synced
        /\ r.adrift = (s.adrift \/ ~(s.synced \/ m.full))
    BY <2>2 DEF Draw, Noted
  <2>4. Draw(t) = Noted(Shaken(s), m)
    BY <1>4, <2>1, <2>3 DEF Draw, Noted, Shaken
  <2>5. Start(t) = Turn(Shaken(s), m)
    BY <1>8, <2>4 DEF Turn
  <2> QED
    BY <1>2, <1>4, <1>6, <1>7, <1>10, <1>11, <2>5 DEF Becomes
<1> QED
  BY <1>12, <1>13

\* A message that is no delta.
LEMMA OtherBecomes ==
    ASSUME NEW s, Shaped(s), Waits(s), NEW m, m.kind # "delta",
           NEW x, NEW t, t = [s EXCEPT !.total = x] \/ t = [s EXCEPT !.raw = x]
    PROVE  Becomes(s, m, t)
<1>1. /\ DOMAIN t = ScreenFields /\ t.pending = s.pending /\ t.scheduled = s.scheduled
      /\ t.conn = s.conn /\ t.node = s.node /\ t.edge = s.edge /\ t.sync = s.sync
      /\ t.synced = s.synced /\ t.adrift = s.adrift /\ t.lost = s.lost
  BY DEF Shaped, ScreenFields
<1>2. Shaped(t) /\ Waits(t) /\ Draw(t) = Draw(s)
  BY <1>1 DEF Shaped, Waits, Draw
<1>3. Start(t) = Start(s)
  BY <1>1, <1>2 DEF Start
<1>4. Start(t) = Turn(Start(s), m)
  BY <1>3 DEF Turn
<1> QED
  BY <1>1, <1>2, <1>4 DEF Becomes, Unfinished

\* ws.onmessage, whatever the throttle does with the message.
LEMMA ReceivedBecomes ==
    ASSUME NEW s, Shaped(s), Waits(s), NEW m, Well(m), Continues(m) => s.pending = NoDelta,
           NEW t, t \in Received(s, m)
    PROVE  Becomes(s, m, t)
<1>1. CASE m.kind = "delta"
  <2>1. t \in Throttled(s, m)
    BY <1>1 DEF Received
  <2>2. m.full \in BOOLEAN /\ m.partial \in BOOLEAN
    BY <1>1 DEF Well
  <2>3. Taken(s, m).pending = s.pending /\ Taken(s, m).scheduled = s.scheduled
    BY <2>2, TakenDraws
  <2>4. CASE m.partial /\ ~m.full
    <3>1. s.pending = NoDelta /\ t = UpdateGraph(Taken(s, m), m)
      BY <1>1, <2>1, <2>4 DEF Continues, Throttled
    <3> QED
      BY <1>1, <3>1, AppliedBecomes
  <2>5. CASE m.full
    <3>1. t = UpdateGraph([Taken(s, m) EXCEPT !.pending = NoDelta, !.scheduled = FALSE,
                                  !.lost = @ \/ Taken(s, m).pending # NoDelta], m)
      BY <2>1, <2>5 DEF Throttled
    <3>2. m.full = TRUE
      BY <2>2, <2>5
    <3> QED
      BY <1>1, <3>1, <3>2, FullBecomes
  <2>6. CASE ~m.partial /\ ~m.full
    <3>1. m.full = FALSE /\ m.partial = FALSE
      BY <2>2, <2>6
    <3>2. CASE s.scheduled
      <4>1. t = [Taken(s, m) EXCEPT !.pending = m, !.lost = @ \/ Taken(s, m).pending # NoDelta]
        BY <2>1, <2>3, <2>6, <3>2 DEF Throttled
      <4> QED
        BY <1>1, <3>1, <3>2, <4>1, HeldBecomes
    <3>3. CASE ~s.scheduled
      <4>1. s.pending = NoDelta
        BY <3>3 DEF Waits
      <4>2. \/ t = UpdateGraph(Taken(s, m), m)
            \/ t = [Taken(s, m) EXCEPT !.pending = m, !.scheduled = TRUE]
        BY <2>1, <2>3, <2>6, <3>3 DEF Throttled
      <4>3. CASE t = UpdateGraph(Taken(s, m), m)
        BY <1>1, <4>1, <4>3, AppliedBecomes
      <4>4. CASE t = [Taken(s, m) EXCEPT !.pending = m, !.scheduled = TRUE]
        BY <1>1, <3>1, <4>1, <4>4, HeldBecomes
      <4> QED
        BY <4>2, <4>3, <4>4
    <3> QED
      BY <3>2, <3>3
  <2> QED
    BY <2>4, <2>5, <2>6
<1>2. CASE m.kind \in {"counts", "rawMeta", "raw"}
  <2>1. t = [s EXCEPT !.total = m.total] \/ t = [s EXCEPT !.raw = m.picture]
    <3>1. CASE m.kind = "counts"
      BY <3>1 DEF Received
    <3>2. CASE m.kind = "rawMeta"
      BY <3>2 DEF Received
    <3>3. CASE m.kind = "raw"
      BY <3>3 DEF Received
    <3> QED
      BY <1>2, <3>1, <3>2, <3>3
  <2> QED
    BY <1>2, <2>1, OtherBecomes
<1> QED
  BY <1>1, <1>2 DEF Well

\* The timer of the throttle.
LEMMA FiredDraws ==
    ASSUME NEW s, Shaped(s), Waits(s),
           NEW t, t = [(IF s.pending = NoDelta THEN s ELSE UpdateGraph(s, s.pending))
                          EXCEPT !.pending = NoDelta, !.scheduled = FALSE]
    PROVE  Shaped(t) /\ Waits(t) /\ t.conn = s.conn /\ t.pending = NoDelta
           /\ Start(t) = Start(s) /\ Draw(t) = Start(s)
<1> DEFINE u == IF s.pending = NoDelta THEN s ELSE UpdateGraph(s, s.pending)
<1>1. Shaped(u) /\ u.conn = s.conn /\ Draw(u) = Start(s)
  <2>1. CASE s.pending = NoDelta
    BY <2>1 DEF Start
  <2>2. CASE s.pending # NoDelta
    <3>1. s.pending.full \in BOOLEAN /\ s.pending.done \in BOOLEAN
      BY <2>2 DEF Waits
    <3>2. /\ Shaped(UpdateGraph(s, s.pending)) /\ UpdateGraph(s, s.pending).conn = s.conn
          /\ Draw(UpdateGraph(s, s.pending)) = Redraw(Draw(s), s.pending)
      BY <3>1, UpdateDraws
    <3> QED
      BY <2>2, <3>2 DEF Start
  <2> QED
    BY <2>1, <2>2
<1> HIDE DEF u
<1>2. t = [u EXCEPT !.pending = NoDelta, !.scheduled = FALSE]
  BY DEF u
<1>3. /\ DOMAIN t = ScreenFields /\ t.pending = NoDelta
      /\ t.conn = u.conn /\ t.node = u.node /\ t.edge = u.edge /\ t.sync = u.sync
      /\ t.synced = u.synced /\ t.adrift = u.adrift /\ t.lost = u.lost
  BY <1>1, <1>2 DEF Shaped, ScreenFields
<1>4. Shaped(t) /\ Draw(t) = Draw(u)
  BY <1>1, <1>3 DEF Shaped, Draw
<1>5. Start(t) = Draw(t) /\ Waits(t)
  BY <1>3, StartDraws
<1> QED
  BY <1>1, <1>3, <1>4, <1>5

\* A new connection: what is on the screen is no picture of it.
LEMMA ConnectedDraws ==
    ASSUME NEW s, Sound(s), NEW c, NEW t, t = [s EXCEPT !.conn = c, !.synced = FALSE]
    PROVE  Sound(t) /\ t.conn = c /\ Base(Start(t), NoMirror)
<1>1. /\ DOMAIN t = ScreenFields /\ t.pending = s.pending /\ t.scheduled = s.scheduled
      /\ t.conn = c /\ t.node = s.node /\ t.edge = s.edge /\ t.sync = s.sync
      /\ t.synced = FALSE /\ t.adrift = s.adrift /\ t.lost = s.lost
  BY DEF Sound, Shaped, ScreenFields
<1>2. Shaped(t) /\ Waits(t)
  BY <1>1 DEF Sound, Shaped, Waits
<1>3. /\ Draw(t).node = Draw(s).node /\ Draw(t).edge = Draw(s).edge /\ Draw(t).sync = Draw(s).sync
      /\ Draw(t).lost = Draw(s).lost /\ Draw(t).adrift = Draw(s).adrift /\ Draw(t).synced = FALSE
  BY <1>1 DEF Draw
<1>4. Calm(Draw(t))
  BY <1>3 DEF Sound, Calm
<1>5. Calm(Start(t)) /\ Start(t).synced = FALSE
  <2>1. CASE s.pending = NoDelta
    BY <1>1, <1>3, <1>4, <2>1 DEF Start
  <2>2. CASE s.pending # NoDelta
    <3> DEFINE m == s.pending
    <3>1. Start(t) = Redraw(Draw(t), m) /\ Start(s) = Redraw(Draw(s), m) /\ m.full = FALSE
      BY <1>1, <2>2 DEF Sound, Start, Waits
    <3> HIDE DEF m
    <3>2. NodeBy(Draw(t), m) = NodeBy(Draw(s), m) /\ EdgeBy(Draw(t), m) = EdgeBy(Draw(s), m)
      BY <1>3 DEF NodeBy, EdgeBy, Kept, SyncWith, SyncBegun
    <3>3. /\ Start(t).node = Start(s).node /\ Start(t).edge = Start(s).edge
          /\ Start(t).lost = Start(s).lost /\ Start(t).adrift = Start(s).adrift
          /\ Start(t).synced = FALSE
      <4> DEFINE d == Draw(t)
                 e == Draw(s)
      <4>1. d.lost = e.lost /\ d.adrift = e.adrift /\ d.synced = FALSE
        BY <1>3
      <4> HIDE DEF d, e
      <4>2. Start(t) = Redraw(d, m) /\ Start(s) = Redraw(e, m)
        BY <3>1 DEF d, e
      <4>3. Start(t).node = NodeBy(d, m) /\ Start(t).edge = EdgeBy(d, m)
            /\ Start(s).node = NodeBy(e, m) /\ Start(s).edge = EdgeBy(e, m)
        BY <4>2 DEF Redraw
      <4>4. Start(t).lost = Start(s).lost /\ Start(t).adrift = Start(s).adrift
        BY <4>1, <4>2 DEF Redraw
      <4>5. Start(t).synced = (d.synced \/ m.full)
        BY <4>2 DEF Redraw
      <4> QED
        BY <3>1, <3>2, <4>1, <4>3, <4>4, <4>5 DEF d, e
    <3> QED
      BY <3>3 DEF Sound, Calm
  <2> QED
    BY <2>1, <2>2
<1>6. Base(Start(t), NoMirror)
  BY <1>5 DEF Base
<1> QED
  BY <1>1, <1>2, <1>4, <1>5, <1>6 DEF Sound

-----------------------------------------------------------------------------
(* The stream of a connection: the inductive invariant.                    *)

\* A connection whose differences are computed from what its browser has: it is the hub's,
\* or it is about to be.
Member(c) == c \in clients \/ reader[c] = "registering"

\* The messages w in flight to screen s lead to the mirror l, if it is a member's.
Streams(w, s, l, member) ==
    /\ Holds(w, l, member, 0, Start(s))
    /\ Forgets(w, l, member)
    /\ Ordered(w)
    /\ Len(w) # 0 /\ Continues(w[1]) => s.pending = NoDelta

ScreensSound == DOMAIN screen = Browsers /\ \A b \in Browsers : Sound(screen[b])

\* A browser reconnects only when its last connection is gone.
OneOpen ==
    /\ \A c \in Conns : socket[c] = "open" => screen[BrowserOf[c]].conn = c
    /\ \A c \in Conns, d \in Conns :
          BrowserOf[d] = BrowserOf[c] /\ d < c /\ socket[c] # "new" => socket[d] = "closed"

\* Nothing has been sent to a connection the hub has not registered.
Mirrors ==
    \A c \in Conns : /\ IsMirror(last[c])
                     /\ reader[c] \in Unregistered =>
                           send[c] = <<>> /\ last[c] = NoMirror /\ pump[c] = "none"

StreamsHold ==
    \A c \in Conns :
        socket[c] = "open" => Streams(InFlight(c), screen[BrowserOf[c]], last[c], Member(c))

StreamInv == ScreensSound /\ OneOpen /\ Mirrors /\ StreamsHold

\* Every connection is of a browser.
LEMMA BrowsersAre == \A c \in Conns : BrowserOf[c] \in Browsers
  BY HubAssumption

\* What is in flight is the send channel, and behind it what the tick has left to send.
LEMMA FlightIs ==
    ASSUME TypeInv, NEW c \in Conns
    PROVE  /\ Queue(send[c]) /\ Queue(InFlight(c)) /\ Queue(tick.out)
           /\ tick.out = <<>> \/ cur # c => InFlight(c) = send[c]
           /\ cur = c => InFlight(c) = send[c] \o tick.out
<1>1. Queue(send[c]) /\ Queue(tick.out) /\ Queue(<<>>)
  BY QueueEmpty DEF TypeInv, TickTyped, PipesTyped
<1>2. CASE cur = c
  <2>1. InFlight(c) = send[c] \o tick.out
    BY <1>2 DEF InFlight
  <2>2. Queue(InFlight(c))
    BY <1>1, <2>1, QueueJoin
  <2>3. tick.out = <<>> => InFlight(c) = send[c]
    BY <1>1, <2>1, QueueFront
  <2> QED
    BY <1>1, <1>2, <2>1, <2>2, <2>3
<1>3. CASE cur # c
  <2>1. InFlight(c) = send[c] \o <<>>
    BY <1>3 DEF InFlight
  <2>2. InFlight(c) = send[c]
    BY <1>1, <2>1, QueueFront
  <2> QED
    BY <1>1, <1>3, <2>2
<1> QED
  BY <1>2, <1>3

\* What flows to a member flows to any connection.
LEMMA StreamsWeaker ==
    ASSUME NEW w, NEW s, NEW l, NEW a, NEW b, b => a, Streams(w, s, l, a)
    PROVE  Streams(w, s, l, b)
<1>1. ASSUME NEW j, NEW e, Holds(w, l, a, j, e) PROVE Holds(w, l, b, j, e)
  BY <1>1 DEF Holds
<1>2. Forgets(w, l, b)
  BY <1>1 DEF Streams, Forgets
<1>3. Holds(w, l, b, 0, Start(s))
  BY <1>1 DEF Streams
<1> QED
  BY <1>2, <1>3 DEF Streams

\* Initially nothing is drawn and nothing is on its way.
LEMMA StreamInit == Init => StreamInv
<1> SUFFICES ASSUME Init PROVE StreamInv
  OBVIOUS
<1>1. ASSUME NEW b \in Browsers PROVE Sound(screen[b])
  <2>1. screen[b] = Blank
    BY DEF Init
  <2>2. Shaped(Blank) /\ Blank.pending = NoDelta
    BY DEF Blank, Shaped, ScreenFields
  <2>3. Draw(Blank).edge = Nothing
    BY DEF Draw, Blank
  <2>4. Calm(Draw(Blank))
    BY <2>3 DEF Calm, Nothing
  <2>5. Start(Blank) = Draw(Blank) /\ Waits(Blank)
    BY <2>2, StartDraws
  <2> QED
    BY <2>1, <2>2, <2>4, <2>5 DEF Sound
<1>2. ScreensSound
  <2>1. DOMAIN screen = Browsers
    BY DEF Init
  <2> QED
    BY <1>1, <2>1 DEF ScreensSound
<1>3. \A c \in Conns : socket[c] = "new" /\ send[c] = <<>> /\ last[c] = NoMirror /\ pump[c] = "none"
  BY DEF Init
<1>4. OneOpen /\ StreamsHold
  BY <1>3 DEF OneOpen, StreamsHold
<1>5. Mirrors
  BY <1>3, MirrorIs DEF Mirrors
<1> QED
  BY <1>2, <1>4, <1>5 DEF StreamInv

\* A step that takes no message from a queue and adds none.
LEMMA StreamElsewhere ==
    ASSUME StreamInv, UNCHANGED <<send, last, screen>>,
           \A c \in Conns :
              /\ InFlight(c)' = InFlight(c)
              /\ Member(c)' => Member(c)
              /\ socket'[c] = "open" => socket[c] = "open"
              /\ socket[c] = "closed" => socket'[c] = "closed"
              /\ socket'[c] # "new" => socket[c] # "new"
              /\ reader'[c] \in Unregistered => reader[c] \in Unregistered /\ pump'[c] = pump[c]
    PROVE  StreamInv'
<1>1. ScreensSound'
  BY DEF StreamInv, ScreensSound
<1>2. OneOpen'
  BY DEF StreamInv, OneOpen
<1>3. Mirrors'
  BY DEF StreamInv, Mirrors
<1>4. StreamsHold'
  <2> SUFFICES ASSUME NEW c \in Conns, socket'[c] = "open"
               PROVE  Streams(InFlight(c), screen[BrowserOf[c]], last[c], Member(c))'
    BY DEF StreamsHold
  <2>1. Streams(InFlight(c), screen[BrowserOf[c]], last[c], Member(c))
    BY DEF StreamInv, StreamsHold
  <2>2. InFlight(c)' = InFlight(c) /\ (Member(c)' => Member(c)) /\ screen' = screen /\ last' = last
    OBVIOUS
  <2>3. Streams(InFlight(c), screen[BrowserOf[c]], last[c], Member(c)')
    BY <2>1, <2>2, StreamsWeaker
  <2> QED
    BY <2>2, <2>3
<1> QED
  BY <1>1, <1>2, <1>3, <1>4 DEF StreamInv

\* The same, for what the world, the pumps and the hub's select do.
LEMMA StreamWorld ==
    ASSUME StreamInv, TypeInv, Settled, UNCHANGED <<cur, tick>>,
           NEW c \in Conns \cup BOOLEAN,
              \/ GraphChanges \/ SaveOverride \/ MarkResyncAll \/ ResyncAll \/ TickStarts(c) \/ ClearDirty
              \/ UNCHANGED vars
              \/ /\ c \in Conns
                 /\ \/ ApplyControl(c) \/ SocketBreaks(c) \/ ReadFails(c) \/ Register(c)
                    \/ Unregister(c) \/ PumpEnds(c)
    PROVE  StreamInv'
<1>1. UNCHANGED <<send, last, screen>>
  BY DEF GraphChanges, SaveOverride, MarkResyncAll, ResyncAll, TickStarts, ClearDirty, ApplyControl,
         SocketBreaks, ReadFails, Register, Unregister, PumpEnds, pipes, client, vars
<1>2. \A d \in Conns : InFlight(d)' = InFlight(d)
  BY <1>1 DEF InFlight
<1>3. /\ clients \subseteq Conns /\ reader \in [Conns -> {"none", "registering", "reading", "unregistering", "done"}]
      /\ socket \in [Conns -> {"new", "open", "closed"}]
      /\ \A d \in Conns : socket[d] = "new" => reader[d] = "none"
  BY DEF Settled, ChannelInv, ChannelTypes, ConnectsOnce
<1>4. \A d \in Conns : /\ Member(d)' => Member(d)
                       /\ socket'[d] = "open" => socket[d] = "open"
                       /\ socket[d] = "closed" => socket'[d] = "closed"
                       /\ socket'[d] # "new" => socket[d] # "new"
                       /\ reader'[d] \in Unregistered => reader[d] \in Unregistered /\ pump'[d] = pump[d]
  <2>1. CASE UNCHANGED <<clients, pumps>>
    BY <2>1 DEF Member, pumps
  <2>2. CASE c \in Conns /\ SocketBreaks(c)
    BY <1>3, <2>2 DEF SocketBreaks, Member, hub
  <2>3. CASE c \in Conns /\ ReadFails(c)
    BY <1>3, <2>3 DEF ReadFails, Member, hub, Unregistered
  <2>4. CASE c \in Conns /\ Register(c)
    <3>1. pump \in [Conns -> {"none", "pumping", "done"}]
      BY DEF TypeInv, PipesTyped
    <3> QED
      BY <1>3, <2>4, <3>1 DEF Register, Member, Unregistered
  <2>5. CASE c \in Conns /\ Unregister(c)
    BY <1>3, <2>5 DEF Unregister, Member, Unregistered
  <2>6. CASE c \in Conns /\ PumpEnds(c)
    <3>1. /\ c \in Conns /\ pump[c] = "pumping" /\ socket' = [socket EXCEPT ![c] = "closed"]
          /\ pump' = [pump EXCEPT ![c] = "done"] /\ UNCHANGED <<clients, reader>>
      BY <2>6 DEF PumpEnds, hub
    <3>2. reader[c] \notin Unregistered /\ pump \in [Conns -> {"none", "pumping", "done"}]
      BY <3>1 DEF StreamInv, Mirrors, TypeInv, PipesTyped
    <3>3. socket[c] # "new"
      BY <1>3, <3>1, <3>2 DEF Unregistered
    <3> QED
      BY <1>3, <3>1, <3>2, <3>3 DEF Member
  <2> QED
    BY <2>1, <2>2, <2>3, <2>4, <2>5, <2>6
       DEF GraphChanges, SaveOverride, MarkResyncAll, ResyncAll, TickStarts, ClearDirty, ApplyControl,
           hub, pumps, vars
<1> QED
  BY <1>1, <1>2, <1>4, StreamElsewhere

\* What a tick does before it has messages for the client.
LEMMA StreamTick ==
    ASSUME StreamInv, TypeInv, Settled,
           NEW c \in Conns, DrainFlows \/ ConsumeNeedsFull(c) \/ ReadMode
    PROVE  StreamInv'
<1>1. UNCHANGED <<send, last, screen, clients, pumps>>
  BY DEF DrainFlows, ConsumeNeedsFull, ReadMode, pipes, client
<1>2. tick.out = <<>> /\ tick'.out = <<>>
  <2>1. tick.out = <<>>
    BY DEF DrainFlows, ConsumeNeedsFull, ReadMode, TypeInv, TickTyped
  <2>2. DOMAIN tick = {"flows", "snapshot", "full", "raw", "timeline", "out"}
    BY SettledTypes DEF TickShape
  <2> QED
    BY <2>1, <2>2 DEF DrainFlows, ConsumeNeedsFull, ReadMode, NoTick
<1>3. \A d \in Conns : InFlight(d)' = InFlight(d)
  <2> SUFFICES ASSUME NEW d \in Conns PROVE InFlight(d)' = InFlight(d)
    OBVIOUS
  <2>1. InFlight(d) = send[d] /\ Queue(send[d])
    BY <1>2, FlightIs
  <2>2. InFlight(d)' = send[d] \o <<>>
    BY <1>1, <1>2 DEF InFlight
  <2> QED
    BY <2>1, <2>2, QueueFront
<1>4. \A d \in Conns : /\ Member(d)' => Member(d)
                       /\ socket'[d] = "open" => socket[d] = "open"
                       /\ socket[d] = "closed" => socket'[d] = "closed"
                       /\ socket'[d] # "new" => socket[d] # "new"
                       /\ reader'[d] \in Unregistered => reader[d] \in Unregistered /\ pump'[d] = pump[d]
  BY <1>1 DEF Member, pumps
<1> QED
  BY <1>1, <1>3, <1>4, StreamElsewhere

\* A browser connects: nothing is on its way, and nothing has been.
LEMMA StreamConnect ==
    ASSUME StreamInv, TypeInv, Settled, NEW c \in Conns, Connect(c)
    PROVE  StreamInv'
<1> DEFINE b == BrowserOf[c]
           s == screen[b]
           t == [s EXCEPT !.conn = c, !.synced = FALSE]
<1>1. /\ socket[c] = "new" /\ socket' = [socket EXCEPT ![c] = "open"]
      /\ \A d \in Conns : d < c /\ BrowserOf[d] = BrowserOf[c] => socket[d] = "closed"
      /\ reader' = [reader EXCEPT ![c] = "registering"]
      /\ UNCHANGED <<world, hub, client, pipes, pump>>
  BY DEF Connect
<1>2. b \in Browsers /\ DOMAIN screen = Browsers /\ Sound(s)
  BY BrowsersAre DEF StreamInv, ScreensSound
<1>3. screen' = [screen EXCEPT ![b] = t]
  <2>1. screen' = [screen EXCEPT ![b].conn = c, ![b].synced = FALSE]
    BY DEF Connect
  <2> QED
    BY <1>2, <2>1
<1>4. Sound(t) /\ t.conn = c /\ Base(Start(t), NoMirror)
  BY <1>2, ConnectedDraws
<1> HIDE DEF t
<1>5. screen'[b] = t /\ \A x \in Browsers : x # b => screen'[x] = screen[x]
  BY <1>2, <1>3
<1>6. /\ clients \subseteq Conns /\ reader \in [Conns -> {"none", "registering", "reading", "unregistering", "done"}]
      /\ socket \in [Conns -> {"new", "open", "closed"}]
      /\ reader[c] = "none" /\ Conns \subseteq Nat
  BY <1>1, ZeroIsNone DEF Settled, ChannelInv, ChannelTypes, ConnectsOnce
<1>7. \A d \in Conns : d # c /\ BrowserOf[d] = b => socket[d] # "open"
  <2> SUFFICES ASSUME NEW d \in Conns, d # c, BrowserOf[d] = b PROVE socket[d] # "open"
    OBVIOUS
  <2>1. d < c \/ c < d
    BY <1>6
  <2>2. c < d /\ socket[d] # "new" => socket[c] = "closed"
    BY DEF StreamInv, OneOpen
  <2> QED
    BY <1>1, <2>1, <2>2
<1>8. ScreensSound'
  <2>1. DOMAIN screen' = Browsers
    BY <1>2, <1>3
  <2>2. \A x \in Browsers : Sound(screen'[x])
    BY <1>4, <1>5 DEF StreamInv, ScreensSound
  <2> QED
    BY <2>1, <2>2 DEF ScreensSound
<1>9. OneOpen'
  <2>1. \A d \in Conns : socket'[d] = "open" => screen'[BrowserOf[d]].conn = d
    <3> SUFFICES ASSUME NEW d \in Conns, socket'[d] = "open" PROVE screen'[BrowserOf[d]].conn = d
      OBVIOUS
    <3>1. CASE d = c
      BY <1>4, <1>5, <3>1
    <3>2. CASE d # c
      <4>1. socket[d] = "open" /\ BrowserOf[d] # b /\ BrowserOf[d] \in Browsers
        BY <1>1, <1>6, <1>7, <3>2, BrowsersAre
      <4> QED
        BY <1>5, <4>1 DEF StreamInv, OneOpen
    <3> QED
      BY <3>1, <3>2
  <2>2. \A d \in Conns, e \in Conns :
            BrowserOf[e] = BrowserOf[d] /\ e < d /\ socket'[d] # "new" => socket'[e] = "closed"
    <3> SUFFICES ASSUME NEW d \in Conns, NEW e \in Conns,
                        BrowserOf[e] = BrowserOf[d], e < d, socket'[d] # "new"
                 PROVE  socket'[e] = "closed"
      OBVIOUS
    <3>1. socket[e] = "closed"
      <4>1. CASE d = c
        BY <1>1, <4>1
      <4>2. CASE d # c
        BY <1>1, <1>6, <4>2 DEF StreamInv, OneOpen
      <4> QED
        BY <4>1, <4>2
    <3>2. e # c
      BY <1>1, <3>1
    <3> QED
      BY <1>1, <1>6, <3>1, <3>2
  <2> QED
    BY <2>1, <2>2 DEF OneOpen
<1>10. Mirrors'
  <2>1. UNCHANGED <<send, last, pump>>
    BY <1>1 DEF pipes, client
  <2>2. \A d \in Conns : reader'[d] \in Unregistered => reader[d] \in Unregistered
    BY <1>1, <1>6 DEF Unregistered
  <2> QED
    BY <2>1, <2>2 DEF StreamInv, Mirrors
<1>11. StreamsHold'
  <2> SUFFICES ASSUME NEW d \in Conns, socket'[d] = "open"
               PROVE  Streams(InFlight(d), screen[BrowserOf[d]], last[d], Member(d))'
    BY DEF StreamsHold
  <2>1. InFlight(d)' = InFlight(d) /\ last'[d] = last[d]
    BY <1>1 DEF InFlight, hub, pipes, client
  <2>2. CASE d = c
    <3>1. send[c] = <<>> /\ last[c] = NoMirror
      BY <1>6 DEF StreamInv, Mirrors, Unregistered
    <3>2. cur # c \/ tick.out = <<>>
      <4>1. TickServesMembers /\ MembersAreOpen /\ TickTyped
        BY SettledTypes DEF TypeInv
      <4>2. c \notin clients
        BY <1>6, <4>1 DEF MembersAreOpen, Unregistered
      <4> QED
        BY <4>1, <4>2 DEF TickServesMembers, TickTyped
    <3>3. InFlight(c) = <<>>
      BY <3>1, <3>2, FlightIs
    <3>4. IsDrawing(Start(t)) /\ Calm(Start(t))
      BY <1>4, StartIs DEF Sound
    <3>5. \A m : Holds(<<>>, NoMirror, m, 0, Start(t))
      BY <1>4, <3>4, HoldsEmpty
    <3>6. \A m : Forgets(<<>>, NoMirror, m)
      <4> SUFFICES ASSUME NEW m, NEW j \in 0 .. Len(<<>>), NEW e, IsDrawing(e), e.lost
                   PROVE  Holds(<<>>, NoMirror, m, j, e)
        BY DEF Forgets
      <4>1. j = 0
        OBVIOUS
      <4>2. Calm(e) /\ Base(e, NoMirror)
        BY LostIsCalm
      <4>3. Holds(<<>>, NoMirror, m, 0, e)
        BY <4>2, HoldsEmpty
      <4> QED
        BY <4>1, <4>3
    <3>7. Ordered(<<>>) /\ Len(<<>>) = 0
      BY OpeningEmpty DEF Opening
    <3>8. \A m : Streams(<<>>, t, NoMirror, m)
      BY <3>5, <3>6, <3>7 DEF Streams
    <3> QED
      BY <1>5, <2>1, <2>2, <3>1, <3>3, <3>8
  <2>3. CASE d # c
    <3>1. socket[d] = "open" /\ BrowserOf[d] # b /\ BrowserOf[d] \in Browsers
      BY <1>1, <1>6, <1>7, <2>3, BrowsersAre
    <3>2. Streams(InFlight(d), screen[BrowserOf[d]], last[d], Member(d))
      BY <3>1 DEF StreamInv, StreamsHold
    <3>3. Member(d)' => Member(d)
      BY <1>1, <1>6, <2>3 DEF Member, hub
    <3>4. screen'[BrowserOf[d]] = screen[BrowserOf[d]]
      BY <1>5, <3>1
    <3>5. Streams(InFlight(d), screen[BrowserOf[d]], last[d], Member(d)')
      BY <3>2, <3>3, StreamsWeaker
    <3> QED
      BY <2>1, <3>4, <3>5
  <2> QED
    BY <2>2, <2>3
<1> QED
  BY <1>8, <1>9, <1>10, <1>11 DEF StreamInv

\* The timer draws what waits, as the stream takes it to be drawn already.
LEMMA StreamTimer ==
    ASSUME StreamInv, NEW b \in Browsers, TimerFires(b)
    PROVE  StreamInv'
<1> DEFINE s == screen[b]
           t == [(IF s.pending = NoDelta THEN s ELSE UpdateGraph(s, s.pending))
                    EXCEPT !.pending = NoDelta, !.scheduled = FALSE]
<1>1. screen' = [screen EXCEPT ![b] = t] /\ UNCHANGED <<world, hub, client, pipes, pumps>>
  BY DEF TimerFires
<1>2. DOMAIN screen = Browsers /\ Sound(s)
  BY DEF StreamInv, ScreensSound
<1>3. Shaped(t) /\ Waits(t) /\ t.conn = s.conn /\ t.pending = NoDelta
      /\ Start(t) = Start(s) /\ Draw(t) = Start(s)
  BY <1>2, FiredDraws DEF Sound
<1> HIDE DEF t
<1>4. screen'[b] = t /\ \A x \in Browsers : x # b => screen'[x] = screen[x]
  BY <1>1, <1>2
<1>5. Sound(t)
  BY <1>2, <1>3 DEF Sound
<1>6. ScreensSound'
  <2>1. DOMAIN screen' = Browsers
    BY <1>1, <1>2
  <2>2. \A x \in Browsers : Sound(screen'[x])
    BY <1>4, <1>5 DEF StreamInv, ScreensSound
  <2> QED
    BY <2>1, <2>2 DEF ScreensSound
<1>7. UNCHANGED <<socket, reader, pump, send, last, clients, cur, tick>>
  BY <1>1 DEF hub, client, pipes, pumps
<1>8. \A x \in Browsers : screen'[x].conn = screen[x].conn
  BY <1>3, <1>4
<1>9. OneOpen'
  BY <1>7, <1>8, BrowsersAre DEF StreamInv, OneOpen
<1>10. Mirrors'
  BY <1>7 DEF StreamInv, Mirrors
<1>11. StreamsHold'
  <2> SUFFICES ASSUME NEW d \in Conns, socket'[d] = "open"
               PROVE  Streams(InFlight(d), screen[BrowserOf[d]], last[d], Member(d))'
    BY DEF StreamsHold
  <2> DEFINE x == BrowserOf[d]
  <2>1. InFlight(d)' = InFlight(d) /\ last'[d] = last[d] /\ Member(d)' = Member(d)
    BY <1>7 DEF InFlight, Member
  <2>2. Streams(InFlight(d), screen[x], last[d], Member(d)) /\ x \in Browsers
    BY <1>7, BrowsersAre DEF StreamInv, StreamsHold
  <2>3. Start(screen'[x]) = Start(screen[x]) /\ (screen[x].pending = NoDelta => screen'[x].pending = NoDelta)
    BY <1>3, <1>4, <2>2
  <2>4. Streams(InFlight(d), screen'[x], last[d], Member(d))
    BY <2>2, <2>3 DEF Streams
  <2> QED
    BY <2>1, <2>4
<1> QED
  BY <1>6, <1>9, <1>10, <1>11 DEF StreamInv

\* Where Onward leads, the messages are behind the current client's channel, and nowhere else.
LEMMA OnwardFlight ==
    ASSUME NEW out, NEW snapshot, Onward(out, snapshot), TypeInv, Settled, hpc \in {"build", "send"}
    PROVE  /\ cur \in Conns /\ cur \in clients /\ Member(cur) /\ reader[cur] \notin Unregistered
           /\ \A d \in Conns : d = cur => InFlight(d)' = send'[d] \o out
           /\ \A d \in Conns : d # cur => InFlight(d)' = send'[d] \o <<>>
<1>1. /\ cur \in Conns /\ cur \in clients /\ reader[cur] \notin Unregistered
      /\ DOMAIN tick = {"flows", "snapshot", "full", "raw", "timeline", "out"}
  <2>1. TickServesMembers /\ MembersAreOpen /\ TickTyped /\ TickShape
    BY SettledTypes DEF TypeInv
  <2> QED
    BY <2>1 DEF TickServesMembers, MembersAreOpen, TickTyped, TickShape
<1>2. CASE out # <<>>
  <2>1. tick' = [tick EXCEPT !.out = out, !.snapshot = snapshot] /\ cur' = cur
    BY <1>2 DEF Onward
  <2>2. tick'.out = out
    BY <1>1, <2>1
  <2> QED
    BY <1>1, <2>1, <2>2 DEF InFlight, Member
<1>3. CASE out = <<>>
  <2>1. cur' = 0
    BY <1>3 DEF Onward
  <2>2. \A d \in Conns : cur' # d
    BY <2>1, ZeroIsNone
  <2> QED
    BY <1>1, <1>3, <2>2 DEF InFlight, Member
<1> QED
  BY <1>2, <1>3

\* A step of the tick that builds messages, from the mirror of the client to l2.
LEMMA StreamBuild ==
    ASSUME StreamInv, TypeInv, Settled, hpc = "build",
           NEW out, NEW snapshot, NEW l2, Onward(out, snapshot), Queue(out), Opening(out),
           Leads(out, last[cur], l2), Forgets(out, l2, TRUE), IsMirror(l2),
           UNCHANGED <<send, screen, clients, pumps>>,
           \A c \in Conns : last'[c] = IF c = cur THEN l2 ELSE last[c]
    PROVE  StreamInv'
<1>1. UNCHANGED <<reader, pump, socket>>
  BY DEF pumps
<1>2. /\ cur \in Conns /\ cur \in clients /\ Member(cur) /\ reader[cur] \notin Unregistered
      /\ \A d \in Conns : d = cur => InFlight(d)' = send'[d] \o out
      /\ \A d \in Conns : d # cur => InFlight(d)' = send'[d] \o <<>>
  BY OnwardFlight
<1>3. tick.out = <<>>
  BY DEF TypeInv, TickTyped
<1>4. ScreensSound' /\ OneOpen'
  BY <1>1 DEF StreamInv, ScreensSound, OneOpen
<1>5. Mirrors'
  BY <1>1, <1>2 DEF StreamInv, Mirrors
<1>6. StreamsHold'
  <2> SUFFICES ASSUME NEW d \in Conns, socket'[d] = "open"
               PROVE  Streams(InFlight(d), screen[BrowserOf[d]], last[d], Member(d))'
    BY DEF StreamsHold
  <2>1. /\ Streams(InFlight(d), screen[BrowserOf[d]], last[d], Member(d))
        /\ InFlight(d) = send[d] /\ Queue(send[d]) /\ Member(d)' = Member(d)
    BY <1>1, <1>3, FlightIs DEF StreamInv, StreamsHold, Member
  <2>2. CASE d = cur
    <3> DEFINE s == screen[BrowserOf[d]]
               v == send[d]
    <3>1. Streams(v, s, last[cur], TRUE)
      <4>1. Streams(v, s, last[cur], Member(cur))
        BY <2>1, <2>2
      <4> QED
        BY <1>2, <4>1, StreamsWeaker
    <3>2. /\ Holds(v, last[cur], TRUE, 0, Start(s)) /\ Forgets(v, last[cur], TRUE) /\ Ordered(v)
          /\ Len(v) # 0 /\ Continues(v[1]) => s.pending = NoDelta
      BY <3>1 DEF Streams
    <3>3. Queue(v) /\ 0 \in 0 .. Len(v)
      BY <2>1, QueueJoin
    <3> HIDE DEF v, s
    <3>4. Holds(v \o out, l2, TRUE, 0, Start(s))
      BY <3>2, <3>3, HoldsJoin
    <3>5. Forgets(v \o out, l2, TRUE)
      BY <3>2, <3>3, ForgetsJoin
    <3>6. /\ Ordered(v \o out)
          /\ Len(v \o out) # 0 /\ Continues((v \o out)[1]) => Len(v) # 0 /\ (v \o out)[1] = v[1]
      BY <3>2, <3>3, OrderedJoin
    <3>7. Streams(v \o out, s, l2, TRUE)
      BY <3>2, <3>4, <3>5, <3>6 DEF Streams
    <3>8. Streams(v \o out, s, l2, Member(d)')
      BY <3>7, StreamsWeaker
    <3>9. InFlight(d)' = v \o out /\ screen'[BrowserOf[d]] = s /\ last'[d] = l2
      BY <1>2, <2>2 DEF v, s
    <3> QED
      BY <3>8, <3>9
  <2>3. CASE d # cur
    <3>1. InFlight(d)' = send[d] \o <<>>
      BY <1>2, <2>3
    <3>2. InFlight(d)' = InFlight(d) /\ last'[d] = last[d] /\ screen' = screen
      BY <2>1, <2>3, <3>1, QueueFront
    <3> QED
      BY <2>1, <3>2
  <2> QED
    BY <2>2, <2>3
<1> QED
  BY <1>4, <1>5, <1>6 DEF StreamInv

\* A raw tick changes no mirror.
LEMMA StreamRaw ==
    ASSUME StreamInv, TypeInv, Settled, NEW due, BuildRaw(due)
    PROVE  StreamInv'
<1>1. hpc = "build" /\ UNCHANGED <<send, screen, clients, pumps, last>>
  BY DEF BuildRaw, pipes
<1>2. PICK out, snapshot :
         /\ Queue(out) /\ Len(out) \in 0 .. 2 /\ \A k \in 1 .. Len(out) : out[k].kind # "delta"
         /\ Onward(out, snapshot)
  BY RawIs
<1>3. Leads(out, last[cur], last[cur]) /\ Forgets(out, last[cur], TRUE)
  BY <1>2, OthersLead
<1>4. Opening(out)
  BY <1>2, OpeningFew DEF Continues
<1>5. cur \in Conns
  BY <1>1, <1>2, OnwardFlight
<1>6. IsMirror(last[cur])
  BY <1>5 DEF StreamInv, Mirrors
<1>7. \A c \in Conns : last'[c] = IF c = cur THEN last[cur] ELSE last[c]
  BY <1>1
<1> QED
  BY <1>1, <1>2, <1>3, <1>4, <1>6, <1>7, StreamBuild

\* A styled tick leads to the new one.
LEMMA StreamStyled ==
    ASSUME StreamInv, TypeInv, Settled, NEW due, BuildStyled(due)
    PROVE  StreamInv'
<1>1. hpc = "build" /\ UNCHANGED <<send, screen, clients, pumps>>
  BY DEF BuildStyled, pipes
<1>2. PICK p, out, snapshot :
         /\ Drawable(p) /\ IsAnswer(out, last[cur], p, tick.full)
         /\ last' = [last EXCEPT ![cur] = Content(p)]
         /\ Onward(out, snapshot) /\ snapshot \in Graphs \cup {None}
  BY StyledIs
<1>3. cur \in Conns
  BY <1>1, <1>2, OnwardFlight
<1>4. IsMirror(last[cur]) /\ IsMirror(Content(p)) /\ tick.full \in BOOLEAN /\ DOMAIN last = Conns
  BY <1>2, <1>3, MirrorIs, SettledTypes DEF StreamInv, Mirrors, TypeInv, TickTyped, ClientShape
<1>5. Queue(out) /\ Opening(out)
  BY <1>2, <1>4, AnswerQueued, AnswerOpens
<1>6. Leads(out, last[cur], Content(p)) /\ Forgets(out, Content(p), TRUE)
  BY <1>2, <1>4, AnswerLeads
<1> DEFINE l2 == Content(p)
<1>7. \A c \in Conns : last'[c] = IF c = cur THEN l2 ELSE last[c]
  BY <1>2, <1>4
<1> HIDE DEF l2
<1>8. IsMirror(l2) /\ Leads(out, last[cur], l2) /\ Forgets(out, l2, TRUE)
  BY <1>4, <1>6 DEF l2
<1> QED
  BY <1>1, <1>2, <1>5, <1>7, <1>8, StreamBuild

\* trySend: what is in flight stays as it is, or its end is lost with the client.
LEMMA StreamSend ==
    ASSUME StreamInv, TypeInv, Settled, TrySend
    PROVE  StreamInv'
<1>0. hpc = "send" /\ UNCHANGED <<screen, last, reader, pump, socket>>
  BY DEF TrySend, client, pumps
<1>1. PICK out : /\ Onward(out, tick.snapshot)
                 /\ \/ /\ send' = [send EXCEPT ![cur] = Append(@, Head(tick.out))]
                       /\ out = Tail(tick.out) /\ clients' = clients
                    \/ send' = send /\ out = <<>> /\ clients' = clients \ {cur}
  BY DEF TrySend
<1>2. /\ cur \in Conns /\ cur \in clients /\ reader[cur] \notin Unregistered
      /\ \A d \in Conns : d = cur => InFlight(d)' = send'[d] \o out
      /\ \A d \in Conns : d # cur => InFlight(d)' = send'[d] \o <<>>
  BY <1>0, <1>1, OnwardFlight
<1>3. DOMAIN send = Conns /\ tick.out # <<>>
  BY <1>0 DEF TypeInv, PipesTyped, TickTyped
<1>4. \A d \in Conns : d # cur => send'[d] = send[d]
  BY <1>1, <1>3
<1>5. ScreensSound' /\ OneOpen'
  BY <1>0 DEF StreamInv, ScreensSound, OneOpen
<1>6. Mirrors'
  BY <1>0, <1>2, <1>4 DEF StreamInv, Mirrors
<1>7. StreamsHold'
  <2> SUFFICES ASSUME NEW d \in Conns, socket'[d] = "open"
               PROVE  Streams(InFlight(d), screen[BrowserOf[d]], last[d], Member(d))'
    BY DEF StreamsHold
  <2> DEFINE s == screen[BrowserOf[d]]
             l == last[d]
  <2>1. /\ Streams(InFlight(d), s, l, Member(d)) /\ Queue(send[d]) /\ Queue(tick.out)
        /\ d = cur => InFlight(d) = send[d] \o tick.out
        /\ d # cur => InFlight(d) = send[d]
        /\ (Member(d)' => Member(d)) /\ screen' = screen /\ last' = last
    BY <1>0, <1>1, FlightIs DEF StreamInv, StreamsHold, Member
  <2>2. CASE d # cur
    <3>1. InFlight(d)' = InFlight(d)
      BY <1>2, <1>4, <2>1, <2>2, QueueFront
    <3>2. Streams(InFlight(d), s, l, Member(d)')
      BY <2>1, StreamsWeaker
    <3> QED
      BY <2>1, <3>1, <3>2
  <2>3. CASE d = cur /\ send' = [send EXCEPT ![cur] = Append(@, Head(tick.out))] /\ out = Tail(tick.out)
    <3>1. send'[d] = Append(send[d], Head(tick.out))
      BY <1>2, <1>3, <2>3
    <3>2. Append(send[d], Head(tick.out)) \o Tail(tick.out) = send[d] \o tick.out
      BY <1>3, <2>1, QueueMoves
    <3>3. InFlight(d)' = InFlight(d)
      BY <1>2, <2>1, <2>3, <3>1, <3>2
    <3>4. Streams(InFlight(d), s, l, Member(d)')
      BY <2>1, StreamsWeaker
    <3> QED
      BY <2>1, <3>3, <3>4
  <2>4. CASE d = cur /\ send' = send /\ out = <<>> /\ clients' = clients \ {cur}
    <3> DEFINE v == send[d]
               u == tick.out
    <3>1. InFlight(d)' = v
      BY <1>2, <2>1, <2>4, QueueFront
    <3>2. Member(d)' => FALSE
      BY <1>0, <1>2, <2>4 DEF Member, Unregistered
    <3>3. Streams(v \o u, s, l, Member(d)) /\ Queue(v) /\ Queue(u)
      BY <2>1, <2>4
    <3> HIDE DEF v, u, s, l
    <3>4. /\ Holds(v \o u, l, Member(d), 0, Start(s)) /\ Forgets(v \o u, l, Member(d)) /\ Ordered(v \o u)
          /\ Len(v \o u) # 0 /\ Continues((v \o u)[1]) => s.pending = NoDelta
      BY <3>3 DEF Streams
    <3>5. 0 \in 0 .. Len(v) /\ (Len(v) # 0 => Len(v \o u) # 0)
      BY <3>3, QueueJoin
    <3>6. Holds(v, l, FALSE, 0, Start(s)) /\ Forgets(v, l, FALSE)
      BY <3>3, <3>4, <3>5, HoldsPrefix, ForgetsPrefix
    <3>7. Ordered(v) /\ (Len(v) # 0 => (v \o u)[1] = v[1])
      BY <3>3, <3>4, OrderedFront
    <3>8. Streams(v, s, l, FALSE)
      BY <3>4, <3>5, <3>6, <3>7 DEF Streams
    <3>9. Streams(v, s, l, Member(d)')
      BY <3>2, <3>8, StreamsWeaker
    <3> QED
      BY <2>1, <3>1, <3>9 DEF s, l
  <2> QED
    BY <1>1, <2>2, <2>3, <2>4
<1> QED
  BY <1>5, <1>6, <1>7 DEF StreamInv

\* The first message of two queues in a row.
LEMMA QueueBehead ==
    ASSUME NEW v, NEW u, Queue(v), Queue(u), v # <<>>
    PROVE  v \o u # <<>> /\ Head(v \o u) = Head(v) /\ Tail(v \o u) = Tail(v) \o u
<1>1. PICK S : v \in Seq(S)
  BY DEF Queue
<1>2. PICK T : u \in Seq(T)
  BY DEF Queue
<1> DEFINE U == S \cup T
<1>3. v \in Seq(U) /\ u \in Seq(U)
  BY <1>1, <1>2
<1> HIDE DEF U
<1> QED
  BY <1>3

\* The browser takes the first of the messages in flight.
LEMMA StreamTake ==
    ASSUME NEW w, Queue(w), w # <<>>, NEW s, Sound(s), NEW l, NEW member, Streams(w, s, l, member),
           NEW t, Becomes(s, Head(w), t)
    PROVE  Streams(Tail(w), t, l, member) /\ Sound(t)
<1> DEFINE m == Head(w)
<1>1. /\ Queue(Tail(w)) /\ Well(m) /\ w[1] = m /\ Len(w) \in Nat /\ Len(w) # 0
  BY QueueTail
<1>2. /\ Holds(w, l, member, 0, Start(s)) /\ Forgets(w, l, member) /\ Ordered(w)
  BY DEF Streams
<1>3. /\ Shaped(t) /\ Waits(t)
      /\ \/ Start(t) = Turn(Start(s), m)
         \/ Start(t) = Turn(Shaken(s), m) /\ ~Continues(m)
      /\ Draw(t) = Start(t) \/ (Calm(Draw(s)) => Calm(Draw(t)))
      /\ Unfinished(m) => t.pending = NoDelta
  BY DEF Becomes
<1>4. Holds(Tail(w), l, member, 0, Start(t))
  <2>1. CASE Start(t) = Turn(Start(s), m)
    BY <1>2, <2>1, HoldsTurn
  <2>2. CASE Start(t) = Turn(Shaken(s), m) /\ ~Continues(m)
    <3>1. IsDrawing(Shaken(s)) /\ Shaken(s).lost
      BY ShakenIs DEF Sound
    <3>2. Fresh(w, 0)
      <4>1. 0 + 1 = 1
        OBVIOUS
      <4> QED
        BY <1>1, <2>2, <4>1 DEF Fresh, Continues
    <3>3. 0 \in 0 .. Len(w)
      BY <1>1
    <3>4. Holds(w, l, member, 0, Shaken(s))
      BY <1>2, <3>1, <3>2, <3>3 DEF Forgets
    <3> QED
      BY <2>2, <3>4, HoldsTurn
  <2> QED
    BY <1>3, <2>1, <2>2
<1>5. Forgets(Tail(w), l, member)
  BY <1>2, ForgetsPop
<1>6. Ordered(Tail(w)) /\ (Len(Tail(w)) # 0 /\ Continues(Tail(w)[1]) => t.pending = NoDelta)
  BY <1>2, <1>3, OrderedTail
<1>7. Streams(Tail(w), t, l, member)
  BY <1>4, <1>5, <1>6 DEF Streams
<1>8. Calm(Start(t))
  BY <1>1, <1>4, HoldsHere
<1> QED
  BY <1>3, <1>7, <1>8 DEF Sound

\* A message reaches the browser.
LEMMA StreamWrite ==
    ASSUME StreamInv, TypeInv, Settled, NEW c \in Conns, WriteMessage(c)
    PROVE  StreamInv'
<1> DEFINE b == BrowserOf[c]
           s == screen[b]
           w == InFlight(c)
           m == Head(send[c])
<1>1. /\ socket[c] = "open" /\ send[c] # <<>> /\ send' = [send EXCEPT ![c] = Tail(@)]
      /\ UNCHANGED <<world, hub, client, closed, panicked, pumps>>
  BY DEF WriteMessage
<1>2. PICK t \in Received(s, m) : screen' = [screen EXCEPT ![b] = t]
  BY DEF WriteMessage
<1>3. UNCHANGED <<cur, tick, clients, last, reader, pump, socket>>
  BY <1>1 DEF hub, client, pumps
<1>4. DOMAIN screen = Browsers /\ b \in Browsers /\ Sound(s) /\ DOMAIN send = Conns
  BY BrowsersAre DEF StreamInv, ScreensSound, TypeInv, PipesTyped
<1>5. /\ screen'[b] = t /\ DOMAIN screen' = Browsers
      /\ \A x \in Browsers : x # b => screen'[x] = screen[x]
  BY <1>2, <1>4
<1>6. /\ Queue(w) /\ w # <<>> /\ Head(w) = m /\ InFlight(c)' = Tail(w)
  <2>1. /\ Queue(send[c]) /\ Queue(tick.out) /\ Queue(w)
        /\ cur = c => w = send[c] \o tick.out
        /\ cur # c => w = send[c]
    BY FlightIs
  <2>2. send'[c] = Tail(send[c])
    BY <1>1, <1>4
  <2>3. CASE cur = c
    <3>1. InFlight(c)' = Tail(send[c]) \o tick.out
      BY <1>3, <2>2, <2>3 DEF InFlight
    <3> HIDE DEF w
    <3> QED
      BY <1>1, <2>1, <2>3, <3>1, QueueBehead
  <2>4. CASE cur # c
    <3>1. InFlight(c)' = Tail(send[c]) \o <<>>
      BY <1>3, <2>2, <2>4 DEF InFlight
    <3>2. Queue(Tail(send[c]))
      BY <1>1, <2>1, QueueTail
    <3> HIDE DEF w
    <3> QED
      BY <1>1, <2>1, <2>4, <3>1, <3>2, QueueFront
  <2> QED
    BY <2>3, <2>4
<1>7. \A d \in Conns : d # c => InFlight(d)' = InFlight(d)
  <2>1. \A d \in Conns : d # c => send'[d] = send[d]
    BY <1>1, <1>4
  <2> QED
    BY <1>3, <2>1 DEF InFlight
<1>8. Streams(w, s, last[c], Member(c))
  BY <1>1 DEF StreamInv, StreamsHold
<1> HIDE DEF w
<1>9. Becomes(s, m, t)
  <2>1. Well(m) /\ w[1] = m /\ Len(w) # 0
    BY <1>6, QueueTail
  <2>2. Continues(m) => s.pending = NoDelta
    BY <1>8, <2>1 DEF Streams
  <2>3. Shaped(s) /\ Waits(s)
    BY <1>4 DEF Sound
  <2> HIDE DEF m, s
  <2> QED
    BY <1>2, <2>1, <2>2, <2>3, ReceivedBecomes
<1>10. Streams(Tail(w), t, last[c], Member(c)) /\ Sound(t) /\ t.conn = s.conn
  <2>1. t.conn = s.conn
    BY <1>9 DEF Becomes
  <2> HIDE DEF m, s
  <2>2. Streams(Tail(w), t, last[c], Member(c)) /\ Sound(t)
    BY <1>4, <1>6, <1>8, <1>9, StreamTake
  <2> QED
    BY <2>1, <2>2
<1>11. ScreensSound'
  <2>1. \A x \in Browsers : Sound(screen'[x])
    BY <1>5, <1>10 DEF StreamInv, ScreensSound
  <2> QED
    BY <1>5, <2>1 DEF ScreensSound
<1>12. OneOpen'
  <2>1. \A x \in Browsers : screen'[x].conn = screen[x].conn
    BY <1>5, <1>10
  <2> QED
    BY <1>3, <2>1, BrowsersAre DEF StreamInv, OneOpen
<1>13. Mirrors'
  <2>1. \A d \in Conns : send[d] = <<>> => send'[d] = <<>>
    BY <1>1, <1>4
  <2> QED
    BY <1>3, <2>1 DEF StreamInv, Mirrors
<1>14. StreamsHold'
  <2> SUFFICES ASSUME NEW d \in Conns, socket'[d] = "open"
               PROVE  Streams(InFlight(d), screen[BrowserOf[d]], last[d], Member(d))'
    BY DEF StreamsHold
  <2>1. Member(d)' = Member(d) /\ last' = last
    BY <1>3 DEF Member
  <2>2. CASE d = c
    BY <1>5, <1>6, <1>10, <2>1, <2>2
  <2>3. CASE d # c
    <3>1. socket[d] = "open" /\ screen[BrowserOf[d]].conn = d /\ s.conn = c /\ BrowserOf[d] \in Browsers
      BY <1>1, <1>3, BrowsersAre DEF StreamInv, OneOpen
    <3>2. BrowserOf[d] # b
      BY <2>3, <3>1
    <3>3. screen'[BrowserOf[d]] = screen[BrowserOf[d]]
      BY <1>5, <3>1, <3>2
    <3>4. Streams(InFlight(d), screen[BrowserOf[d]], last[d], Member(d))
      BY <3>1 DEF StreamInv, StreamsHold
    <3> QED
      BY <1>7, <2>1, <2>3, <3>3, <3>4
  <2> QED
    BY <2>2, <2>3
<1> QED
  BY <1>11, <1>12, <1>13, <1>14 DEF StreamInv

\* Every step of the hub, of the pumps, of the browsers and of the world keeps StreamInv.
LEMMA StreamStep ==
    ASSUME StreamInv, TypeInv, Settled, [Next]_vars
    PROVE  StreamInv'
<1>1. CASE GraphChanges \/ SaveOverride \/ MarkResyncAll \/ ResyncAll \/ ClearDirty \/ UNCHANGED vars
  <2>1. UNCHANGED <<cur, tick>>
    BY <1>1 DEF GraphChanges, SaveOverride, MarkResyncAll, ResyncAll, ClearDirty, vars, hub
  <2>2. TRUE \in Conns \cup BOOLEAN
    OBVIOUS
  <2> QED
    BY <1>1, <2>1, <2>2, StreamWorld
<1>2. ASSUME NEW layoutBusy \in BOOLEAN, TickStarts(layoutBusy) PROVE StreamInv'
  <2>1. UNCHANGED <<cur, tick>> /\ layoutBusy \in Conns \cup BOOLEAN
    BY <1>2 DEF TickStarts
  <2> QED
    BY <1>2, <2>1, StreamWorld
<1>3. ASSUME NEW c \in Conns, \/ ApplyControl(c) \/ SocketBreaks(c) \/ ReadFails(c) \/ Register(c)
                              \/ Unregister(c) \/ PumpEnds(c)
      PROVE  StreamInv'
  <2>1. UNCHANGED <<cur, tick>> /\ c \in Conns \cup BOOLEAN
    BY <1>3 DEF ApplyControl, SocketBreaks, ReadFails, Register, Unregister, PumpEnds, hub
  <2> QED
    BY <1>3, <2>1, StreamWorld
<1>4. ASSUME NEW c \in Conns, ConsumeNeedsFull(c) PROVE StreamInv'
  BY <1>4, StreamTick
<1>5. CASE DrainFlows \/ ReadMode
  <2>1. CASE Conns # {}
    <3>1. PICK c \in Conns : TRUE
      BY <2>1
    <3> QED
      BY <1>5, <3>1, StreamTick
  <2>2. CASE Conns = {}
    <3>1. UNCHANGED <<send, last, screen>>
      BY <1>5 DEF DrainFlows, ReadMode, pipes, client
    <3>2. \A c \in Conns : FALSE
      BY <2>2
    <3> QED
      BY <3>1, <3>2, StreamElsewhere
  <2> QED
    BY <2>1, <2>2
<1>6. ASSUME NEW due \in BOOLEAN, BuildRaw(due) PROVE StreamInv'
  BY <1>6, StreamRaw
<1>7. ASSUME NEW due \in BOOLEAN, BuildStyled(due) PROVE StreamInv'
  BY <1>7, StreamStyled
<1>8. CASE TrySend
  BY <1>8, StreamSend
<1>9. ASSUME NEW c \in Conns, Connect(c) PROVE StreamInv'
  BY <1>9, StreamConnect
<1>10. ASSUME NEW c \in Conns, WriteMessage(c) PROVE StreamInv'
  BY <1>10, StreamWrite
<1>11. ASSUME NEW b \in Browsers, TimerFires(b) PROVE StreamInv'
  BY <1>11, StreamTimer
<1> QED
  BY <1>1, <1>2, <1>3, <1>4, <1>5, <1>6, <1>7, <1>8, <1>9, <1>10, <1>11
     DEF Next, Environment, TickStep

-----------------------------------------------------------------------------
(* What all the messages in flight come to.                                *)

\* What message m makes of screen s when nothing delays it.
Shown(s, m) == IF m.kind # "delta" THEN s ELSE UpdateGraph(Taken(s, m), m)

AfterLaw(f, a, w, n) == f = [k \in 0 .. n |-> IF k = 0 THEN a ELSE Shown(f[k - 1], w[k])]

\* The screens after each message exist.
LEMMA AfterExists ==
    ASSUME NEW a, NEW w, NEW n \in Nat
    PROVE  \E f : AfterLaw(f, a, w, n)
<1> DEFINE T == {m \in Nat : \E f : AfterLaw(f, a, w, m)}
<1>1. 0 \in T
  <2> DEFINE f == [k \in 0 .. 0 |-> a]
  <2>1. f = [k \in 0 .. 0 |-> IF k = 0 THEN a ELSE Shown(f[k - 1], w[k])]
    OBVIOUS
  <2> QED
    BY <2>1 DEF AfterLaw
<1>2. ASSUME NEW m \in 0 .. n, m \in T, m < n PROVE m + 1 \in T
  <2>1. PICK f : AfterLaw(f, a, w, m)
    BY <1>2
  <2> DEFINE g == [k \in 0 .. m + 1 |-> IF k = m + 1 THEN Shown(f[m], w[m + 1]) ELSE f[k]]
  <2>2. \A k \in 0 .. m : g[k] = f[k]
    OBVIOUS
  <2>3. g[m + 1] = Shown(f[m], w[m + 1])
    OBVIOUS
  <2>4. g = [k \in 0 .. m + 1 |-> g[k]]
    OBVIOUS
  <2>5. ASSUME NEW k \in 0 .. m + 1 PROVE g[k] = IF k = 0 THEN a ELSE Shown(g[k - 1], w[k])
    <3> HIDE DEF g
    <3>1. CASE k = m + 1
      <4>1. k # 0 /\ k - 1 = m /\ m \in 0 .. m
        BY <3>1
      <4>2. g[k - 1] = f[m]
        BY <2>2, <4>1
      <4> QED
        BY <2>3, <3>1, <4>1, <4>2
    <3>2. CASE k # m + 1
      <4>1. k \in 0 .. m
        BY <3>2
      <4>2. f[k] = IF k = 0 THEN a ELSE Shown(f[k - 1], w[k])
        BY <2>1, <4>1 DEF AfterLaw
      <4>3. k # 0 => k - 1 \in 0 .. m
        BY <4>1
      <4>4. k # 0 => g[k - 1] = f[k - 1]
        BY <2>2, <4>3
      <4> QED
        BY <2>2, <4>1, <4>2, <4>4
    <3> QED
      BY <3>1, <3>2
  <2> HIDE DEF g
  <2>6. AfterLaw(g, a, w, m + 1)
    BY <2>4, <2>5 DEF AfterLaw
  <2> QED
    BY <2>6
<1> HIDE DEF T
<1>3. n \in T
  <2>1. \A k \in 0 .. n : k \in T
    BY <1>1, <1>2, UpTo
  <2> QED
    BY <2>1
<1> QED
  BY <1>3 DEF T

\* The messages drawn in order keep to the drawings and to the connection.
LEMMA AfterDraws ==
    ASSUME NEW s, Shaped(s), Waits(s), NEW w, Queue(w)
    PROVE  /\ AfterAll(s, w).conn = s.conn
           /\ \E g : g[0] = Start(s) /\ Path(g, 0, Len(w), w) /\ g[Len(w)] = Draw(AfterAll(s, w))
<1> DEFINE a == IF s.pending = NoDelta THEN s ELSE UpdateGraph(s, s.pending)
           n == Len(w)
           after[k \in 0 .. Len(w)] ==
               IF k = 0 THEN IF s.pending = NoDelta THEN s ELSE UpdateGraph(s, s.pending)
               ELSE IF w[k].kind # "delta" THEN after[k - 1]
               ELSE UpdateGraph(Taken(after[k - 1], w[k]), w[k])
<1>1. n \in Nat
  BY QueueJoin
<1>2. AfterAll(s, w) = after[n]
  BY DEF AfterAll
<1>3. \E f : f = [k \in 0 .. n |->
                    IF k = 0 THEN IF s.pending = NoDelta THEN s ELSE UpdateGraph(s, s.pending)
                    ELSE IF w[k].kind # "delta" THEN f[k - 1]
                    ELSE UpdateGraph(Taken(f[k - 1], w[k]), w[k])]
  <2> HIDE DEF a
  <2>1. \E f : AfterLaw(f, a, w, n)
    BY <1>1, AfterExists
  <2> QED
    BY <2>1 DEF AfterLaw, Shown, a
<1>4. after = [k \in 0 .. n |->
                 IF k = 0 THEN IF s.pending = NoDelta THEN s ELSE UpdateGraph(s, s.pending)
                 ELSE IF w[k].kind # "delta" THEN after[k - 1]
                 ELSE UpdateGraph(Taken(after[k - 1], w[k]), w[k])]
  BY <1>3
<1> HIDE DEF after
<1>5. AfterLaw(after, a, w, n)
  BY <1>4 DEF AfterLaw, Shown
<1>6. Shaped(a) /\ a.conn = s.conn /\ Draw(a) = Start(s)
  <2>1. CASE s.pending = NoDelta
    BY <2>1 DEF Start
  <2>2. CASE s.pending # NoDelta
    <3>1. s.pending.full \in BOOLEAN /\ s.pending.done \in BOOLEAN
      BY <2>2 DEF Waits
    <3>2. /\ Shaped(UpdateGraph(s, s.pending)) /\ UpdateGraph(s, s.pending).conn = s.conn
          /\ Draw(UpdateGraph(s, s.pending)) = Redraw(Draw(s), s.pending)
      BY <3>1, UpdateDraws
    <3> QED
      BY <2>2, <3>2 DEF Start
  <2> QED
    BY <2>1, <2>2
<1> HIDE DEF a, n
<1>7. after[0] = a /\ \A k \in 0 .. n : k # 0 => after[k] = Shown(after[k - 1], w[k])
  BY <1>1, <1>5 DEF AfterLaw
<1> DEFINE T == {k \in 0 .. n : Shaped(after[k]) /\ after[k].conn = s.conn}
<1>8. ASSUME NEW k \in 0 .. n, k \in T, k < n
      PROVE  /\ Shaped(after[k + 1]) /\ after[k + 1].conn = s.conn
             /\ Draw(after[k + 1]) = Turn(Draw(after[k]), w[k + 1])
  <2> DEFINE m == w[k + 1]
  <2>1. k + 1 \in 0 .. n /\ k + 1 # 0 /\ (k + 1) - 1 = k /\ k + 1 \in 1 .. n
    BY <1>1, <1>8
  <2>2. after[k + 1] = Shown(after[k], m)
    BY <1>7, <2>1
  <2>3. Well(m) /\ Shaped(after[k]) /\ after[k].conn = s.conn
    BY <1>8, <2>1 DEF Queue, n
  <2> HIDE DEF m
  <2>4. CASE m.kind # "delta"
    BY <2>2, <2>3, <2>4 DEF Shown, Turn, m
  <2>5. CASE m.kind = "delta"
    <3>1. m.full \in BOOLEAN /\ m.done \in BOOLEAN
      BY <2>3, <2>5 DEF Well
    <3>2. after[k + 1] = UpdateGraph(Taken(after[k], m), m)
      BY <2>2, <2>5 DEF Shown
    <3> QED
      BY <2>3, <2>5, <3>1, <3>2, AppliedDraws DEF m
  <2> QED
    BY <2>4, <2>5
<1>9. \A k \in 0 .. n : k \in T
  <2>1. 0 \in T
    BY <1>1, <1>6, <1>7
  <2>2. \A k \in 0 .. n : k \in T /\ k < n => k + 1 \in T
    <3> SUFFICES ASSUME NEW k \in 0 .. n, k \in T, k < n PROVE k + 1 \in T
      OBVIOUS
    <3>1. k + 1 \in 0 .. n
      BY <1>1
    <3>2. Shaped(after[k + 1]) /\ after[k + 1].conn = s.conn
      BY <1>8
    <3> QED
      BY <3>1, <3>2
  <2> HIDE DEF T
  <2> QED
    BY <1>1, <2>1, <2>2, UpTo
<1> DEFINE g == [k \in 0 .. n |-> Draw(after[k])]
<1>10. Path(g, 0, n, w)
  <2> SUFFICES ASSUME NEW k \in 0 + 1 .. n PROVE g[k] = Turn(g[k - 1], w[k])
    BY DEF Path
  <2>1. k \in 0 .. n /\ k - 1 \in 0 .. n /\ k - 1 < n /\ (k - 1) + 1 = k
    BY <1>1
  <2>2. Draw(after[(k - 1) + 1]) = Turn(Draw(after[k - 1]), w[(k - 1) + 1])
    BY <1>8, <1>9, <2>1
  <2> QED
    BY <2>1, <2>2
<1>11. g[0] = Start(s) /\ g[n] = Draw(after[n]) /\ after[n].conn = s.conn
  BY <1>1, <1>6, <1>7, <1>9
<1> HIDE DEF g, T
<1> QED
  BY <1>2, <1>10, <1>11 DEF n

\* The stream keeps what its two properties say.
LEMMA StreamRebuilds ==
    ASSUME StreamInv, TypeInv, Settled
    PROVE  StreamRebuildsBaseline
<1> SUFFICES ASSUME NEW c \in clients, socket[c] = "open"
             PROVE  /\ AfterAll(screen[BrowserOf[c]], InFlight(c)).conn = c
                    /\ AfterAll(screen[BrowserOf[c]], InFlight(c)).synced
                          /\ ~AfterAll(screen[BrowserOf[c]], InFlight(c)).lost
                       => Content(AfterAll(screen[BrowserOf[c]], InFlight(c))) = last[c]
  BY DEF StreamRebuildsBaseline
<1> DEFINE s == screen[BrowserOf[c]]
           w == InFlight(c)
           t == AfterAll(s, w)
<1>1. c \in Conns /\ Member(c)
  BY DEF Settled, ChannelInv, ChannelTypes, Member
<1>2. Queue(w) /\ Sound(s) /\ s.conn = c /\ Streams(w, s, last[c], Member(c))
  BY <1>1, FlightIs, BrowsersAre DEF StreamInv, ScreensSound, OneOpen, StreamsHold
<1> HIDE DEF w, s
<1>3. Shaped(s) /\ Waits(s) /\ Holds(w, last[c], Member(c), 0, Start(s))
  BY <1>2 DEF Sound, Streams
<1>4. t.conn = c
  BY <1>2, <1>3, AfterDraws
<1>5. PICK g : g[0] = Start(s) /\ Path(g, 0, Len(w), w) /\ g[Len(w)] = Draw(t)
  BY <1>2, <1>3, AfterDraws
<1> HIDE DEF t
<1>6. Len(w) \in 0 .. Len(w)
  BY <1>2, QueueJoin
<1>7. Base(Draw(t), last[c])
  BY <1>1, <1>3, <1>5, <1>6 DEF Holds
<1>8. t.synced /\ ~t.lost => Content(t) = last[c]
  BY <1>7 DEF Base, Draw, Content
<1> QED
  BY <1>4, <1>8 DEF t, s, w

\* Every screen is sound between two messages.
LEMMA StreamIsCalm ==
    ASSUME StreamInv
    PROVE  EdgesHaveEnds
<1> SUFFICES ASSUME NEW b \in Browsers, ~screen[b].lost, ~screen[b].adrift,
                    NEW e \in DOMAIN screen[b].edge
             PROVE  e \subseteq DOMAIN screen[b].node
  BY DEF EdgesHaveEnds
<1>1. Calm(Draw(screen[b]))
  BY DEF StreamInv, ScreensSound, Sound
<1> QED
  BY <1>1 DEF Calm, Draw

\* In every behaviour the messages in flight to a browser lead from what it draws to the
\* mirror the next difference is computed from (websocket.go tick, splitDelta, trySend and
\* app.js updateGraph, throttledUpdateGraph).
THEOREM StreamInvariant == Spec => []StreamInv
<1>1. Init => StreamInv
  BY StreamInit
<1>2. StreamInv /\ TypeInv /\ Settled /\ [Next]_vars => StreamInv'
  BY StreamStep
<1> QED
  BY <1>1, <1>2, HubTyped, SettledAlways, PTL DEF Spec

\* What is queued for a client, applied in order to what its browser shows, always gives
\* exactly the mirror the hub holds of it (lastNodes, lastEdges).
THEOREM StreamAlwaysRebuilds == Spec => []StreamRebuildsBaseline
<1>1. StreamInv /\ TypeInv /\ Settled => StreamRebuildsBaseline
  BY StreamRebuilds
<1> QED
  BY <1>1, StreamInvariant, HubTyped, SettledAlways, PTL

\* A browser never shows an edge without both its nodes, whatever chunk of a picture has
\* arrived last (splitDelta); every variable has its type.
THEOREM ScreensAlwaysSound == Spec => []ScreensAreSound
<1>1. StreamInv /\ TypeOK => ScreensAreSound
  BY StreamIsCalm DEF ScreensAreSound
<1> QED
  BY <1>1, StreamInvariant, HubTyped, PTL
=============================================================================

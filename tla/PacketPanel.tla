----------------------------- MODULE PacketPanel -----------------------------
(***************************************************************************)
(* The packet table: the server's ring of recent packets                   *)
(* (graph/packet_store.go), the page that polls it with a cursor, the      *)
(* cache, the filtered list, the selection and the inspector               *)
(* (static/app.js), and the replay of a file, which fills the same table.  *)
(*                                                                         *)
(* A packet is its id and where it comes from: the server's run, which     *)
(* counts its ids from 1, or the file, whose ids count from 1 as well.     *)
(* Every fetch is a call that is answered later; what the answer carries   *)
(* is fixed when the server handles it.                                    *)
(***************************************************************************)
EXTENDS Loops, Integers, Sequences, FiniteSets, SequencesExt, FiniteSetsExt

CONSTANTS
    Capacity,       \* maxPackets of the ring
    Limit,          \* limit= of a poll
    CacheSize,      \* MAX_CACHED_PACKETS
    File,           \* the pcap file that can be replayed
    FileSize,       \* its packets
    Marked,         \* ids of the packets that pass the filter
    MaxPackets,     \* bound: packets of a run of the server
    MaxCalls,       \* bound: fetches under way
    MaxActs,        \* bound: acts of the user, restarts, failed fetches
    None

ASSUME PanelAssumption ==
    /\ Capacity \in Nat \ {0} /\ Limit \in Nat \ {0} /\ CacheSize \in Nat \ {0}
    /\ FileSize \in Nat /\ MaxPackets \in Nat /\ MaxCalls \in Nat /\ MaxActs \in Nat
    /\ File \notin Nat /\ None # File /\ None \notin Nat

VARIABLES
    ring,       \* server: packets, head, size, nextId, and the run of the server
    cursor,     \* packetCursor
    mode,       \* the file in replay, None when live
    table,      \* packets: the newest batch
    cache,      \* packetCache: id -> packet
    list,       \* filteredPacketList, as rendered
    filter,     \* a filter is set
    open,       \* the panel is shown
    sel,        \* selectedPacketId, 0 for none
    idx,        \* selectedPacketIndex, from 0, -1 for none
    shown,      \* the inspector: its packet, its payload (None for one that is
                \* no longer buffered), and which inspector it is
    calls,      \* fetches under way
    given,      \* ids given to the cache since it was cleared (history)
    seen,       \* live packets given to the page (history)
    cursorRun,  \* the only run that has moved the cursor, None if two have (history)
    acts

vars == <<ring, cursor, mode, table, cache, list, filter, open, sel, idx, shown,
          calls, given, seen, cursorRun, acts>>

Act == acts < MaxActs /\ acts' = acts + 1

-----------------------------------------------------------------------------
(* The ring.                                                               *)

NewRing(run) == [slot |-> [i \in 0 .. Capacity - 1 |-> None], head |-> 0, size |-> 0,
                 next |-> 1, run |-> run]

\* GetPackets: from the head on, in chronological order.
Chronological(r) == [i \in 1 .. r.size |-> r.slot[(r.head + i - 1) % Capacity]]

\* GetPacketsSince: the first `Limit' that are newer, and the highest id.
Since(r, id) ==
    LET newer == Kept(Chronological(r), {i \in 1 .. r.size : Chronological(r)[i].id > id})
    IN SubSeq(newer, 1, IF Len(newer) < Limit THEN Len(newer) ELSE Limit)

HighestOf(seq, id) == Max({id} \cup {seq[i].id : i \in 1 .. Len(seq)})

\* GetByID, over the live ring whatever the page shows.
ByID(r, id) ==
    LET hits == {i \in 1 .. r.size : Chronological(r)[i].id = id}
    IN IF hits = {} THEN None ELSE Chronological(r)[CHOOSE i \in hits : TRUE]

\* Mutant: a full ring overwrites the newest packet.
AddedAtTail(r) ==
    LET p   == [of |-> r.run, id |-> r.next]
        pos == IF r.size < Capacity THEN (r.head + r.size) % Capacity
               ELSE (r.head + r.size - 1) % Capacity
    IN [r EXCEPT !.slot[pos] = p, !.next = @ + 1,
                 !.size = IF @ < Capacity THEN @ + 1 ELSE @]

\* AddPacket.
Added(r) ==
    LET p == [of |-> r.run, id |-> r.next]
    IN IF r.size < Capacity
       THEN [r EXCEPT !.slot[(r.head + r.size) % Capacity] = p, !.size = @ + 1, !.next = @ + 1]
       ELSE [r EXCEPT !.slot[r.head] = p, !.head = (@ + 1) % Capacity, !.next = @ + 1]

-----------------------------------------------------------------------------
(* The page's tables.                                                      *)

NewestFirst(seq) ==
    LET order == CHOOSE f \in Bijection(1 .. Len(seq), 1 .. Len(seq)) :
                    \A i, j \in 1 .. Len(seq) : i < j => seq[f[i]].id >= seq[f[j]].id
    IN [i \in 1 .. Len(seq) |-> seq[order[i]]]

\* buildFilteredPacketList: without a filter the batch itself is sorted.
Listed(on, batch) ==
    LET rows == NewestFirst(batch)
    IN IF on THEN Kept(rows, {i \in 1 .. Len(rows) : rows[i].id \in Marked}) ELSE rows

\* The cache limit: evict the lowest ids.
Evicted(c, new) ==
    LET low == {id \in DOMAIN c : Cardinality({j \in DOMAIN c : j > id}) >= CacheSize}
    IN [id \in DOMAIN c \ low |-> c[id]]

\* updatePacketCache: the batch is the table, what is not cached yet is, and
\* an open panel is refreshed at most twice a second.
UpdatePacketCache(new) ==
    IF new = <<>> THEN UNCHANGED <<table, cache, list, given>>
    ELSE LET ids == {new[i].id : i \in 1 .. Len(new)}
             all == [id \in DOMAIN cache \cup ids |->
                        IF id \in DOMAIN cache THEN cache[id]
                        ELSE new[CHOOSE i \in 1 .. Len(new) : new[i].id = id]]
         IN /\ cache' = Evicted(all, new)
            /\ given' = given \cup ids
            /\ \/ open /\ list' = Listed(filter, new)
                  /\ table' = IF filter THEN new ELSE NewestFirst(new)
               \/ table' = new /\ UNCHANGED list

\* loadPackets.
LoadPackets(on) ==
    /\ list' = Listed(on, table)
    /\ table' = IF on THEN table ELSE NewestFirst(table)

\* showPacketInspector and its fetch of the payload (handlePacketDetail).
Inspected(p) ==
    /\ shown' = [of |-> p, state |-> "loading", payload |-> None, no |-> shown.no + 1]
    /\ calls' = calls \cup {[kind |-> "detail", id |-> p.id, no |-> shown.no + 1,
                             found |-> ByID(ring, p.id)]}

\* selectPacket: the cache first, then the batch, else nothing but the id.
Selected(id) ==
    LET inTable == {i \in 1 .. Len(table) : table[i].id = id}
        rows    == {i \in 1 .. Len(list) : list[i].id = id}
    IN /\ sel' = id
       /\ IF id \in DOMAIN cache \/ inTable # {}
          THEN /\ idx' = IF rows = {} THEN -1 ELSE Min(rows) - 1
               /\ Inspected(IF id \in DOMAIN cache THEN cache[id] ELSE table[Min(inTable)])
          ELSE UNCHANGED <<idx, shown, calls>>

NoCache == [id \in {} |-> None]

Init ==
    /\ ring = NewRing(0)
    /\ cursor = 0 /\ cursorRun = 0
    /\ mode = None
    /\ table = <<>> /\ list = <<>> /\ cache = NoCache
    /\ filter = FALSE /\ open = FALSE
    /\ sel = 0 /\ idx = -1
    /\ shown = [of |-> None, state |-> "empty", payload |-> None, no |-> 0]
    /\ calls = {} /\ given = {} /\ seen = {}
    /\ acts = 0

-----------------------------------------------------------------------------
(* The server.                                                             *)

PageUnchanged == UNCHANGED <<cursor, mode, table, cache, list, filter, open, sel, idx,
                             shown, calls, given, seen, cursorRun>>

AddPacket ==
    /\ ring.next <= MaxPackets
    /\ ring' = Added(ring)
    /\ PageUnchanged /\ UNCHANGED acts

\* A new process: an empty ring that counts from 1.
Restart ==
    /\ Act
    /\ ring' = NewRing(ring.run + 1)
    /\ PageUnchanged

-----------------------------------------------------------------------------
(* Polling and replay.                                                     *)

Room == Cardinality(calls) < MaxCalls

\* The one-second interval; nothing waits for the answer before the next.
PollPackets ==
    /\ mode = None /\ Room
    /\ calls' = calls \cup {[kind |-> "poll", batch |-> Since(ring, cursor),
                             upto |-> HighestOf(Since(ring, cursor), cursor), run |-> ring.run]}
    /\ UNCHANGED <<ring, cursor, mode, table, cache, list, filter, open, sel, idx, shown,
                   given, seen, cursorRun, acts>>

\* Mutant: the cursor moves to what the server holds, not to what came.
PollAnsweredAhead(c) ==
    /\ c.kind = "poll"
    /\ calls' = calls \ {c}
    /\ cursor' = ring.next - 1 /\ cursorRun' = ring.run
    /\ UpdatePacketCache(c.batch)
    /\ seen' = seen \cup ToSet(c.batch)
    /\ UNCHANGED <<ring, mode, filter, open, sel, idx, shown, acts>>

\* The cursor only rises; the answer is taken whatever the mode is by now.
PollAnswered(c) ==
    /\ c.kind = "poll"
    /\ calls' = calls \ {c}
    /\ IF c.upto > cursor
       THEN /\ cursor' = c.upto
            /\ cursorRun' = IF cursor = 0 \/ cursorRun = c.run THEN c.run ELSE None
       ELSE UNCHANGED <<cursor, cursorRun>>
    /\ UpdatePacketCache(c.batch)
    /\ seen' = seen \cup ToSet(c.batch)
    /\ UNCHANGED <<ring, mode, filter, open, sel, idx, shown, acts>>

\* enterReplayMode once the file is found: batch and cache cleared, the list
\* of rows not.  exitReplayMode does the same.
EnterReplay ==
    /\ Act /\ Room
    /\ mode' = File
    /\ table' = <<>> /\ cache' = NoCache /\ given' = {}
    /\ calls' = calls \cup {[kind |-> "replay",
                             batch |-> [i \in 1 .. FileSize |-> [of |-> File, id |-> i]]]}
    /\ UNCHANGED <<ring, cursor, list, filter, open, sel, idx, shown, seen, cursorRun>>

ExitReplay ==
    /\ Act /\ mode # None
    /\ mode' = None
    /\ table' = <<>> /\ cache' = NoCache /\ given' = {}
    /\ UNCHANGED <<ring, cursor, list, filter, open, sel, idx, shown, calls, seen, cursorRun>>

\* The replay's picture brings the packets of its offset (updateGraph).
ReplayAnswered(c) ==
    /\ c.kind = "replay"
    /\ calls' = calls \ {c}
    /\ UpdatePacketCache(c.batch)
    /\ UNCHANGED <<ring, cursor, mode, filter, open, sel, idx, shown, seen, cursorRun, acts>>

-----------------------------------------------------------------------------
(* The user.                                                               *)

\* The panel's button, its close button, Escape.
TogglePanel ==
    /\ Act
    /\ open' = ~open
    /\ IF open' THEN LoadPackets(filter) ELSE UNCHANGED <<list, table>>
    /\ UNCHANGED <<ring, cursor, mode, cache, filter, sel, idx, shown, calls, given, seen, cursorRun>>

\* A filter is set or cleared.
SetFilter ==
    /\ Act /\ open
    /\ filter' = ~filter
    /\ LoadPackets(filter')
    /\ UNCHANGED <<ring, cursor, mode, cache, open, sel, idx, shown, calls, given, seen, cursorRun>>

\* A row is clicked.
SelectPacket(id) ==
    /\ Act /\ open /\ Room
    /\ \E i \in 1 .. Len(list) : list[i].id = id
    /\ Selected(id)
    /\ UNCHANGED <<ring, cursor, mode, table, cache, list, filter, open, given, seen, cursorRun>>

\* An arrow key moves the index over the batch.
Arrow(step) ==
    /\ Act /\ open /\ Room /\ table # <<>>
    /\ LET to == IF step > 0 THEN Min({idx + 1, Len(table) - 1}) ELSE Max({idx - 1, 0})
       IN IF to \in 0 .. Len(table) - 1
          THEN Selected(table[to + 1].id)
          ELSE idx' = to /\ UNCHANGED <<sel, shown, calls>>
    /\ UNCHANGED <<ring, cursor, mode, table, cache, list, filter, open, given, seen, cursorRun>>

\* A node's or a search result's latest packet: inspected, not selected; the
\* search puts it in the cache in the place of what has its id.
InspectRecent(fromSearch) ==
    /\ Act /\ Room /\ ring.size > 0
    /\ LET p == Chronological(ring)[ring.size] IN
       /\ Inspected(p)
       /\ IF fromSearch
          THEN /\ cache' = [id \in DOMAIN cache \cup {p.id} |-> IF id = p.id THEN p ELSE cache[id]]
               /\ given' = given \cup {p.id}
               /\ IF open THEN UNCHANGED <<open, list, table>> ELSE open' = TRUE /\ LoadPackets(filter)
          ELSE UNCHANGED <<cache, given, open, list, table>>
    /\ UNCHANGED <<ring, cursor, mode, filter, sel, idx, seen, cursorRun>>

Filled(found) == [shown EXCEPT !.state = "filled", !.payload = found]

\* Mutant: the answer is written to whatever inspector is open.
DetailAnsweredAnywhere(c) ==
    /\ c.kind = "detail"
    /\ calls' = calls \ {c}
    /\ shown' = Filled(c.found)
    /\ UNCHANGED <<ring, cursor, mode, table, cache, list, filter, open, sel, idx, given,
                   seen, cursorRun, acts>>

\* loadPacketPayloadViews after its await: not when the selection has moved
\* on, and only into the elements that were there when it began.
DetailAnswered(c) ==
    /\ c.kind = "detail"
    /\ calls' = calls \ {c}
    /\ shown' = IF c.no = shown.no /\ (c.found = None \/ sel = c.id)
                THEN Filled(c.found) ELSE shown
    /\ UNCHANGED <<ring, cursor, mode, table, cache, list, filter, open, sel, idx, given,
                   seen, cursorRun, acts>>

\* A fetch fails: a poll or a replay answer is only missed.
CallFails(c) ==
    /\ Act
    /\ calls' = calls \ {c}
    /\ shown' = IF c.kind = "detail" /\ c.no = shown.no
                THEN Filled(None) ELSE shown
    /\ UNCHANGED <<ring, cursor, mode, table, cache, list, filter, open, sel, idx, given,
                   seen, cursorRun>>

-----------------------------------------------------------------------------
Next ==
    \/ AddPacket \/ Restart
    \/ PollPackets \/ EnterReplay \/ ExitReplay
    \/ \E c \in calls : \/ PollAnswered(c) \/ ReplayAnswered(c) \/ DetailAnswered(c)
                        \/ CallFails(c)
    \/ TogglePanel \/ SetFilter
    \/ \E id \in 1 .. MaxPackets : SelectPacket(id)
    \/ \E step \in {-1, 1} : Arrow(step)
    \/ \E fromSearch \in BOOLEAN : InspectRecent(fromSearch)

Spec == Init /\ [][Next]_vars

-----------------------------------------------------------------------------
(* Properties.                                                             *)

Packets == [of : Nat \cup {File}, id : Nat \ {0}]

TypeOK ==
    /\ ring.size \in 0 .. Capacity /\ ring.head \in 0 .. Capacity - 1
    /\ cursor \in Nat /\ mode \in {None, File}
    /\ \A i \in 1 .. Len(table) : table[i] \in Packets
    /\ \A id \in DOMAIN cache : cache[id] \in Packets /\ cache[id].id = id
    /\ \A i \in 1 .. Len(list) : list[i] \in Packets
    /\ filter \in BOOLEAN /\ open \in BOOLEAN
    /\ sel \in Nat /\ idx \in -1 .. Max({MaxPackets, FileSize}) - 1
    /\ \A c \in calls : c.kind \in {"poll", "replay", "detail"}

\* Read from its head on, the ring holds the newest packets of this run, in
\* order and without a gap, however often it has wrapped (AddPacket).
RingHoldsNewest ==
    /\ ring.size = Min({Capacity, ring.next - 1})
    /\ \A i \in 1 .. ring.size :
          Chronological(ring)[i] = [of |-> ring.run, id |-> ring.next - 1 - ring.size + i]

\* What the cursor has passed the page was given, as long as it is of this
\* run alone: overlapping polls and lost answers skip nothing (pollPackets, "each
\* poll catches up to the newest packet").
NothingSkipped ==
    cursorRun = ring.run
        => \A i \in 1 .. ring.size :
              Chronological(ring)[i].id <= cursor => Chronological(ring)[i] \in seen

\* The cache holds the highest ids it was given, up to its size, whatever
\* order answers came in (app.js:2625-2627, "evict by id, not insertion
\* order").  A packet set by a search may stand above its size until the next
\* batch.
CacheKeepsHighest ==
    \A id \in given \ DOMAIN cache :
        Cardinality({j \in DOMAIN cache : j > id}) >= CacheSize

\* A payload never lands in the inspector of a packet with another id
\* (app.js:2147, "the inspector may have moved on to another packet").
PayloadOfItsId ==
    shown.payload # None => shown.payload.id = shown.of.id

\* The payload in the inspector is that of the packet inspected (app.js:2138,
\* "the server-preformatted payload views for the inspected packet").
PayloadOfItsPacket ==
    shown.payload # None => shown.payload = shown.of

(* No packet falls between two polls, and what leaves the cache leaves from
   its low end (pollPackets, updatePacketCache); every variable has its type. *)
TableIsComplete == TypeOK /\ NothingSkipped /\ CacheKeepsHighest
=============================================================================

---------------------------- MODULE CaptureStore ----------------------------
(***************************************************************************)
(* The persistence component (package store) and the part of main.go that  *)
(* drives it: the aggregator every ingest goroutine writes to, the channel *)
(* of packet-index rows, the single writer goroutine, the retention        *)
(* goroutine, and the life of a capture session from BeginCapture to       *)
(* EndCapture, over processes that crash and restart on one database file. *)
(*                                                                         *)
(* Data abstraction.  A packet is an identity.  KeysOf[p] are the rows of  *)
(* the tables nodes and edges that p counts in (its two hosts and its      *)
(* canonical edge, hence at least one); FlowOf[p] is the key of the        *)
(* flow_buckets row it counts in (edge, second, protocol).  Bytes, the     *)
(* forward/reverse split and the time stamps ride in the same rows, under  *)
(* the same statements, as the packet counts and are left out; a frame     *)
(* whose two ends are the same host, which counts twice at one node, too.  *)
(* A process opens at most one session (the mode switch of main.go), so    *)
(* everything in memory belongs to the session sid and the capture id      *)
(* inside the aggregator's keys is not repeated.                           *)
(***************************************************************************)
EXTENDS Integers, FiniteSets

CONSTANTS
    Packets,      \* the packets a session may record
    Keys,         \* primary keys of the nodes and edges tables
    Flows,        \* primary keys of the flow_buckets table
    KeysOf,       \* [Packets -> SUBSET Keys], never empty
    FlowOf,       \* [Packets -> Flows]
    Files,        \* pcap identities: basename, size and head hash
    Content,      \* [Files -> SUBSET Packets], what parsing the file yields
    NoFile,       \* "file" of a live, ssh or synth session
    BatchSize,    \* writer.go batchSize
    QueueCap,     \* capacity of Store.events
    DrainMax,     \* writer.go drainMax
    PacketEveryChoices,  \* values of -db-packets: 0 off, 1 every packet, N one in N
    MaxCaptures,  \* bound: capture rows ever in the table
    MaxRuns,      \* bound: processes started
    MaxFaults     \* bound: crashes and SQL statements that fail

ASSUME ConstantsAssumption ==
    /\ IsFiniteSet(Packets)
    /\ KeysOf \in [Packets -> (SUBSET Keys) \ {{}}]
    /\ FlowOf \in [Packets -> Flows]
    /\ Content \in [Files -> SUBSET Packets]
    /\ NoFile \notin Files
    /\ BatchSize \in Nat \ {0}
    /\ QueueCap \in Nat \ {0}
    /\ DrainMax \in Nat \ {0}
    /\ PacketEveryChoices \subseteq Nat
    /\ MaxCaptures \in Nat
    /\ MaxRuns \in Nat
    /\ MaxFaults \in Nat

Ids == 1..MaxCaptures

VARIABLES
    \* the database file
    state,        \* captures: no row, a row with ended_at NULL, a complete row
    fileOf,       \* captures: the pcap identity of the row
    totals,       \* nodes and edges: packet_count by capture and key
    flowBuckets,  \* flow_buckets: packets by capture and key
    packetRows,   \* packets: rows by capture
    \* Store and aggregator, in memory
    aggs,         \* a.nodes and a.edges, cumulative; 0 is no entry
    dirty,        \* a.dirtyNodes and a.dirtyEdges
    buckets,      \* a.buckets, since the last snapshot; 0 is no entry
    events,       \* rows in the channel Store.events
    sampleN,      \* a.sampleN, modulo PacketEvery
    dropped,      \* a.dropped: rows droppedPacketRow counted since the snapshot
    \* the writer goroutine
    wpc,          \* "select", "drain", "commit" (inside flushTx), "exited"
    wnext,        \* where flush returns to: "select", "reply" or "exit"
    pending,      \* rows in the slice pending
    batch,        \* the flushBatch of the flush in progress
    fbDropped,    \* its field dropped
    totalDropped, \* writerLoop's totalDropped, the count it reports
    \* the main goroutine, the ingest goroutine, the retention goroutine
    mpc, mode, file, packetEvery, cacheHit, sid, todo, shown,
    ipc,          \* "idle", "send" (between apply and the channel), "stopped"
    rpc,          \* "idle", "buckets", "rows": the statement due next
    \* bounds
    runs, faults,
    \* history variables: read by properties, never by the code
    recorded,     \* packets RecordPacket was called with, by capture
    snapped,      \* packets in the aggregator at the last snapshot
    stored,       \* packets whose effect a committed flush wrote, by capture
    due,          \* index rows selected and not lost to a failed flush, by capture
    lossy,        \* captures that lost aggregates or buckets to a failed flush
    late,         \* captures with a packet recorded after EndCapture began
    reused,       \* captures whose rowid had orphaned rows when it was given
    unreported    \* drops that a flush with nothing to write forgot

disk    == <<state, fileOf, totals, flowBuckets, packetRows>>
memory  == <<aggs, dirty, buckets>>
queue   == <<events, sampleN, dropped>>
writer  == <<wpc, wnext, pending, batch, fbDropped, totalDropped>>
session == <<mode, file, packetEvery, cacheHit, sid>>
history == <<recorded, snapped, stored, due, lossy, late, reused, unreported>>
vars    == <<disk, memory, queue, writer, session, mpc, todo, shown, ipc, rpc,
             runs, faults, history>>

-----------------------------------------------------------------------------
NoTotals  == [k \in Keys |-> 0]
NoBuckets == [f \in Flows |-> 0]
NoBatch   == [keys |-> {}, aggs |-> NoTotals, buckets |-> NoBuckets]

\* Packets of S that count in table row k, in bucket f.
InKey(S, k)  == {p \in S : k \in KeysOf[p]}
InFlow(S, f) == {p \in S : FlowOf[p] = f}

Exists(c) == state[c] # "none"

\* SQLite gives an INTEGER PRIMARY KEY row the largest rowid in use plus one.
IsNextId(c) == /\ \A d \in Ids : Exists(d) => d < c
               /\ c - 1 \in {0} \cup {d \in Ids : Exists(d)}

FreshMemory ==
    /\ aggs' = NoTotals
    /\ dirty' = {}
    /\ buckets' = NoBuckets
    /\ events' = 0
    /\ sampleN' = 0
    /\ dropped' = 0
    /\ wpc' = "select"
    /\ wnext' = "select"
    /\ pending' = 0
    /\ batch' = NoBatch
    /\ fbDropped' = 0
    /\ totalDropped' = 0
    /\ unreported' = 0
    /\ ipc' = "idle"
    /\ rpc' = "idle"
    /\ snapped' = {}

\* The process is gone: nothing that was only in memory survives.
ProcessDies ==
    /\ FreshMemory
    /\ mpc' = "down"
    /\ mode' = "live"
    /\ file' = NoFile
    /\ packetEvery' = 0
    /\ cacheHit' = FALSE
    /\ sid' = 0
    /\ todo' = {}
    /\ shown' = NoTotals
    /\ UNCHANGED <<disk, runs, recorded, stored, due, lossy, late, reused>>

Init ==
    /\ state = [c \in Ids |-> "none"]
    /\ fileOf = [c \in Ids |-> NoFile]
    /\ totals = [c \in Ids |-> NoTotals]
    /\ flowBuckets = [c \in Ids |-> NoBuckets]
    /\ packetRows = [c \in Ids |-> 0]
    /\ aggs = NoTotals
    /\ dirty = {}
    /\ buckets = NoBuckets
    /\ events = 0
    /\ sampleN = 0
    /\ dropped = 0
    /\ wpc = "select"
    /\ wnext = "select"
    /\ pending = 0
    /\ batch = NoBatch
    /\ fbDropped = 0
    /\ totalDropped = 0
    /\ mpc = "down"
    /\ mode = "live"
    /\ file = NoFile
    /\ packetEvery = 0
    /\ cacheHit = FALSE
    /\ sid = 0
    /\ todo = {}
    /\ shown = NoTotals
    /\ ipc = "idle"
    /\ rpc = "idle"
    /\ runs = 0
    /\ faults = 0
    /\ recorded = [c \in Ids |-> {}]
    /\ snapped = {}
    /\ stored = [c \in Ids |-> {}]
    /\ due = [c \in Ids |-> 0]
    /\ lossy = {}
    /\ late = {}
    /\ reused = {}
    /\ unreported = 0

\* An SQL statement, or the whole process, may fail: at most MaxFaults times.
Fault == /\ faults < MaxFaults
         /\ faults' = faults + 1
NoFault == UNCHANGED faults

-----------------------------------------------------------------------------
(* main: starting a process and opening its session.                       *)

\* Open: a fresh Store on the existing file, its writer started.  Every mode
\* but pcap replay ("live": live, ssh and synth) has no file identity; the
\* index option -db-packets is off (0), every packet (1) or 1/N.
Boot(m, f, n) ==
    /\ mpc = "down"
    /\ runs < MaxRuns
    /\ runs' = runs + 1
    /\ mpc' = "boot"
    /\ mode' = m
    /\ file' = f
    /\ packetEvery' = n
    /\ UNCHANGED <<disk, memory, queue, writer, cacheHit, sid, todo, shown, ipc,
                   rpc, faults, history>>

\* Mutant: the lookup forgets complete = 1.
FindAnyPcap(f) == {c \in Ids : Exists(c) /\ fileOf[c] = f}

FindCompletePcap(f) ==
    {c \in Ids : state[c] = "complete" /\ fileOf[c] = f}

\* What BulkLoad puts into the graph: the stored node and edge rows.
LoadAggregates(c) == totals[c]

\* The newest complete capture of the file is loaded instead of parsed.
CacheHit ==
    /\ mpc = "boot"
    /\ mode = "pcap"
    /\ \E c \in FindCompletePcap(file) :
          /\ \A d \in FindCompletePcap(file) : d <= c
          /\ shown' = LoadAggregates(c)
          /\ sid' = c
    /\ cacheHit' = TRUE
    /\ mpc' = "serve"
    /\ UNCHANGED <<disk, memory, queue, writer, mode, file, packetEvery, todo,
                   ipc, rpc, runs, faults, history>>

\* No cached capture, or LoadAggregates failed and the file is parsed anyway.
ParseNeeded ==
    \/ mode = "live" /\ NoFault
    \/ mode = "pcap" /\ FindCompletePcap(file) = {} /\ NoFault
    \/ mode = "pcap" /\ FindCompletePcap(file) # {} /\ Fault

\* The unique index cap_pcap_key admits one row, complete or not, per file.
KeyTaken == /\ mode = "pcap"
            /\ \E c \in Ids : Exists(c) /\ fileOf[c] = file

AfterBegin ==
    /\ mpc' = IF mode = "pcap" THEN "ingest" ELSE "serve"
    /\ todo' = IF mode = "pcap" THEN Content[file] ELSE {}

BeginCapture ==
    /\ mpc = "boot"
    /\ ParseNeeded
    /\ ~KeyTaken
    /\ \E c \in Ids :
          /\ IsNextId(c)
          /\ state' = [state EXCEPT ![c] = "open"]
          /\ fileOf' = [fileOf EXCEPT ![c] = file]
          /\ sid' = c
          /\ recorded' = [recorded EXCEPT ![c] = {}]
          /\ stored' = [stored EXCEPT ![c] = {}]
          /\ due' = [due EXCEPT ![c] = 0]
          /\ lossy' = lossy \ {c}
          /\ late' = late \ {c}
          /\ reused' = IF flowBuckets[c] # NoBuckets \/ packetRows[c] # 0
                       THEN reused \cup {c} ELSE reused \ {c}
    /\ AfterBegin
    /\ UNCHANGED <<totals, flowBuckets, packetRows, memory, queue, writer, mode,
                   file, packetEvery, cacheHit, shown, ipc, rpc, runs, snapped,
                   unreported>>

\* beginCaptureSession logs the error and the process goes on without a
\* session: the INSERT violates the unique index, or fails.
BeginFails ==
    /\ mpc = "boot"
    /\ IF KeyTaken THEN ParseNeeded
       ELSE /\ mode = "pcap" => FindCompletePcap(file) = {}
            /\ Fault
    /\ AfterBegin
    /\ UNCHANGED <<disk, memory, queue, writer, session, shown, ipc, rpc, runs,
                   history>>

-----------------------------------------------------------------------------
(* Ingest: processPacket in the main goroutine (pcap) or in its own (live).*)

Ingesting(p) ==
    \/ mode = "pcap" /\ mpc = "ingest" /\ p \in todo
    \/ /\ mode = "live" /\ mpc \notin {"down", "boot"}
       /\ sid # 0 /\ p \notin recorded[sid]

\* Mutant: an entry is marked dirty only when it is created.
ApplyMarksNewOnly(p) ==
    /\ aggs' = [k \in Keys |-> IF k \in KeysOf[p] THEN aggs[k] + 1 ELSE aggs[k]]
    /\ dirty' = dirty \cup {k \in KeysOf[p] : aggs[k] = 0}
    /\ buckets' = [buckets EXCEPT ![FlowOf[p]] = @ + 1]

\* aggregator.apply: one critical section over nodes, edges and buckets.
Apply(p) ==
    /\ aggs' = [k \in Keys |-> IF k \in KeysOf[p] THEN aggs[k] + 1 ELSE aggs[k]]
    /\ dirty' = dirty \cup KeysOf[p]
    /\ buckets' = [buckets EXCEPT ![FlowOf[p]] = @ + 1]

\* Whether PacketEvery selects the packet for the index.
Selects == \/ packetEvery = 1
           \/ packetEvery > 1 /\ sampleN + 1 = packetEvery

\* RecordPacket and RecordPacketSync up to the channel send.  The graph has
\* already counted the packet (graphMgr.Ingest); without a session that is all.
Record(p) ==
    /\ ipc = "idle"
    /\ Ingesting(p)
    /\ todo' = todo \ {p}
    /\ shown' = IF mode = "live" THEN shown
                ELSE [k \in Keys |-> IF k \in KeysOf[p] THEN shown[k] + 1 ELSE shown[k]]
    /\ IF sid = 0
       THEN UNCHANGED <<memory, queue, ipc, recorded, due, late>>
       ELSE /\ Apply(p)
            /\ sampleN' = IF packetEvery > 1 THEN (sampleN + 1) % packetEvery ELSE sampleN
            /\ ipc' = IF Selects THEN "send" ELSE "idle"
            /\ recorded' = [recorded EXCEPT ![sid] = @ \cup {p}]
            /\ due' = IF Selects THEN [due EXCEPT ![sid] = @ + 1] ELSE due
            /\ late' = IF mode = "live" /\ mpc # "serve" THEN late \cup {sid} ELSE late
            /\ UNCHANGED <<events, dropped>>
    /\ UNCHANGED <<disk, writer, session, mpc, rpc, runs, faults, snapped, stored,
                   lossy, reused, unreported>>

\* Mutant: RecordPacketSync drops like RecordPacket.
SendRowNeverBlocks ==
    /\ ipc = "send"
    /\ IF events < QueueCap
       THEN events' = events + 1 /\ UNCHANGED dropped
       ELSE dropped' = dropped + 1 /\ UNCHANGED events
    /\ ipc' = "idle"
    /\ UNCHANGED <<disk, memory, sampleN, writer, session, mpc, todo, shown, rpc,
                   runs, faults, history>>

\* The send: blocking in a replay, dropped and counted when full in a live path.
SendRow ==
    /\ ipc = "send"
    /\ \/ /\ events < QueueCap
          /\ events' = events + 1
          /\ UNCHANGED dropped
       \/ /\ mode = "live"
          /\ events >= QueueCap
          /\ dropped' = dropped + 1
          /\ UNCHANGED events
    /\ ipc' = "idle"
    /\ UNCHANGED <<disk, memory, sampleN, writer, session, mpc, todo, shown, rpc,
                   runs, faults, history>>

\* ctx is cancelled: the ingest goroutine returns when its select picks Done.
\* Nothing waits for it.
IngestReturns ==
    /\ mode = "live"
    /\ mpc \notin {"down", "boot", "serve"}
    /\ ipc = "idle"
    /\ ipc' = "stopped"
    /\ UNCHANGED <<disk, memory, queue, writer, session, mpc, todo, shown, rpc,
                   runs, faults, history>>

-----------------------------------------------------------------------------
(* The writer goroutine.                                                   *)

\* Mutant: the done case flushes without returning.
AfterKeepsLooping(next) == "select"

After(next) == IF next = "exit" THEN "exited" ELSE "select"

\* Mutant: the reply channel is never closed.
ReturnWithoutReply(next) == wpc' = After(next) /\ UNCHANGED mpc

\* flush has returned: a flush request is answered, which wakes EndCapture.
Return(next) ==
    /\ wpc' = After(next)
    /\ mpc' = IF next = "reply" THEN "drop" ELSE mpc

\* Mutant: snapshot copies the buckets and does not reset them.
StartFlushKeepsBuckets(n, next) ==
    /\ IF n = 0 /\ dirty = {} /\ buckets = NoBuckets
       THEN /\ Return(next)
            /\ pending' = 0
            /\ unreported' = unreported + dropped
            /\ UNCHANGED <<dirty, buckets, batch, fbDropped, wnext, snapped>>
       ELSE /\ batch' = [keys    |-> dirty,
                         aggs    |-> [k \in Keys |-> IF k \in dirty THEN aggs[k] ELSE 0],
                         buckets |-> buckets]
            /\ dirty' = {}
            /\ pending' = n
            /\ wpc' = "commit"
            /\ wnext' = next
            /\ snapped' = recorded[sid]
            /\ fbDropped' = dropped
            /\ UNCHANGED <<mpc, buckets, unreported>>
    /\ dropped' = 0

\* flush up to the transaction: snapshot copies the dirty entries, takes the
\* buckets and the count of dropped rows and resets all three, in one critical
\* section.  n rows are pending.  With nothing else to write flush returns, and
\* the count it took is gone.
StartFlush(n, next) ==
    /\ IF n = 0 /\ dirty = {} /\ buckets = NoBuckets
       THEN /\ Return(next)
            /\ pending' = 0
            /\ unreported' = unreported + dropped
            /\ UNCHANGED <<dirty, buckets, batch, fbDropped, wnext, snapped>>
       ELSE /\ batch' = [keys    |-> dirty,
                         aggs    |-> [k \in Keys |-> IF k \in dirty THEN aggs[k] ELSE 0],
                         buckets |-> buckets]
            /\ dirty' = {}
            /\ buckets' = NoBuckets
            /\ pending' = n
            /\ wpc' = "commit"
            /\ wnext' = next
            /\ snapped' = recorded[sid]
            /\ fbDropped' = dropped
            /\ UNCHANGED <<mpc, unreported>>
    /\ dropped' = 0

WriterUnchanged ==
    UNCHANGED <<disk, aggs, sampleN, totalDropped, session, todo, shown, ipc, rpc,
                runs, faults, recorded, stored, due, lossy, late, reused>>

\* Mutant: the writer waits until a whole batch is queued.
WriterReceivesBatches ==
    /\ wpc = "select"
    /\ events >= BatchSize
    /\ events' = events - BatchSize
    /\ StartFlush(pending + BatchSize, "select")
    /\ WriterUnchanged

\* case ev := <-s.events
WriterReceives ==
    /\ wpc = "select"
    /\ events > 0
    /\ events' = events - 1
    /\ IF pending + 1 >= BatchSize
       THEN StartFlush(pending + 1, "select")
       ELSE /\ pending' = pending + 1
            /\ UNCHANGED <<dirty, buckets, dropped, batch, fbDropped, wpc, wnext,
                            mpc, snapped, unreported>>
    /\ WriterUnchanged

\* case <-ticker.C
WriterTicks ==
    /\ wpc = "select"
    /\ mpc # "down"
    /\ StartFlush(pending, "select")
    /\ UNCHANGED events
    /\ WriterUnchanged

\* case reply := <-s.agg.flushReq: the rendezvous with Flush.
WriterServesFlush ==
    /\ wpc = "select"
    /\ mpc = "flush"
    /\ mpc' = "flushing"
    /\ wpc' = "drain"
    /\ wnext' = "reply"
    /\ UNCHANGED <<events, pending, dirty, buckets, dropped, batch, fbDropped, snapped,
                   unreported>>
    /\ WriterUnchanged

\* case <-s.done
WriterSeesDone ==
    /\ wpc = "select"
    /\ mpc = "closing"
    /\ wpc' = "drain"
    /\ wnext' = "exit"
    /\ UNCHANGED <<events, pending, dirty, buckets, dropped, batch, fbDropped, snapped,
                   unreported, mpc>>
    /\ WriterUnchanged

\* The drain loop before the flush of a request or of Close.
WriterDrains ==
    /\ wpc = "drain"
    /\ \/ /\ pending < DrainMax
          /\ events > 0
          /\ events' = events - 1
          /\ pending' = pending + 1
          /\ UNCHANGED <<dirty, buckets, dropped, batch, fbDropped, wpc, wnext,
                            mpc, snapped, unreported>>
       \/ /\ pending >= DrainMax \/ events = 0
          /\ StartFlush(pending, wnext)
          /\ UNCHANGED events
    /\ WriterUnchanged

\* After the transaction, committed or not, the drops of the batch are reported.
ReportDrops ==
    /\ totalDropped' = totalDropped + fbDropped
    /\ fbDropped' = 0

\* Mutant: node and edge rows are replaced wholesale, those not in the batch too.
FlushTxWholesale ==
    /\ wpc = "commit"
    /\ pending' = 0
    /\ batch' = NoBatch
    /\ Return(wnext)
    /\ totals' = [totals EXCEPT ![sid] = batch.aggs]
    /\ flowBuckets' = [flowBuckets EXCEPT ![sid] =
                     [f \in Flows |-> @[f] + batch.buckets[f]]]
    /\ packetRows' = [packetRows EXCEPT ![sid] = @ + pending]
    /\ stored' = [stored EXCEPT ![sid] = snapped]
    /\ ReportDrops
    /\ UNCHANGED <<state, fileOf, memory, queue, wnext, session, todo, shown, ipc,
                   rpc, runs, faults, recorded, snapped, due, lossy, late, reused,
                   unreported>>

\* flushTx: one transaction.  Index rows are inserted, node and edge rows take
\* the cumulative value, bucket rows the sum.
FlushTx ==
    /\ wpc = "commit"
    /\ pending' = 0
    /\ batch' = NoBatch
    /\ Return(wnext)
    /\ totals' = [totals EXCEPT ![sid] =
                     [k \in Keys |-> IF k \in batch.keys THEN batch.aggs[k] ELSE @[k]]]
    /\ flowBuckets' = [flowBuckets EXCEPT ![sid] =
                     [f \in Flows |-> @[f] + batch.buckets[f]]]
    /\ packetRows' = [packetRows EXCEPT ![sid] = @ + pending]
    /\ stored' = [stored EXCEPT ![sid] = snapped]
    /\ ReportDrops
    /\ UNCHANGED <<state, fileOf, memory, queue, wnext, session, todo, shown, ipc,
                   rpc, runs, faults, recorded, snapped, due, lossy, late, reused,
                   unreported>>

\* The transaction rolls back; the error is logged, the batch and the pending
\* rows are forgotten all the same, the drops are not.
FlushTxFails ==
    /\ wpc = "commit"
    /\ Fault
    /\ pending' = 0
    /\ batch' = NoBatch
    /\ Return(wnext)
    /\ lossy' = IF batch = NoBatch THEN lossy ELSE lossy \cup {sid}
    /\ due' = IF pending = 0 THEN due ELSE [due EXCEPT ![sid] = @ - pending]
    /\ ReportDrops
    /\ UNCHANGED <<disk, memory, queue, wnext, session, todo, shown, ipc, rpc, runs,
                   recorded, snapped, stored, late, reused, unreported>>

-----------------------------------------------------------------------------
(* main: ending the session and the process.                               *)

MainUnchanged ==
    UNCHANGED <<queue, writer, session, todo, shown, ipc, rpc, runs, recorded,
                snapped, stored, due, lossy, late, reused, unreported>>

\* Mutant: EndCapture without its Flush.
IngestDoneWithoutFlush ==
    /\ mode = "pcap" /\ mpc = "ingest"
    /\ todo = {} /\ ipc = "idle"
    /\ mpc' = IF sid = 0 THEN "serve" ELSE "drop"
    /\ UNCHANGED <<disk, memory, faults>>
    /\ MainUnchanged

\* The whole file is processed: EndCapture, or straight on without a session.
IngestDone ==
    /\ mode = "pcap" /\ mpc = "ingest"
    /\ todo = {} /\ ipc = "idle"
    /\ mpc' = IF sid = 0 THEN "serve" ELSE "flush"
    /\ UNCHANGED <<disk, memory, faults>>
    /\ MainUnchanged

\* SIGINT or SIGTERM: cancel, then EndCapture unless this was a replay.
Signal ==
    /\ mpc = "serve"
    /\ mpc' = IF mode = "live" /\ sid # 0 THEN "flush" ELSE "shutdown"
    /\ UNCHANGED <<disk, memory, faults>>
    /\ MainUnchanged

\* EndCapture after its Flush: dropCapture.
DropCapture ==
    /\ mpc = "drop"
    /\ mpc' = "stamp"
    /\ aggs' = NoTotals
    /\ dirty' = {}
    /\ UNCHANGED <<disk, buckets, faults>>
    /\ MainUnchanged

AfterEnd == mpc' = IF mode = "pcap" THEN "serve" ELSE "shutdown"

\* EndCapture's UPDATE; when it fails the row stays open.
StampCapture ==
    /\ mpc = "stamp"
    /\ AfterEnd
    /\ \/ /\ state' = [state EXCEPT ![sid] = "complete"]
          /\ NoFault
       \/ /\ UNCHANGED state
          /\ Fault
    /\ UNCHANGED <<fileOf, totals, flowBuckets, packetRows, memory>>
    /\ MainUnchanged

\* The deferred db.Close, once srv.Shutdown has returned.
CloseStore ==
    /\ mpc = "shutdown"
    /\ mpc' = "closing"
    /\ UNCHANGED <<disk, memory, faults>>
    /\ MainUnchanged

\* Close has waited for the writer; main returns.
Exit ==
    /\ mpc = "closing"
    /\ wpc = "exited"
    /\ ProcessDies
    /\ NoFault

\* The process is killed, at any point.
Crash ==
    /\ mpc # "down"
    /\ Fault
    /\ ProcessDies

-----------------------------------------------------------------------------
(* The retention goroutine.  Ids grow with time, so the captures that ended *)
(* before the cutoff are those up to some id.  The session this process is  *)
(* still recording or closing is younger than any retention window; one it  *)
(* ingested at startup expires only long after its last flush.              *)

Quiescent == /\ events = 0 /\ pending = 0 /\ dirty = {} /\ buckets = NoBuckets
             /\ wpc = "select" /\ ipc # "send"

Expirable == {c \in Ids : /\ state[c] = "complete"
                          /\ c = sid => mode = "pcap" /\ Quiescent}

RetentionUnchanged ==
    UNCHANGED <<memory, queue, writer, session, mpc, todo, shown, ipc, runs,
                recorded, snapped, due, lossy, late, reused, unreported>>

\* DELETE FROM captures, which cascades to nodes and edges.
PruneCaptures ==
    /\ mpc \notin {"down", "boot", "closing"}
    /\ rpc = "idle"
    /\ \E cutoff \in Expirable :
          LET expired == {c \in Expirable : c <= cutoff} IN
          /\ state' = [c \in Ids |-> IF c \in expired THEN "none" ELSE state[c]]
          /\ fileOf' = [c \in Ids |-> IF c \in expired THEN NoFile ELSE fileOf[c]]
          /\ totals' = [c \in Ids |-> IF c \in expired THEN NoTotals ELSE totals[c]]
          /\ stored' = [c \in Ids |-> IF c \in expired THEN {} ELSE stored[c]]
    /\ rpc' = "buckets"
    /\ UNCHANGED <<flowBuckets, packetRows, faults>>
    /\ RetentionUnchanged

\* DELETE FROM flow_buckets WHERE capture_id NOT IN (...); its error is ignored.
SweepBuckets ==
    /\ rpc = "buckets"
    /\ \/ /\ flowBuckets' = [c \in Ids |-> IF Exists(c) THEN flowBuckets[c] ELSE NoBuckets]
          /\ NoFault
       \/ /\ UNCHANGED flowBuckets
          /\ Fault
    /\ rpc' = "rows"
    /\ UNCHANGED <<state, fileOf, totals, packetRows, stored>>
    /\ RetentionUnchanged

\* DELETE FROM packets WHERE capture_id NOT IN (...); its error is ignored.
SweepRows ==
    /\ rpc = "rows"
    /\ \/ /\ packetRows' = [c \in Ids |-> IF Exists(c) THEN packetRows[c] ELSE 0]
          /\ NoFault
       \/ /\ UNCHANGED packetRows
          /\ Fault
    /\ rpc' = "idle"
    /\ UNCHANGED <<state, fileOf, totals, flowBuckets, stored>>
    /\ RetentionUnchanged

-----------------------------------------------------------------------------
Writer == \/ WriterReceives
          \/ WriterTicks
          \/ WriterServesFlush
          \/ WriterSeesDone
          \/ WriterDrains
          \/ FlushTx
          \/ FlushTxFails

Main == \/ CacheHit
        \/ BeginCapture
        \/ BeginFails
        \/ IngestDone
        \/ DropCapture
        \/ StampCapture
        \/ CloseStore
        \/ Exit

Next == \/ \E n \in PacketEveryChoices :
              \/ Boot("live", NoFile, n)
              \/ \E f \in Files : Boot("pcap", f, n)
        \/ \E p \in Packets : Record(p)
        \/ SendRow
        \/ IngestReturns
        \/ Writer
        \/ Main
        \/ Signal
        \/ Crash
        \/ PruneCaptures
        \/ SweepBuckets
        \/ SweepRows

Spec == Init /\ [][Next]_vars

\* The goroutines run: main's own steps, the send and the writer are never
\* starved.  A select with several ready cases picks one at random, so a flush
\* request or Close that stays ready is taken (strong fairness); the ticker
\* keeps the writer flushing.  Boot, Signal, Crash, packets and faults are the
\* environment's.
Fairness == /\ WF_vars(Main)
            /\ WF_vars(SendRow)
            /\ WF_vars(WriterReceives \/ WriterDrains \/ FlushTx)
            /\ WF_vars(WriterTicks)
            /\ SF_vars(WriterServesFlush)
            /\ SF_vars(WriterSeesDone)

FairSpec == Spec /\ Fairness

-----------------------------------------------------------------------------
(* Properties.                                                             *)

BatchType == [keys : SUBSET Keys, aggs : [Keys -> Nat], buckets : [Flows -> Nat]]

\* Every variable stays in its type.
TypeOK ==
    /\ state \in [Ids -> {"none", "open", "complete"}]
    /\ fileOf \in [Ids -> Files \cup {NoFile}]
    /\ totals \in [Ids -> [Keys -> Nat]]
    /\ flowBuckets \in [Ids -> [Flows -> Nat]]
    /\ packetRows \in [Ids -> Nat]
    /\ aggs \in [Keys -> Nat]
    /\ dirty \subseteq Keys
    /\ buckets \in [Flows -> Nat]
    /\ events \in 0..QueueCap
    /\ sampleN \in Nat
    /\ dropped \in Nat
    /\ wpc \in {"select", "drain", "commit", "exited"}
    /\ wnext \in {"select", "reply", "exit"}
    /\ pending \in Nat
    /\ batch \in BatchType
    /\ fbDropped \in Nat
    /\ totalDropped \in Nat
    /\ mpc \in {"down", "boot", "ingest", "serve", "flush", "flushing", "drop",
               "stamp", "shutdown", "closing"}
    /\ mode \in {"live", "pcap"}
    /\ file \in Files \cup {NoFile}
    /\ mode = "pcap" => file \in Files
    /\ packetEvery \in Nat
    /\ cacheHit \in BOOLEAN
    /\ sid \in Ids \cup {0}
    /\ todo \subseteq Packets
    /\ shown \in [Keys -> Nat]
    /\ ipc \in {"idle", "send", "stopped"}
    /\ rpc \in {"idle", "buckets", "rows"}
    /\ runs \in Nat
    /\ faults \in Nat
    /\ recorded \in [Ids -> SUBSET Packets]
    /\ snapped \subseteq Packets
    /\ stored \in [Ids -> SUBSET Packets]
    /\ due \in [Ids -> Int]
    /\ lossy \subseteq Ids
    /\ late \subseteq Ids
    /\ reused \subseteq Ids
    /\ unreported \in Nat

\* The packets a session recorded for a bucket are, each exactly once, in the
\* stored bucket, in the flush in progress or in the aggregator's bucket; a
\* failed flush (writer.go flush clears what it could not write) may lose some,
\* and nothing is ever added twice.
BucketLedger ==
    (sid # 0 /\ ~cacheHit /\ Exists(sid) /\ sid \notin reused) =>
        \A f \in Flows :
            LET held == flowBuckets[sid][f] + batch.buckets[f] + buckets[f]
                seen == Cardinality(InFlow(recorded[sid], f))
            IN  /\ held <= seen
                /\ sid \notin lossy => held = seen

\* Every row PacketEvery selects, but for those of a failed flush, is stored,
\* pending, queued or about to be sent, or else it was dropped: then it is on its
\* way through a.dropped and the batch to the writer's total, or a flush that
\* found nothing else to write forgot it (writer.go flush).  In a replay, where
\* RecordPacketSync blocks, none is dropped.
RowsAddUp ==
    (sid # 0 /\ ~cacheHit /\ Exists(sid) /\ sid \notin reused) =>
        /\ packetRows[sid] + (pending + events) + (IF ipc = "send" THEN 1 ELSE 0)
              + totalDropped + (dropped + fbDropped + unreported) = due[sid]
        /\ mode = "pcap" => totalDropped + (dropped + fbDropped + unreported) = 0

\* A drain stops at drainMax rows.  When EndCapture of a replay returns, so when
\* its capture is stamped complete, what the queue and a batch held beyond that
\* is still to be written; Close leaves a row only if it is beyond two drains.
FewLeft ==
    mode = "pcap" =>
        /\ mpc \in {"drop", "stamp", "serve", "shutdown", "closing"} =>
              \/ pending + events = 0
              \/ pending + events + DrainMax <= QueueCap + BatchSize - 1
        /\ wpc = "exited" =>
              \/ events = 0
              \/ events + 2 * DrainMax <= QueueCap + BatchSize - 1

\* No index row goes missing uncounted, and few are late (store.go RecordPacket,
\* "dropped (counted)", and Close, which "flushes and shuts down").
RowLedger == RowsAddUp /\ FewLeft

\* flushTx is one transaction over one snapshot: at every instant, so after a
\* crash too, the node, edge and bucket tables of a capture count one and the
\* same set of packets, those of the last committed flush.
TablesAgree ==
    \A c \in Ids \ (lossy \cup late \cup reused) :
        Exists(c) =>
            /\ \A k \in Keys : totals[c][k] = Cardinality(InKey(stored[c], k))
            /\ \A f \in Flows : flowBuckets[c][f] = Cardinality(InFlow(stored[c], f))

\* EndCapture: a complete capture holds every packet recorded for it and, if it
\* came from a file, every packet of the file.
CompleteIsExact ==
    \A c \in Ids \ (lossy \cup late) :
        state[c] = "complete" =>
            /\ \A k \in Keys : totals[c][k] = Cardinality(InKey(recorded[c], k))
            /\ fileOf[c] # NoFile => recorded[c] = Content[fileOf[c]]

\* A stored total only grows while its capture exists, failed flushes included,
\* unless a packet was recorded after EndCapture had begun.
TotalsGrow ==
    [][\A c \in Ids : (Exists(c) /\ Exists(c)' /\ c \notin late') =>
          \A k \in Keys : totals'[c][k] >= totals[c][k]]_vars

\* EndCapture always returns: its flush request is answered whatever the writer
\* was doing, and while a live ingest goroutine goes on sending rows.
EndCaptureReturns == (mpc = "flush") ~> (mpc \in {"serve", "shutdown", "down"})

\* Close always returns: the writer sees done, drains, flushes and exits.
CloseReturns == (mpc = "shutdown") ~> (mpc = "down")

\* A queued index row does not wait for the next packet to reach the writer.
RowsReachWriter == (events > 0) ~> (events = 0)

-----------------------------------------------------------------------------
(* What a replay promises: the abstract PcapCache.                         *)

Serving == mpc \in {"serve", "shutdown", "closing"}

\* The refinement mapping.
CacheOf == [f \in Files |->
               IF FindCompletePcap(f) = {} THEN "absent"
               ELSE IF FindCompletePcap(f) \cap lossy = {} THEN "whole" ELSE "part"]
PhaseOf == IF mode # "pcap" \/ mpc = "down" THEN "closed"
           ELSE IF Serving THEN "open" ELSE "loading"
CountsOf == IF mode = "pcap" /\ Serving THEN shown ELSE NoTotals
WholeOf == [f \in Files |-> [k \in Keys |-> Cardinality(InKey(Content[f], k))]]

Cache == INSTANCE PcapCache WITH
    Whole <- WholeOf, NoCounts <- NoTotals,
    cache <- CacheOf, phase <- PhaseOf, viewed <- file, counts <- CountsOf

\* A process that replays a file shows every packet of it, whether it parsed the
\* file or loaded a capture another process completed, possibly after crashes,
\* and short of a failed flush a cached capture is never a partial one.
ImplementsPcapCache == Cache!Spec

-----------------------------------------------------------------------------
(* Claims of the sources that the code does not keep.                      *)

\* store.go:190-192: EndCapture "flushes everything recorded for the session"
\* and complete=true "marks a fully-ingested pcap (the cache-hit criterion)".
CompleteIsFullyIngested ==
    \A c \in Ids :
        (state[c] = "complete" /\ fileOf[c] # NoFile) =>
            \A k \in Keys : totals[c][k] = Cardinality(InKey(Content[fileOf[c]], k))

\* writer.go:52-53: node and edge aggregates "are cumulative (flushed
\* absolutely)", so what is stored for a capture only grows.
StoredTotalsAreCumulative ==
    [][\A c \in Ids : (Exists(c) /\ Exists(c)') =>
          \A k \in Keys : totals'[c][k] >= totals[c][k]]_vars
=============================================================================

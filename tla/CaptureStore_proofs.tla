------------------------ MODULE CaptureStore_proofs ------------------------
(***************************************************************************)
(* Proofs about CaptureStore for every value of its constants.  The        *)
(* inductive invariant is built in layers, each inductive relative to the  *)
(* ones before it:                                                         *)
(*                                                                         *)
(*   TypeOK and NoSession   types; without an open session memory is empty *)
(*   Control                which steps of main, the writer and ingest can *)
(*                          coexist, and what row the session has          *)
(*   Ledgers                where each bucket increment and index row is   *)
(*   Drains                 how many rows of a replay wait for the writer  *)
(*   Aggregates             what the aggregator, the batch in progress and *)
(*                          the stored tables count of the session         *)
(*                                                                         *)
(* The refinement of PcapCache, at the end, rests on the same invariant.   *)
(***************************************************************************)
EXTENDS CaptureStore, FiniteSetTheorems, TLAPS

-----------------------------------------------------------------------------
(* The inductive invariant.                                                *)

\* A session this process began, not one it loaded from the cache.
Own == sid # 0 /\ ~cacheHit

\* Nothing is recorded, queued or being written.
Idle ==
    /\ aggs = NoTotals /\ dirty = {} /\ buckets = NoBuckets
    /\ events = 0 /\ pending = 0
    /\ dropped = 0 /\ fbDropped = 0 /\ totalDropped = 0 /\ unreported = 0
    /\ ipc # "send" /\ wpc # "commit"

\* A process without a session of its own records nothing.
NoSession == ~Own => Idle

\* A live session that has not ended, or a replay still ingesting or ending.
Recording == \/ mode = "live" /\ mpc \in {"serve", "flush", "flushing", "drop", "stamp"}
             \/ mode = "pcap" /\ mpc \in {"ingest", "flush", "flushing", "drop", "stamp"}

\* The phases of main: when a session can be open and what is left of the file.
MainControl ==
    /\ mpc \in {"down", "boot"} =>
          sid = 0 /\ ~cacheHit /\ snapped = {} /\ todo = {} /\ ipc = "idle"
    /\ mpc \in {"flush", "flushing", "drop", "stamp"} => Own
    /\ cacheHit => mode = "pcap" /\ mpc \in {"serve", "shutdown", "closing"}
    /\ mode = "live" => file = NoFile
    /\ mode = "pcap" => ipc # "stopped"
    /\ (mode = "pcap" /\ mpc # "ingest") => ipc = "idle"
    /\ (mode = "live") => mpc # "ingest"

\* The writer holds a batch only inside flushTx, answers a flush request only
\* while EndCapture waits for it, and exits only when Close does.
WriterControl ==
    /\ wpc # "commit" => batch = NoBatch /\ fbDropped = 0
    /\ mpc = "flushing" <=> (wpc \in {"drain", "commit"} /\ wnext = "reply")
    /\ wpc = "drain" => wnext \in {"reply", "exit"}
    /\ wpc \in {"drain", "commit"} /\ wnext = "exit" => mpc = "closing"
    /\ wpc = "exited" => mpc = "closing"

\* The session's row: open while recording, gone only once nothing is left to
\* write to it; and a capture without a row has no totals.
RowControl ==
    /\ (Own /\ Recording) => state[sid] = "open"
    /\ (Own /\ Exists(sid)) => fileOf[sid] = file
    /\ (Own /\ ~Exists(sid)) =>
          /\ mode = "pcap" /\ mpc \in {"serve", "shutdown", "closing"}
          /\ dirty = {} /\ buckets = NoBuckets /\ events = 0 /\ pending = 0
          /\ wpc # "commit"
    /\ (Own /\ mode = "pcap") => recorded[sid] = Content[file] \ todo
    /\ (Own /\ mode = "pcap" /\ mpc # "ingest") => todo = {}
    /\ mode = "pcap" => todo \subseteq Content[file]
    /\ \A c \in Ids : ~Exists(c) => totals[c] = NoTotals /\ stored[c] = {}


\* What was recorded since the last snapshot is in the aggregator's buckets.
BucketsSinceSnapshot ==
    Own => /\ snapped \subseteq recorded[sid]
           /\ \A f \in Flows :
                 buckets[f] + Cardinality(InFlow(snapped, f))
                    = Cardinality(InFlow(recorded[sid], f))

Ledgers == BucketsSinceSnapshot /\ BucketLedger /\ RowsAddUp

\* At most n rows are too few for a drain to leave d of them or more.
Few(n, d) == n = 0 \/ n + d <= QueueCap + BatchSize - 1

\* Between two receives the writer holds less than a batch, so a drain starts
\* with at most that and a full queue, takes drainMax of it or all, and in a
\* replay nothing is added afterwards.
Drains ==
    /\ wpc = "select" => pending <= BatchSize - 1
    /\ mode = "pcap" =>
          /\ (mpc = "flushing" /\ wpc = "drain") => pending <= QueueCap + BatchSize - 1 - events
          /\ (mpc = "flushing" /\ wpc = "commit") => Few(events, DrainMax)
          /\ mpc \in {"drop", "stamp", "serve", "shutdown", "closing"} =>
                Few(pending + events, DrainMax)
          /\ (mpc = "closing" /\ wpc = "commit" /\ wnext = "exit") => Few(events, 2 * DrainMax)
          /\ wpc = "exited" => Few(events, 2 * DrainMax)

\* The aggregator still has the session's entries: dropCapture has not run.
AggsLive == \/ mode = "live" /\ mpc \in {"serve", "flush", "flushing", "drop"}
            \/ mode = "pcap" /\ mpc \in {"ingest", "flush", "flushing", "drop"}

\* EndCapture's flush has taken its snapshot, or it is long over.
AfterFlush == \/ mpc = "flushing" /\ wpc = "commit"
              \/ mpc \in {"drop", "stamp", "shutdown", "closing"}
              \/ mode = "pcap" /\ mpc = "serve"

\* The aggregator is exact, and knows which entries changed since the snapshot.
LiveAggregates ==
    (Own /\ AggsLive) =>
        /\ \A k \in Keys : aggs[k] = Cardinality(InKey(recorded[sid], k))
        /\ \A p \in recorded[sid] \ snapped : KeysOf[p] \subseteq dirty

\* From EndCapture's snapshot on, unless a packet came late, nothing is left in
\* the aggregator, and only that flush has anything to write.
FlushedAggregates ==
    (Own /\ AfterFlush /\ sid \notin late) =>
        /\ snapped = recorded[sid] /\ dirty = {} /\ buckets = NoBuckets
        /\ (wpc = "commit" /\ mpc # "flushing") => batch = NoBatch

\* The batch holds the snapshot's counts; what it leaves out is stored already.
BatchAggregates ==
    (Own /\ sid \notin late /\ wpc = "commit") =>
        /\ \A k \in batch.keys : batch.aggs[k] = Cardinality(InKey(snapped, k))
        /\ sid \notin lossy =>
              /\ stored[sid] \subseteq snapped
              /\ \A p \in snapped \ stored[sid] : KeysOf[p] \subseteq batch.keys
              /\ batch = NoBatch => stored[sid] = snapped

\* Between flushes the last snapshot is stored.
StoredAggregates ==
    /\ (Own /\ sid \notin late \cup lossy /\ wpc # "commit" /\ Exists(sid))
          => stored[sid] = snapped
    /\ (Own /\ sid \notin late)
          => \A k \in Keys : totals[sid][k] <= Cardinality(InKey(snapped, k))

\* The two halves of TablesAgree; that a row was reused matters to flows only.
KeysAgree ==
    \A c \in Ids \ (lossy \cup late) :
        Exists(c) => \A k \in Keys : totals[c][k] = Cardinality(InKey(stored[c], k))
FlowsAgree ==
    \A c \in Ids \ (lossy \cup late \cup reused) :
        Exists(c) => \A f \in Flows :
                        flowBuckets[c][f] = Cardinality(InFlow(stored[c], f))

\* A complete capture stores all that was recorded for it.
CompleteIsStored ==
    \A c \in Ids \ (lossy \cup late) :
        state[c] = "complete" =>
            /\ stored[c] = recorded[c]
            /\ fileOf[c] # NoFile => recorded[c] = Content[fileOf[c]]

Aggregates ==
    /\ LiveAggregates
    /\ FlushedAggregates
    /\ BatchAggregates
    /\ StoredAggregates
    /\ KeysAgree
    /\ FlowsAgree
    /\ CompleteIsStored

-----------------------------------------------------------------------------
(* Layer 1: types and control.                                             *)

Control == NoSession /\ MainControl /\ WriterControl

USE DEF disk, memory, queue, writer, session, history, Fault, NoFault

LEMMA Constants ==
    NoTotals \in [Keys -> Nat] /\ NoBuckets \in [Flows -> Nat] /\ NoBatch \in BatchType
  BY DEF NoTotals, NoBuckets, NoBatch, BatchType

LEMMA BatchFields ==
    TypeOK => /\ batch.keys \subseteq Keys
              /\ batch.aggs \in [Keys -> Nat]
              /\ batch.buckets \in [Flows -> Nat]
  BY DEF TypeOK, BatchType

\* What the head of flush leaves in the variables it writes.
LEMMA StartFlushType ==
    ASSUME TypeOK, Control, NEW n \in Nat, NEW next \in {"select", "reply", "exit"},
           StartFlush(n, next), n # 0 => Own
    PROVE  /\ dirty' \subseteq Keys
           /\ buckets' \in [Flows -> Nat]
           /\ wpc' \in {"select", "commit", "exited"}
           /\ wnext' \in {"select", "reply", "exit"}
           /\ pending' \in Nat
           /\ batch' \in BatchType
           /\ dropped' \in Nat /\ fbDropped' \in Nat /\ unreported' \in Nat
           /\ mpc' \in {mpc, "drop"}
           /\ snapped' \subseteq Packets
<1>1. CASE n = 0 /\ dirty = {} /\ buckets = NoBuckets
  BY <1>1 DEF StartFlush, TypeOK, Return, After
<1>2. CASE ~(n = 0 /\ dirty = {} /\ buckets = NoBuckets)
  <2>1. sid \in Ids
    BY <1>2 DEF TypeOK, Control, NoSession, Own, Idle
  <2>2. recorded[sid] \subseteq Packets
    BY <2>1 DEF TypeOK
  <2>3. batch' \in BatchType
    <3>1. batch' = [keys |-> dirty, aggs |-> [k \in Keys |-> IF k \in dirty THEN aggs[k] ELSE 0],
                    buckets |-> buckets]
      BY <1>2 DEF StartFlush
    <3>2. [k \in Keys |-> IF k \in dirty THEN aggs[k] ELSE 0] \in [Keys -> Nat]
      BY DEF TypeOK
    <3> QED
      BY <3>1, <3>2 DEF TypeOK, BatchType
  <2> QED
    BY <1>2, <2>2, <2>3, Constants DEF StartFlush, TypeOK
<1> QED
  BY <1>1, <1>2

LEMMA InitControl == Init => TypeOK /\ Control
<1> SUFFICES ASSUME Init PROVE TypeOK /\ Control
  OBVIOUS
<1>1. TypeOK
  <2>1. /\ state \in [Ids -> {"none", "open", "complete"}]
        /\ fileOf \in [Ids -> Files \cup {NoFile}]
        /\ totals \in [Ids -> [Keys -> Nat]]
        /\ flowBuckets \in [Ids -> [Flows -> Nat]]
        /\ packetRows \in [Ids -> Nat]
    BY Constants DEF Init
  <2>2. /\ recorded \in [Ids -> SUBSET Packets]
        /\ stored \in [Ids -> SUBSET Packets]
        /\ due \in [Ids -> Int]
    BY DEF Init
  <2>3. events \in 0..QueueCap
    BY ConstantsAssumption DEF Init
  <2> QED
    BY <2>1, <2>2, <2>3, Constants DEF Init, TypeOK
<1>2. Control
  BY DEF Init, Control, NoSession, MainControl, WriterControl, Own, Idle
<1> QED
  BY <1>1, <1>2

\* Every step keeps every variable in its type.
LEMMA NextType == TypeOK /\ Control /\ [Next]_vars => TypeOK'
<1> SUFFICES ASSUME TypeOK, Control, [Next]_vars
             PROVE  TypeOK'
  OBVIOUS
<1> USE ConstantsAssumption, Constants
<1>1. ASSUME NEW m \in {"live", "pcap"}, NEW f \in Files \cup {NoFile},
             NEW n \in PacketEveryChoices, Boot(m, f, n), m = "pcap" => f \in Files
      PROVE  TypeOK'
  BY <1>1 DEF TypeOK, Boot
<1>2. ASSUME NEW p \in Packets, Record(p) PROVE TypeOK'
  <2>1. shown' \in [Keys -> Nat] /\ todo' \subseteq Packets
    BY <1>2 DEF TypeOK, Record
  <2>2. CASE sid = 0
    <3>1. /\ UNCHANGED <<disk, memory, queue, writer, session, mpc, ipc, rpc, runs, faults>>
          /\ UNCHANGED history
      BY <1>2, <2>2 DEF Record
    <3> QED
      BY <2>1, <3>1 DEF TypeOK
  <2>3. CASE sid # 0
    <3>1. aggs' \in [Keys -> Nat]
      <4>1. aggs \in [Keys -> Nat]
        BY DEF TypeOK
      <4> QED
        BY <1>2, <2>3, <4>1 DEF Record, Apply
    <3>2. dirty' \subseteq Keys
      BY <1>2, <2>3 DEF TypeOK, Record, Apply
    <3>3. buckets' \in [Flows -> Nat]
      <4>1. buckets \in [Flows -> Nat]
        BY DEF TypeOK
      <4> QED
        BY <1>2, <2>3, <4>1 DEF Record, Apply
    <3>4. sampleN' \in Nat
      BY <1>2, <2>3 DEF TypeOK, Record
    <3>5. recorded' \in [Ids -> SUBSET Packets]
      <4>1. recorded \in [Ids -> SUBSET Packets]
        BY DEF TypeOK
      <4> QED
        BY <1>2, <2>3, <4>1 DEF Record
    <3>6. due' \in [Ids -> Int]
      BY <1>2, <2>3 DEF TypeOK, Record
    <3>7. late' \subseteq Ids
      BY <1>2, <2>3 DEF TypeOK, Record
    <3> QED
      BY <1>2, <2>1, <2>3, <3>1, <3>2, <3>3, <3>4, <3>5, <3>6, <3>7 DEF TypeOK, Record
  <2> QED
    BY <2>2, <2>3
<1>3. ASSUME SendRow PROVE TypeOK'
  BY <1>3 DEF TypeOK, SendRow
<1>4. ASSUME IngestReturns PROVE TypeOK'
  BY <1>4 DEF TypeOK, IngestReturns
<1>5. ASSUME WriterReceives PROVE TypeOK'
  <2>1. Own /\ events - 1 \in 0..QueueCap /\ pending + 1 \in Nat
    BY <1>5 DEF TypeOK, Control, NoSession, Idle, WriterReceives
  <2>2. CASE pending + 1 >= BatchSize
    <3>1. StartFlush(pending + 1, "select")
      BY <1>5, <2>2 DEF TypeOK, WriterReceives
    <3> QED
      BY <1>5, <2>1, <3>1, StartFlushType DEF TypeOK, WriterReceives, WriterUnchanged
  <2>3. CASE ~(pending + 1 >= BatchSize)
    BY <1>5, <2>1, <2>3 DEF TypeOK, WriterReceives, WriterUnchanged
  <2> QED
    BY <2>2, <2>3
<1>6. ASSUME WriterTicks PROVE TypeOK'
  <2>1. StartFlush(pending, "select") /\ (pending # 0 => Own)
    BY <1>6 DEF TypeOK, WriterTicks, Control, NoSession, Idle
  <2> QED
    BY <1>6, <2>1, StartFlushType DEF TypeOK, WriterTicks, WriterUnchanged
<1>7. ASSUME WriterServesFlush PROVE TypeOK'
  BY <1>7 DEF TypeOK, WriterServesFlush, WriterUnchanged
<1>8. ASSUME WriterSeesDone PROVE TypeOK'
  BY <1>8 DEF TypeOK, WriterSeesDone, WriterUnchanged
<1>9. ASSUME WriterDrains PROVE TypeOK'
  <2>1. CASE pending < DrainMax /\ events > 0 /\ events' = events - 1
    BY <1>9, <2>1 DEF TypeOK, WriterDrains, WriterUnchanged
  <2>2. CASE events' = events /\ StartFlush(pending, wnext)
    <3>1. pending # 0 => Own
      BY DEF TypeOK, Control, NoSession, Idle
    <3> QED
      BY <1>9, <2>2, <3>1, StartFlushType DEF TypeOK, WriterDrains, WriterUnchanged
  <2> QED
    BY <1>9, <2>1, <2>2 DEF TypeOK, WriterDrains
<1>10. ASSUME FlushTx PROVE TypeOK'
  <2>1. [k \in Keys |-> IF k \in batch.keys THEN batch.aggs[k] ELSE totals[sid][k]]
           \in [Keys -> Nat] \/ sid \notin Ids
    BY BatchFields DEF TypeOK
  <2>2. totals' \in [Ids -> [Keys -> Nat]]
    BY <1>10, <2>1 DEF TypeOK, FlushTx
  <2>3. [f \in Flows |-> flowBuckets[sid][f] + batch.buckets[f]] \in [Flows -> Nat] \/ sid \notin Ids
    BY BatchFields DEF TypeOK
  <2>4. flowBuckets' \in [Ids -> [Flows -> Nat]]
    BY <1>10, <2>3 DEF TypeOK, FlushTx
  <2>5. packetRows' \in [Ids -> Nat]
    <3>1. packetRows \in [Ids -> Nat] /\ (sid \in Ids => packetRows[sid] + pending \in Nat)
      BY DEF TypeOK
    <3>2. packetRows' = [packetRows EXCEPT ![sid] = packetRows[sid] + pending]
      BY <1>10 DEF FlushTx
    <3> QED
      BY <3>1, <3>2
  <2>6. stored' \in [Ids -> SUBSET Packets]
    BY <1>10 DEF TypeOK, FlushTx
  <2> QED
    BY <1>10, <2>2, <2>4, <2>5, <2>6 DEF TypeOK, FlushTx, ReportDrops, Return, After
<1>11. ASSUME FlushTxFails PROVE TypeOK'
  <2>1. sid \in Ids
    BY <1>11 DEF TypeOK, FlushTxFails, Control, NoSession, Own, Idle
  <2>2. lossy' \subseteq Ids
    BY <1>11, <2>1 DEF TypeOK, FlushTxFails
  <2>3. due' \in [Ids -> Int]
    <3>1. due[sid] - pending \in Int
      BY <2>1 DEF TypeOK
    <3> QED
      BY <1>11, <3>1 DEF TypeOK, FlushTxFails
  <2> QED
    BY <1>11, <2>2, <2>3 DEF TypeOK, FlushTxFails, ReportDrops, Return, After
<1>12. ASSUME CacheHit PROVE TypeOK'
  BY <1>12 DEF TypeOK, CacheHit, FindCompletePcap, LoadAggregates
<1>13. ASSUME BeginCapture PROVE TypeOK'
  <2>1. todo' \subseteq Packets /\ mpc' \in {"ingest", "serve"} /\ faults' \in Nat
    BY <1>13 DEF TypeOK, BeginCapture, AfterBegin, ParseNeeded
  <2>2. PICK c \in Ids :
           /\ state' = [state EXCEPT ![c] = "open"]
           /\ fileOf' = [fileOf EXCEPT ![c] = file]
           /\ sid' = c
           /\ recorded' = [recorded EXCEPT ![c] = {}]
           /\ stored' = [stored EXCEPT ![c] = {}]
           /\ due' = [due EXCEPT ![c] = 0]
           /\ lossy' = lossy \ {c}
           /\ late' = late \ {c}
           /\ reused' \in {reused \cup {c}, reused \ {c}}
    BY <1>13 DEF TypeOK, BeginCapture
  <2> QED
    BY <1>13, <2>1, <2>2 DEF TypeOK, BeginCapture
<1>14. ASSUME BeginFails PROVE TypeOK'
  BY <1>14 DEF TypeOK, BeginFails, ParseNeeded, AfterBegin
<1>15. ASSUME IngestDone PROVE TypeOK'
  BY <1>15 DEF TypeOK, IngestDone, MainUnchanged
<1>16. ASSUME Signal PROVE TypeOK'
  BY <1>16 DEF TypeOK, Signal, MainUnchanged
<1>17. ASSUME DropCapture PROVE TypeOK'
  BY <1>17 DEF TypeOK, DropCapture, MainUnchanged
<1>18. ASSUME StampCapture PROVE TypeOK'
  <2>1. state' \in [Ids -> {"none", "open", "complete"}]
    BY <1>18 DEF TypeOK, StampCapture
  <2> QED
    BY <1>18, <2>1 DEF TypeOK, StampCapture, MainUnchanged, AfterEnd
<1>19. ASSUME CloseStore PROVE TypeOK'
  BY <1>19 DEF TypeOK, CloseStore, MainUnchanged
<1>20. ASSUME ProcessDies, faults' \in Nat PROVE TypeOK'
  <2>1. /\ UNCHANGED <<disk, runs, recorded, stored, due, lossy, late, reused>>
        /\ aggs' = NoTotals /\ dirty' = {} /\ buckets' = NoBuckets
        /\ events' = 0 /\ sampleN' = 0 /\ dropped' = 0
        /\ wpc' = "select" /\ wnext' = "select" /\ pending' = 0 /\ batch' = NoBatch
        /\ fbDropped' = 0 /\ totalDropped' = 0 /\ unreported' = 0
        /\ ipc' = "idle" /\ rpc' = "idle" /\ snapped' = {} /\ mpc' = "down"
        /\ mode' = "live" /\ file' = NoFile /\ packetEvery' = 0 /\ cacheHit' = FALSE
        /\ sid' = 0 /\ todo' = {} /\ shown' = NoTotals
    BY <1>20 DEF ProcessDies, FreshMemory
  <2>2. events' \in 0..QueueCap /\ sid' \in Ids \cup {0} /\ snapped' \subseteq Packets
    BY <2>1
  <2> QED
    BY <1>20, <2>1, <2>2 DEF TypeOK
<1>21. ASSUME PruneCaptures PROVE TypeOK'
  BY <1>21 DEF TypeOK, PruneCaptures, RetentionUnchanged
<1>22. ASSUME SweepBuckets PROVE TypeOK'
  <2>1. flowBuckets' \in [Ids -> [Flows -> Nat]]
    BY <1>22 DEF TypeOK, SweepBuckets
  <2> QED
    BY <1>22, <2>1 DEF TypeOK, SweepBuckets, RetentionUnchanged
<1>23. ASSUME SweepRows PROVE TypeOK'
  <2>1. packetRows' \in [Ids -> Nat]
    <3>1. packetRows \in [Ids -> Nat]
      BY DEF TypeOK
    <3> QED
      BY <1>23, <3>1 DEF SweepRows
  <2> QED
    BY <1>23, <2>1 DEF TypeOK, SweepRows, RetentionUnchanged
<1>24. ASSUME UNCHANGED vars PROVE TypeOK'
  BY <1>24 DEF TypeOK, vars
<1>25. ASSUME Exit \/ Crash PROVE TypeOK'
  BY <1>20, <1>25 DEF TypeOK, Exit, Crash
<1> QED
  BY <1>1, <1>2, <1>3, <1>4, <1>5, <1>6, <1>7, <1>8, <1>9, <1>10, <1>11, <1>12,
     <1>13, <1>14, <1>15, <1>16, <1>17, <1>18, <1>19, <1>21, <1>22, <1>23,
     <1>24, <1>25 DEF Next, Writer, Main

\* Every step keeps main, the writer and ingest in step with each other.
LEMMA NextControl == TypeOK /\ Control /\ [Next]_vars => Control'
<1> SUFFICES ASSUME TypeOK, Control, [Next]_vars
             PROVE  Control'
  OBVIOUS
<1> USE DEF TypeOK, Control, NoSession, MainControl, WriterControl, Own, Idle
<1>1. ASSUME NEW m \in {"live", "pcap"}, NEW f \in Files \cup {NoFile},
             NEW n \in PacketEveryChoices, Boot(m, f, n), m = "live" => f = NoFile
      PROVE  Control'
  BY <1>1 DEF Boot
<1>2. ASSUME NEW p \in Packets, Record(p) PROVE Control'
  BY <1>2 DEF Record, Ingesting
<1>3. ASSUME SendRow PROVE Control'
  BY <1>3 DEF SendRow
<1>4. ASSUME IngestReturns PROVE Control'
  BY <1>4 DEF IngestReturns
<1>5. ASSUME WriterReceives PROVE Control'
  BY <1>5 DEF WriterReceives, WriterUnchanged, StartFlush, Return, After
<1>6. ASSUME WriterTicks PROVE Control'
  BY <1>6 DEF WriterTicks, WriterUnchanged, StartFlush, Return, After
<1>7. ASSUME WriterServesFlush PROVE Control'
  BY <1>7 DEF WriterServesFlush, WriterUnchanged
<1>8. ASSUME WriterSeesDone PROVE Control'
  BY <1>8 DEF WriterSeesDone, WriterUnchanged
<1>9. ASSUME WriterDrains PROVE Control'
  BY <1>9 DEF WriterDrains, WriterUnchanged, StartFlush, Return, After
<1>10. ASSUME FlushTx PROVE Control'
  BY <1>10 DEF FlushTx, ReportDrops, Return, After
<1>11. ASSUME FlushTxFails PROVE Control'
  BY <1>11 DEF FlushTxFails, ReportDrops, Return, After
<1>12. ASSUME CacheHit PROVE Control'
  BY <1>12 DEF CacheHit, FindCompletePcap
<1>13. ASSUME BeginCapture PROVE Control'
  BY <1>13 DEF BeginCapture, AfterBegin, Ids
<1>14. ASSUME BeginFails PROVE Control'
  BY <1>14 DEF BeginFails, AfterBegin
<1>15. ASSUME IngestDone PROVE Control'
  BY <1>15 DEF IngestDone, MainUnchanged
<1>16. ASSUME Signal PROVE Control'
  BY <1>16 DEF Signal, MainUnchanged
<1>17. ASSUME DropCapture PROVE Control'
  BY <1>17 DEF DropCapture, MainUnchanged
<1>18. ASSUME StampCapture PROVE Control'
  BY <1>18 DEF StampCapture, MainUnchanged, AfterEnd
<1>19. ASSUME CloseStore PROVE Control'
  BY <1>19 DEF CloseStore, MainUnchanged
<1>20. ASSUME Exit \/ Crash PROVE Control'
  BY <1>20 DEF Exit, Crash, ProcessDies, FreshMemory
<1>21. ASSUME PruneCaptures PROVE Control'
  BY <1>21 DEF PruneCaptures, RetentionUnchanged
<1>22. ASSUME SweepBuckets PROVE Control'
  BY <1>22 DEF SweepBuckets, RetentionUnchanged
<1>23. ASSUME SweepRows PROVE Control'
  BY <1>23 DEF SweepRows, RetentionUnchanged
<1>24. ASSUME UNCHANGED vars PROVE Control'
  BY <1>24 DEF vars
<1> HIDE DEF Control
<1> QED
  BY <1>1, <1>2, <1>3, <1>4, <1>5, <1>6, <1>7, <1>8, <1>9, <1>10, <1>11, <1>12,
     <1>13, <1>14, <1>15, <1>16, <1>17, <1>18, <1>19, <1>20, <1>21, <1>22, <1>23,
     <1>24 DEF Next, Writer, Main

\* Type correctness: nothing the program does takes a variable out of its type,
\* whatever the packets, capacities, faults and processes.
THEOREM TypeCorrect == Spec => []TypeOK
<1>1. TypeOK /\ Control /\ [Next]_vars => TypeOK' /\ Control'
  BY NextType, NextControl
<1> QED
  BY <1>1, InitControl, PTL DEF Spec

-----------------------------------------------------------------------------
(* Layer 2: the session's row.                                             *)

LEMMA InitRow == Init => RowControl
  BY DEF Init, RowControl, Own, Exists

\* Every step keeps the session's row and main's phase in step.
LEMMA NextRow == TypeOK /\ Control /\ RowControl /\ [Next]_vars => RowControl'
<1> SUFFICES ASSUME TypeOK, Control, RowControl, [Next]_vars
             PROVE  RowControl'
  OBVIOUS
<1> USE DEF Control, NoSession, MainControl, WriterControl, RowControl, Own, Idle,
            Exists, Recording
<1>1. ASSUME NEW m \in {"live", "pcap"}, NEW f \in Files \cup {NoFile},
             NEW n \in PacketEveryChoices, Boot(m, f, n)
      PROVE  RowControl'
  BY <1>1 DEF Boot, TypeOK
<1>2. ASSUME NEW p \in Packets, Record(p) PROVE RowControl'
  BY <1>2 DEF Record, Ingesting, Apply, TypeOK
<1>3. ASSUME SendRow PROVE RowControl'
  BY <1>3 DEF SendRow
<1>4. ASSUME IngestReturns PROVE RowControl'
  BY <1>4 DEF IngestReturns
<1>5. ASSUME WriterReceives PROVE RowControl'
  BY <1>5 DEF WriterReceives, WriterUnchanged, StartFlush, Return, After
<1>6. ASSUME WriterTicks PROVE RowControl'
  BY <1>6 DEF WriterTicks, WriterUnchanged, StartFlush, Return, After
<1>7. ASSUME WriterServesFlush PROVE RowControl'
  BY <1>7 DEF WriterServesFlush, WriterUnchanged
<1>8. ASSUME WriterSeesDone PROVE RowControl'
  BY <1>8 DEF WriterSeesDone, WriterUnchanged
<1>9. ASSUME WriterDrains PROVE RowControl'
  BY <1>9 DEF WriterDrains, WriterUnchanged, StartFlush, Return, After
<1>10. ASSUME FlushTx PROVE RowControl'
  BY <1>10 DEF FlushTx, ReportDrops, Return, After, TypeOK
<1>11. ASSUME FlushTxFails PROVE RowControl'
  BY <1>11 DEF FlushTxFails, ReportDrops, Return, After
<1>12. ASSUME CacheHit PROVE RowControl'
  BY <1>12 DEF CacheHit, FindCompletePcap
<1>13. ASSUME BeginCapture PROVE RowControl'
  BY <1>13 DEF BeginCapture, AfterBegin, TypeOK
<1>14. ASSUME BeginFails PROVE RowControl'
  BY <1>14 DEF BeginFails, AfterBegin
<1>15. ASSUME IngestDone PROVE RowControl'
  BY <1>15 DEF IngestDone, MainUnchanged
<1>16. ASSUME Signal PROVE RowControl'
  BY <1>16 DEF Signal, MainUnchanged
<1>17. ASSUME DropCapture PROVE RowControl'
  BY <1>17 DEF DropCapture, MainUnchanged
<1>18. ASSUME StampCapture PROVE RowControl'
  BY <1>18 DEF StampCapture, MainUnchanged, AfterEnd, TypeOK
<1>19. ASSUME CloseStore PROVE RowControl'
  BY <1>19 DEF CloseStore, MainUnchanged
<1>20. ASSUME Exit \/ Crash PROVE RowControl'
  BY <1>20 DEF Exit, Crash, ProcessDies, FreshMemory
<1>21. ASSUME PruneCaptures PROVE RowControl'
  BY <1>21 DEF PruneCaptures, RetentionUnchanged, Expirable, Quiescent, TypeOK
<1>22. ASSUME SweepBuckets PROVE RowControl'
  BY <1>22 DEF SweepBuckets, RetentionUnchanged
<1>23. ASSUME SweepRows PROVE RowControl'
  BY <1>23 DEF SweepRows, RetentionUnchanged
<1>24. ASSUME UNCHANGED vars PROVE RowControl'
  BY <1>24 DEF vars
<1> HIDE DEF RowControl
<1> QED
  BY <1>1, <1>2, <1>3, <1>4, <1>5, <1>6, <1>7, <1>8, <1>9, <1>10, <1>11, <1>12,
     <1>13, <1>14, <1>15, <1>16, <1>17, <1>18, <1>19, <1>20, <1>21, <1>22, <1>23,
     <1>24 DEF Next, Writer, Main

-----------------------------------------------------------------------------
(* Counting packets.                                                       *)

LEMMA CountType ==
    ASSUME NEW S \in SUBSET Packets
    PROVE  /\ \A k \in Keys : Cardinality(InKey(S, k)) \in Nat
           /\ \A f \in Flows : Cardinality(InFlow(S, f)) \in Nat
<1>1. \A T \in SUBSET Packets : Cardinality(T) \in Nat
  BY ConstantsAssumption, FS_Subset, FS_CardinalityType
<1> QED
  BY <1>1 DEF InKey, InFlow

LEMMA CountEmpty ==
    /\ \A k \in Keys : Cardinality(InKey({}, k)) = 0
    /\ \A f \in Flows : Cardinality(InFlow({}, f)) = 0
<1>1. /\ \A k \in Keys : InKey({}, k) = {}
      /\ \A f \in Flows : InFlow({}, f) = {}
  BY DEF InKey, InFlow
<1> QED
  BY <1>1, FS_EmptySet

LEMMA CountFlowAdd ==
    ASSUME NEW S \in SUBSET Packets, NEW p \in Packets \ S, NEW f \in Flows
    PROVE  Cardinality(InFlow(S \cup {p}, f))
              = Cardinality(InFlow(S, f)) + (IF FlowOf[p] = f THEN 1 ELSE 0)
<1>1. IsFiniteSet(InFlow(S, f)) /\ Cardinality(InFlow(S, f)) \in Nat
  BY ConstantsAssumption, FS_Subset, CountType DEF InFlow
<1>2. CASE FlowOf[p] = f
  <2>1. InFlow(S \cup {p}, f) = InFlow(S, f) \cup {p} /\ p \notin InFlow(S, f)
    BY <1>2 DEF InFlow
  <2> QED
    BY <1>1, <1>2, <2>1, FS_AddElement
<1>3. CASE FlowOf[p] # f
  <2>1. InFlow(S \cup {p}, f) = InFlow(S, f)
    BY <1>3 DEF InFlow
  <2> QED
    BY <1>1, <1>3, <2>1
<1> QED
  BY <1>2, <1>3

LEMMA CountKeyAdd ==
    ASSUME NEW S \in SUBSET Packets, NEW p \in Packets \ S, NEW k \in Keys
    PROVE  Cardinality(InKey(S \cup {p}, k))
              = Cardinality(InKey(S, k)) + (IF k \in KeysOf[p] THEN 1 ELSE 0)
<1>1. IsFiniteSet(InKey(S, k)) /\ Cardinality(InKey(S, k)) \in Nat
  BY ConstantsAssumption, FS_Subset, CountType DEF InKey
<1>2. CASE k \in KeysOf[p]
  <2>1. InKey(S \cup {p}, k) = InKey(S, k) \cup {p} /\ p \notin InKey(S, k)
    BY <1>2 DEF InKey
  <2> QED
    BY <1>1, <1>2, <2>1, FS_AddElement
<1>3. CASE k \notin KeysOf[p]
  <2>1. InKey(S \cup {p}, k) = InKey(S, k)
    BY <1>3 DEF InKey
  <2> QED
    BY <1>1, <1>3, <2>1
<1> QED
  BY <1>2, <1>3

LEMMA CountKeyMonotone ==
    ASSUME NEW T \in SUBSET Packets, NEW S \in SUBSET T, NEW k \in Keys
    PROVE  Cardinality(InKey(S, k)) <= Cardinality(InKey(T, k))
<1>1. IsFiniteSet(InKey(T, k)) /\ InKey(S, k) \subseteq InKey(T, k)
  BY ConstantsAssumption, FS_Subset DEF InKey
<1> QED
  BY <1>1, FS_Subset

-----------------------------------------------------------------------------
(* Layer 3: the ledgers.                                                   *)

LEMMA InitLedgers == Init => Ledgers
  BY DEF Init, Ledgers, BucketsSinceSnapshot, BucketLedger, RowsAddUp, Own

\* A step that only main takes, or that touches none of the ledgers' accounts.
LEMMA LedgersFrame ==
    ASSUME Ledgers, ipc' = "send" <=> ipc = "send",
           UNCHANGED <<flowBuckets, packetRows, buckets, events, dropped, fbDropped,
                       totalDropped, unreported, pending, batch, mode, cacheHit, sid, recorded, snapped, due, lossy, reused>>,
           sid # 0 => (state'[sid] # "none" => state[sid] # "none")
    PROVE  Ledgers'
  BY DEF Ledgers, BucketsSinceSnapshot, BucketLedger, RowsAddUp, Own, Exists

\* The head of flush moves buckets into the batch, and n rows to the transaction.
LEMMA StartFlushLedgers ==
    ASSUME TypeOK, Control, Ledgers, wpc # "commit",
           NEW n \in Nat, NEW next, StartFlush(n, next), n # 0 => Own,
           UNCHANGED <<disk, mode, cacheHit, sid, recorded, due, lossy, reused>>
    PROVE  /\ BucketsSinceSnapshot' /\ BucketLedger' /\ pending' = n
           /\ dropped' + fbDropped' + unreported' = dropped + fbDropped + unreported
           /\ dropped' \in Nat /\ fbDropped' \in Nat /\ unreported' \in Nat
<1>1. pending' = n
  BY DEF StartFlush
<1>4. /\ dropped' + fbDropped' + unreported' = dropped + fbDropped + unreported
      /\ dropped' \in Nat /\ fbDropped' \in Nat /\ unreported' \in Nat
  <2>1. fbDropped = 0 /\ dropped \in Nat /\ unreported \in Nat
    BY DEF Control, WriterControl, TypeOK
  <2>2. /\ dropped' = 0
        /\ \/ fbDropped' = fbDropped /\ unreported' = unreported + dropped
           \/ fbDropped' = dropped /\ unreported' = unreported
    BY DEF StartFlush
  <2> QED
    BY <2>1, <2>2
<1>2. CASE n = 0 /\ dirty = {} /\ buckets = NoBuckets
  BY <1>1, <1>2, <1>4 DEF StartFlush, Ledgers, BucketsSinceSnapshot, BucketLedger, Own, Exists
<1>3. CASE ~(n = 0 /\ dirty = {} /\ buckets = NoBuckets)
  <2>1. /\ Own
        /\ sid \in Ids
        /\ batch = NoBatch
    BY <1>3 DEF TypeOK, Control, NoSession, WriterControl, Own, Idle
  <2>2. /\ batch'.buckets = buckets
        /\ buckets' = NoBuckets
        /\ snapped' = recorded[sid]
    BY <1>3 DEF StartFlush
  <2>3. \A f \in Flows : /\ batch.buckets[f] = 0
                         /\ batch'.buckets[f] = buckets[f]
                         /\ buckets'[f] = 0
                         /\ buckets[f] \in Nat
                         /\ sid \in Ids => flowBuckets[sid][f] \in Nat
    BY <2>1, <2>2 DEF NoBatch, NoBuckets, TypeOK
  <2>4. \A f \in Flows : Cardinality(InFlow(recorded[sid], f)) \in Nat
    BY <2>1, CountType DEF TypeOK
  <2>5. BucketsSinceSnapshot'
    BY <2>2, <2>3, <2>4 DEF BucketsSinceSnapshot, Own
  <2>6. BucketLedger'
    BY <2>1, <2>3, <2>4 DEF Ledgers, BucketLedger, Own, Exists
  <2> QED
    BY <1>1, <1>4, <2>5, <2>6
<1> QED
  BY <1>2, <1>3

\* Rows that only move between the queue and the slice pending, and drops that
\* only move between their counts, add up as before.
LEMMA RowsMoved ==
    ASSUME TypeOK, RowsAddUp, dropped' \in Nat, fbDropped' \in Nat, unreported' \in Nat,
           events' \in Nat, pending' \in Nat, pending' + events' = pending + events,
           dropped' + fbDropped' + unreported' = dropped + fbDropped + unreported,
           UNCHANGED <<state, packetRows, mode, cacheHit, sid, due, reused, ipc, totalDropped>>
    PROVE  RowsAddUp'
<1> DEFINE x == IF ipc = "send" THEN 1 ELSE 0
           rows == pending + events
           drops == dropped + fbDropped + unreported
<1>1. rows' = rows /\ drops' = drops /\ x' = x
  OBVIOUS
<1>2. RowsAddUp <=> ((sid # 0 /\ ~cacheHit /\ Exists(sid) /\ sid \notin reused) =>
                        /\ packetRows[sid] + rows + x + totalDropped + drops = due[sid]
                        /\ mode = "pcap" => totalDropped + drops = 0)
  BY DEF RowsAddUp
<1>3. RowsAddUp' <=> ((sid # 0 /\ ~cacheHit /\ Exists(sid) /\ sid \notin reused) =>
                        /\ packetRows[sid] + rows' + x + totalDropped + drops' = due[sid]
                        /\ mode = "pcap" => totalDropped + drops' = 0)
  BY DEF RowsAddUp, Exists
<1> HIDE DEF x, rows, drops
<1> QED
  BY <1>1, <1>2, <1>3

LEMMA NextLedgers ==
    TypeOK /\ Control /\ RowControl /\ Ledgers /\ [Next]_vars => Ledgers'
<1> SUFFICES ASSUME TypeOK, Control, RowControl, Ledgers, [Next]_vars
             PROVE  Ledgers'
  OBVIOUS
<1>1. ASSUME NEW m \in {"live", "pcap"}, NEW f \in Files \cup {NoFile},
             NEW n \in PacketEveryChoices, Boot(m, f, n)
      PROVE  Ledgers'
  BY <1>1 DEF Boot, Control, MainControl, Ledgers, BucketsSinceSnapshot, BucketLedger,
              RowsAddUp, Own
<1>2. ASSUME NEW p \in Packets, Record(p) PROVE Ledgers'
  <2>1. CASE sid = 0
    BY <1>2, <2>1, LedgersFrame DEF Record
  <2>2. CASE sid # 0
    <3>1. /\ sid \in Ids
          /\ p \notin recorded[sid]
          /\ recorded[sid] \in SUBSET Packets
          /\ FlowOf[p] \in Flows
      BY <1>2, <2>2, ConstantsAssumption
         DEF Record, Ingesting, TypeOK, RowControl, Control, MainControl, Own
    <3>2. recorded'[sid] = recorded[sid] \cup {p}
      BY <1>2, <2>2, <3>1 DEF Record, TypeOK
    <3>3. \A f \in Flows :
             /\ Cardinality(InFlow(recorded'[sid], f))
                  = Cardinality(InFlow(recorded[sid], f)) + (IF FlowOf[p] = f THEN 1 ELSE 0)
             /\ Cardinality(InFlow(recorded[sid], f)) \in Nat
      <4>1. p \in Packets \ recorded[sid]
        BY <3>1
      <4>2. ASSUME NEW f \in Flows
            PROVE  Cardinality(InFlow(recorded[sid] \cup {p}, f))
                     = Cardinality(InFlow(recorded[sid], f)) + (IF FlowOf[p] = f THEN 1 ELSE 0)
        BY <3>1, <4>1, CountFlowAdd
      <4> QED
        BY <3>1, <3>2, <4>2, CountType
    <3>4. \A f \in Flows : buckets'[f] = buckets[f] + (IF FlowOf[p] = f THEN 1 ELSE 0)
      BY <1>2, <2>2, <3>1 DEF Record, Apply, TypeOK
    <3>5. \A f \in Flows : /\ buckets[f] \in Nat
                           /\ flowBuckets[sid][f] \in Nat
                           /\ batch.buckets[f] \in Nat
      BY <3>1, BatchFields DEF TypeOK
    <3>6. UNCHANGED <<disk, writer, session, snapped, stored, lossy, reused, dropped, events,
                      unreported>>
      BY <1>2, <2>2 DEF Record
    <3>7. BucketsSinceSnapshot'
      <4>1. snapped \subseteq Packets
        BY DEF TypeOK
      <4>2. \A f \in Flows : Cardinality(InFlow(snapped, f)) \in Nat
        BY <4>1, CountType
      <4>3. (snapped' = snapped /\ snapped \subseteq recorded'[sid]) \/ ~Own
        BY <3>2, <3>6 DEF Ledgers, BucketsSinceSnapshot
      <4>4. sid' = sid /\ cacheHit' = cacheHit /\ snapped' = snapped
        BY <3>6
      <4>5. Own => \A f \in Flows : buckets[f] + Cardinality(InFlow(snapped, f))
                                     = Cardinality(InFlow(recorded[sid], f))
        BY DEF Ledgers, BucketsSinceSnapshot
      <4>6. Own => \A f \in Flows : buckets'[f] + Cardinality(InFlow(snapped, f))
                                     = Cardinality(InFlow(recorded'[sid], f))
        BY <3>3, <3>4, <3>5, <4>2, <4>5
      <4> QED
        BY <4>3, <4>4, <4>6 DEF BucketsSinceSnapshot, Own
    <3>8. BucketLedger'
      BY <3>3, <3>4, <3>5, <3>6 DEF Ledgers, BucketLedger, Exists
    <3>9. RowsAddUp'
      <4>1. ipc = "idle" /\ due[sid] \in Int /\ packetRows[sid] \in Nat
        BY <1>2, <3>1 DEF Record, TypeOK
      <4>2. /\ Selects => ipc' = "send" /\ due'[sid] = due[sid] + 1
            /\ ~Selects => ipc' = "idle" /\ due'[sid] = due[sid]
        BY <1>2, <2>2, <3>1 DEF Record, TypeOK
      <4>3. /\ pending \in Nat /\ events \in Nat
            /\ dropped \in Nat /\ fbDropped \in Nat /\ totalDropped \in Nat /\ unreported \in Nat
        BY ConstantsAssumption DEF TypeOK
      <4> QED
        BY <3>6, <4>1, <4>2, <4>3 DEF Ledgers, RowsAddUp, Exists
    <3> QED
      BY <3>7, <3>8, <3>9 DEF Ledgers
  <2> QED
    BY <2>1, <2>2
<1>3. ASSUME SendRow PROVE Ledgers'
  <2>1. BucketsSinceSnapshot' /\ BucketLedger'
    BY <1>3 DEF SendRow, Ledgers, BucketsSinceSnapshot, BucketLedger, Own, Exists
  <2>2. RowsAddUp'
    BY <1>3, ConstantsAssumption DEF SendRow, Ledgers, RowsAddUp, Exists, TypeOK
  <2> QED
    BY <2>1, <2>2 DEF Ledgers
<1>4. ASSUME IngestReturns PROVE Ledgers'
  BY <1>4, LedgersFrame DEF IngestReturns
<1>5. ASSUME WriterReceives PROVE Ledgers'
  <2>1. /\ Own /\ events > 0 /\ events' = events - 1 /\ pending + 1 \in Nat /\ wpc # "commit"
        /\ events \in Nat /\ pending \in Nat
        /\ dropped \in Nat /\ fbDropped \in Nat /\ totalDropped \in Nat /\ unreported \in Nat
    BY <1>5, ConstantsAssumption DEF WriterReceives, Control, NoSession, Idle, TypeOK
  <2>2. UNCHANGED <<disk, mode, cacheHit, sid, recorded, due, lossy, reused, ipc, totalDropped>>
    BY <1>5 DEF WriterReceives, WriterUnchanged
  <2>3. /\ BucketsSinceSnapshot' /\ BucketLedger'
        /\ pending' = pending + 1
        /\ dropped' + fbDropped' + unreported' = dropped + fbDropped + unreported
        /\ dropped' \in Nat /\ fbDropped' \in Nat /\ unreported' \in Nat
    <3>1. CASE StartFlush(pending + 1, "select")
      BY <2>1, <2>2, <3>1, StartFlushLedgers
    <3>2. CASE /\ pending' = pending + 1
               /\ UNCHANGED <<buckets, batch, snapped, dropped, fbDropped, unreported>>
      BY <2>1, <2>2, <3>2 DEF Ledgers, BucketsSinceSnapshot, BucketLedger, Own, Exists
    <3> QED
      BY <1>5, <3>1, <3>2 DEF WriterReceives
  <2>4. RowsAddUp'
    <3>1. sid \in Ids /\ packetRows[sid] \in Nat /\ due[sid] \in Int
      BY <2>1 DEF Own, TypeOK
    <3> QED
      BY <2>1, <2>2, <2>3, <3>1, RowsMoved DEF Ledgers
  <2> QED
    BY <2>3, <2>4 DEF Ledgers
<1>6. ASSUME WriterTicks PROVE Ledgers'
  <2>1. /\ wpc # "commit" /\ StartFlush(pending, "select") /\ pending \in Nat
        /\ pending # 0 => Own
        /\ UNCHANGED <<disk, mode, cacheHit, sid, recorded, due, lossy, reused, ipc, totalDropped,
                       events>>
    BY <1>6 DEF WriterTicks, WriterUnchanged, TypeOK, Control, NoSession, Idle
  <2>2. /\ BucketsSinceSnapshot' /\ BucketLedger' /\ pending' = pending
        /\ dropped' + fbDropped' + unreported' = dropped + fbDropped + unreported
        /\ dropped' \in Nat /\ fbDropped' \in Nat /\ unreported' \in Nat
    BY <2>1, StartFlushLedgers
  <2>3. events \in Nat
    BY ConstantsAssumption DEF TypeOK
  <2> QED
    BY <2>1, <2>2, <2>3, RowsMoved DEF Ledgers
<1>7. ASSUME WriterServesFlush PROVE Ledgers'
  BY <1>7, LedgersFrame DEF WriterServesFlush, WriterUnchanged
<1>8. ASSUME WriterSeesDone PROVE Ledgers'
  BY <1>8, LedgersFrame DEF WriterSeesDone, WriterUnchanged
<1>9. ASSUME WriterDrains PROVE Ledgers'
  <2>1. /\ wpc # "commit" /\ pending \in Nat
        /\ pending # 0 => Own
        /\ UNCHANGED <<disk, mode, cacheHit, sid, recorded, due, lossy, reused, ipc, totalDropped>>
    BY <1>9 DEF WriterDrains, WriterUnchanged, TypeOK, Control, NoSession, Idle
  <2>2. CASE StartFlush(pending, wnext) /\ events' = events
    <3>1. /\ BucketsSinceSnapshot' /\ BucketLedger' /\ pending' = pending
          /\ dropped' + fbDropped' + unreported' = dropped + fbDropped + unreported
          /\ dropped' \in Nat /\ fbDropped' \in Nat /\ unreported' \in Nat
      BY <2>1, <2>2, StartFlushLedgers DEF TypeOK
    <3>2. events \in Nat
      BY ConstantsAssumption DEF TypeOK
    <3> QED
      BY <2>1, <2>2, <3>1, <3>2, RowsMoved DEF Ledgers
  <2>3. CASE /\ events > 0 /\ events' = events - 1 /\ pending' = pending + 1
             /\ UNCHANGED <<buckets, batch, snapped, dropped, fbDropped, unreported>>
    <3>1. BucketsSinceSnapshot' /\ BucketLedger'
      BY <2>1, <2>3 DEF Ledgers, BucketsSinceSnapshot, BucketLedger, Own, Exists
    <3>2. RowsAddUp'
      <4>1. events \in Nat /\ dropped \in Nat /\ fbDropped \in Nat /\ unreported \in Nat
        BY ConstantsAssumption DEF TypeOK
      <4> QED
        BY <2>1, <2>3, <4>1, RowsMoved DEF Ledgers
    <3> QED
      BY <3>1, <3>2 DEF Ledgers
  <2> QED
    BY <1>9, <2>2, <2>3 DEF WriterDrains
<1>10. ASSUME FlushTx PROVE Ledgers'
  <2>1. /\ Own /\ sid \in Ids
    BY <1>10 DEF FlushTx, Control, NoSession, Own, Idle, TypeOK
  <2>2. UNCHANGED <<state, buckets, mode, cacheHit, sid, recorded, snapped, due, lossy, reused,
                    ipc, dropped, unreported, events>>
    BY <1>10 DEF FlushTx
  <2>3. BucketsSinceSnapshot'
    BY <2>2 DEF Ledgers, BucketsSinceSnapshot, Own
  <2>4. BucketLedger'
    <3>1. \A f \in Flows : /\ flowBuckets'[sid][f] = flowBuckets[sid][f] + batch.buckets[f]
                           /\ batch'.buckets[f] = 0
                           /\ flowBuckets[sid][f] \in Nat /\ batch.buckets[f] \in Nat
      BY <1>10, <2>1, BatchFields DEF FlushTx, TypeOK, NoBatch, NoBuckets
    <3>2. \A f \in Flows : /\ buckets[f] \in Nat
                           /\ Cardinality(InFlow(recorded[sid], f)) \in Nat
      BY <2>1, CountType DEF TypeOK
    <3> QED
      BY <2>1, <2>2, <3>1, <3>2 DEF Ledgers, BucketLedger, Exists
  <2>5. RowsAddUp'
    <3>1. /\ packetRows'[sid] = packetRows[sid] + pending /\ pending' = 0
          /\ packetRows[sid] \in Nat /\ pending \in Nat /\ events \in Nat
          /\ dropped \in Nat /\ fbDropped \in Nat /\ totalDropped \in Nat /\ unreported \in Nat
          /\ totalDropped' = totalDropped + fbDropped /\ fbDropped' = 0
      BY <1>10, <2>1, ConstantsAssumption DEF FlushTx, ReportDrops, TypeOK
    <3> QED
      BY <2>1, <2>2, <3>1 DEF Ledgers, RowsAddUp, Exists
  <2> QED
    BY <2>3, <2>4, <2>5 DEF Ledgers
<1>11. ASSUME FlushTxFails PROVE Ledgers'
  <2>1. Own /\ sid \in Ids
    BY <1>11 DEF FlushTxFails, Control, NoSession, Own, Idle, TypeOK
  <2>2. UNCHANGED <<disk, buckets, mode, cacheHit, sid, recorded, snapped, reused, ipc, dropped, unreported,
                    events>>
    BY <1>11 DEF FlushTxFails
  <2>3. BucketsSinceSnapshot'
    BY <2>2 DEF Ledgers, BucketsSinceSnapshot, Own
  <2>4. BucketLedger'
    <3>1. \A f \in Flows : /\ batch'.buckets[f] = 0 /\ batch.buckets[f] \in Nat
                           /\ buckets[f] \in Nat /\ flowBuckets[sid][f] \in Nat
                           /\ Cardinality(InFlow(recorded[sid], f)) \in Nat
      BY <1>11, <2>1, BatchFields, CountType DEF FlushTxFails, TypeOK, NoBatch, NoBuckets
    <3>2. sid \notin lossy' => sid \notin lossy /\ batch' = batch
      BY <1>11 DEF FlushTxFails
    <3> QED
      BY <2>1, <2>2, <3>1, <3>2 DEF Ledgers, BucketLedger, Exists
  <2>5. RowsAddUp'
    <3>1. /\ due'[sid] = due[sid] - pending /\ pending' = 0
          /\ due[sid] \in Int /\ packetRows[sid] \in Nat
          /\ pending \in Nat /\ events \in Nat
          /\ dropped \in Nat /\ fbDropped \in Nat /\ totalDropped \in Nat /\ unreported \in Nat
          /\ totalDropped' = totalDropped + fbDropped /\ fbDropped' = 0
      BY <1>11, <2>1, ConstantsAssumption DEF FlushTxFails, ReportDrops, TypeOK
    <3> QED
      BY <2>1, <2>2, <3>1 DEF Ledgers, RowsAddUp, Exists
  <2> QED
    BY <2>3, <2>4, <2>5 DEF Ledgers
<1>12. ASSUME CacheHit PROVE Ledgers'
  BY <1>12 DEF CacheHit, Ledgers, BucketsSinceSnapshot, BucketLedger, RowsAddUp, Own
<1>13. ASSUME BeginCapture PROVE Ledgers'
  <2>1. PICK c \in Ids : /\ sid' = c
                         /\ recorded' = [recorded EXCEPT ![c] = {}]
                         /\ due' = [due EXCEPT ![c] = 0]
                         /\ reused' = IF flowBuckets[c] # NoBuckets \/ packetRows[c] # 0
                                      THEN reused \cup {c} ELSE reused \ {c}
    BY <1>13 DEF BeginCapture
  <2>2. recorded'[c] = {} /\ due'[c] = 0
    BY <2>1 DEF TypeOK
  <2>3. /\ batch = NoBatch /\ buckets = NoBuckets /\ snapped = {}
        /\ pending = 0 /\ events = 0 /\ ipc # "send"
        /\ dropped = 0 /\ fbDropped = 0 /\ totalDropped = 0 /\ unreported = 0
    BY <1>13 DEF BeginCapture, Control, NoSession, MainControl, WriterControl, Own, Idle
  <2>4. UNCHANGED <<flowBuckets, packetRows, buckets, batch, snapped, pending, events, dropped,
                    fbDropped, totalDropped, unreported, ipc, mode>>
    BY <1>13 DEF BeginCapture
  <2>5. \A f \in Flows : NoBuckets[f] = 0 /\ NoBatch.buckets[f] = 0
    BY DEF NoBatch, NoBuckets
  <2> QED
    BY <2>1, <2>2, <2>3, <2>4, <2>5, CountEmpty
       DEF Ledgers, BucketsSinceSnapshot, BucketLedger, RowsAddUp, Own
<1>14. ASSUME BeginFails PROVE Ledgers'
  BY <1>14, LedgersFrame DEF BeginFails
<1>15. ASSUME IngestDone PROVE Ledgers'
  BY <1>15, LedgersFrame DEF IngestDone, MainUnchanged
<1>16. ASSUME Signal PROVE Ledgers'
  BY <1>16, LedgersFrame DEF Signal, MainUnchanged
<1>17. ASSUME DropCapture PROVE Ledgers'
  BY <1>17, LedgersFrame DEF DropCapture, MainUnchanged
<1>18. ASSUME StampCapture PROVE Ledgers'
  <2>1. sid # 0 => (state'[sid] # "none" => state[sid] # "none")
    BY <1>18 DEF StampCapture, Control, MainControl, RowControl, Own, Recording, TypeOK
  <2> QED
    BY <1>18, <2>1, LedgersFrame DEF StampCapture, MainUnchanged
<1>19. ASSUME CloseStore PROVE Ledgers'
  BY <1>19, LedgersFrame DEF CloseStore, MainUnchanged
<1>20. ASSUME Exit \/ Crash PROVE Ledgers'
  BY <1>20 DEF Exit, Crash, ProcessDies, FreshMemory, Ledgers, BucketsSinceSnapshot,
               BucketLedger, RowsAddUp, Own
<1>21. ASSUME PruneCaptures PROVE Ledgers'
  <2>1. sid # 0 => (state'[sid] # "none" => state[sid] # "none")
    BY <1>21 DEF PruneCaptures, RetentionUnchanged, TypeOK
  <2> QED
    BY <1>21, <2>1, LedgersFrame DEF PruneCaptures, RetentionUnchanged
<1>22. ASSUME SweepBuckets PROVE Ledgers'
  BY <1>22 DEF SweepBuckets, RetentionUnchanged, Ledgers, BucketsSinceSnapshot, BucketLedger,
               RowsAddUp, Own, Exists, TypeOK
<1>23. ASSUME SweepRows PROVE Ledgers'
  BY <1>23 DEF SweepRows, RetentionUnchanged, Ledgers, BucketsSinceSnapshot, BucketLedger,
               RowsAddUp, Own, Exists, TypeOK
<1>24. ASSUME UNCHANGED vars PROVE Ledgers'
  BY <1>24, LedgersFrame DEF vars
<1> QED
  BY <1>1, <1>2, <1>3, <1>4, <1>5, <1>6, <1>7, <1>8, <1>9, <1>10, <1>11, <1>12,
     <1>13, <1>14, <1>15, <1>16, <1>17, <1>18, <1>19, <1>20, <1>21, <1>22, <1>23,
     <1>24 DEF Next, Writer, Main

-----------------------------------------------------------------------------
(* Layer 3, continued: the rows a drain leaves.                            *)

LEMMA Numbers ==
    TypeOK => /\ pending \in Nat /\ events \in Nat /\ events <= QueueCap
              /\ BatchSize \in Nat /\ BatchSize >= 1
              /\ QueueCap \in Nat /\ DrainMax \in Nat /\ DrainMax >= 1
  BY ConstantsAssumption DEF TypeOK

\* A step after which no more rows wait than before, in no new phase.
LEMMA DrainsFrame ==
    ASSUME TypeOK, Drains, mode' = mode, UNCHANGED <<wpc, wnext, pending, events>>,
           mode = "pcap" => \/ mpc' = mpc
                            \/ mpc' \notin {"flushing", "drop", "stamp", "serve", "shutdown", "closing"}
                            \/ /\ mpc \in {"drop", "stamp", "serve", "shutdown"}
                               /\ (wpc = "commit" /\ wnext = "exit") => mpc' # "closing"
                               /\ mpc' # "flushing"
    PROVE  Drains'
  BY DEF Drains, Few

\* The head of flush: the n rows pending go to the transaction, or there are none.
LEMMA StartFlushDrains ==
    ASSUME NEW n, NEW next, StartFlush(n, next)
    PROVE  /\ pending' = n
           /\ \/ wpc' = "commit" /\ wnext' = next /\ mpc' = mpc
              \/ /\ n = 0
                 /\ wpc' = IF next = "exit" THEN "exited" ELSE "select"
                 /\ mpc' = IF next = "reply" THEN "drop" ELSE mpc
  BY DEF StartFlush, Return, After

LEMMA NextDrains == TypeOK /\ Control /\ Drains /\ [Next]_vars => Drains'
<1> SUFFICES ASSUME TypeOK, Control, Drains, [Next]_vars
             PROVE  Drains'
  OBVIOUS
<1> USE Numbers
<1>1. ASSUME NEW m \in {"live", "pcap"}, NEW f \in Files \cup {NoFile},
             NEW n \in PacketEveryChoices, Boot(m, f, n)
      PROVE  Drains'
  BY <1>1 DEF Boot, Control, WriterControl, Drains
<1>2. ASSUME NEW p \in Packets, Record(p) PROVE Drains'
  <2>1. UNCHANGED <<mode, wpc, wnext, pending, events, mpc>>
    BY <1>2 DEF Record
  <2> QED
    BY <2>1, DrainsFrame
<1>3. ASSUME SendRow PROVE Drains'
  <2>1. /\ UNCHANGED <<mode, wpc, wnext, pending, mpc>>
        /\ mode = "pcap" => mpc = "ingest"
    BY <1>3 DEF SendRow, Control, MainControl
  <2> QED
    BY <2>1 DEF Drains, Control, WriterControl
<1>4. ASSUME IngestReturns PROVE Drains'
  BY <1>4, DrainsFrame DEF IngestReturns
<1>5. ASSUME WriterReceives PROVE Drains'
  <2>1. /\ wpc = "select" /\ mode' = mode /\ pending <= BatchSize - 1
        /\ events > 0 /\ events' = events - 1
        /\ mpc # "flushing"
    BY <1>5 DEF WriterReceives, WriterUnchanged, Drains, Control, WriterControl
  <2>2. /\ pending' = pending + 1
        /\ mpc' = mpc
        /\ wpc' = "select" => pending' <= BatchSize - 1
        /\ wpc' \in {"select", "commit"}
        /\ wpc' = "commit" => wnext' = "select"
    <3>1. CASE StartFlush(pending + 1, "select")
      BY <2>1, <3>1, StartFlushDrains
    <3>2. CASE pending' = pending + 1 /\ pending + 1 < BatchSize /\ UNCHANGED <<wpc, wnext, mpc>>
      BY <2>1, <3>2
    <3> QED
      BY <1>5, <2>1, <3>1, <3>2 DEF WriterReceives
  <2>3. pending' + events' = pending + events
    BY <2>1, <2>2
  <2> QED
    BY <2>1, <2>2, <2>3 DEF Drains, Few
<1>6. ASSUME WriterTicks PROVE Drains'
  <2>1. /\ wpc = "select" /\ mode' = mode /\ events' = events /\ mpc # "flushing"
        /\ StartFlush(pending, "select")
    BY <1>6 DEF WriterTicks, WriterUnchanged, Control, WriterControl
  <2>2. /\ pending' = pending /\ mpc' = mpc /\ wpc' \in {"select", "commit"}
        /\ wpc' = "select" => pending = 0
        /\ wpc' = "commit" => wnext' = "select"
    BY <2>1, StartFlushDrains
  <2> QED
    BY <2>1, <2>2 DEF Drains, Few
<1>7. ASSUME WriterServesFlush PROVE Drains'
  BY <1>7 DEF WriterServesFlush, WriterUnchanged, Drains
<1>8. ASSUME WriterSeesDone PROVE Drains'
  BY <1>8 DEF WriterSeesDone, WriterUnchanged, Drains
<1>9. ASSUME WriterDrains PROVE Drains'
  <2>1. wpc = "drain" /\ mode' = mode /\ wnext \in {"reply", "exit"}
    BY <1>9 DEF WriterDrains, WriterUnchanged, Control, WriterControl
  <2>2. CASE /\ events > 0 /\ events' = events - 1 /\ pending' = pending + 1
             /\ UNCHANGED <<wpc, wnext, mpc>>
    BY <2>1, <2>2 DEF Drains, Few
  <2>3. CASE /\ pending >= DrainMax \/ events = 0
             /\ StartFlush(pending, wnext)
             /\ events' = events
    <3>1. /\ pending' = pending
          /\ \/ wpc' = "commit" /\ wnext' = wnext /\ mpc' = mpc
             \/ /\ pending = 0 /\ events = 0
                /\ wpc' = IF wnext = "exit" THEN "exited" ELSE "select"
                /\ mpc' = IF wnext = "reply" THEN "drop" ELSE mpc
      BY <2>3, StartFlushDrains
    <3>2. (mpc = "flushing" /\ wnext = "reply") \/ (mpc = "closing" /\ wnext = "exit")
      BY <2>1 DEF Control, WriterControl
    <3>3. CASE mpc = "flushing" /\ wnext = "reply"
      BY <2>1, <2>3, <3>1, <3>3 DEF Drains, Few
    <3>4. CASE mpc = "closing" /\ wnext = "exit"
      BY <2>1, <2>3, <3>1, <3>4 DEF Drains, Few
    <3> QED
      BY <3>2, <3>3, <3>4
  <2> QED
    BY <1>9, <2>2, <2>3 DEF WriterDrains
<1>10. ASSUME FlushTx \/ FlushTxFails PROVE Drains'
  <2>1. /\ wpc = "commit" /\ UNCHANGED <<mode, events, wnext>> /\ pending' = 0
        /\ wpc' = IF wnext = "exit" THEN "exited" ELSE "select"
        /\ mpc' = IF wnext = "reply" THEN "drop" ELSE mpc
    BY <1>10 DEF FlushTx, FlushTxFails, Return, After
  <2>2. /\ wnext = "reply" => mpc = "flushing"
        /\ wnext = "exit" => mpc = "closing"
        /\ mpc = "flushing" => wnext = "reply"
        /\ wnext \in {"select", "reply", "exit"}
    BY <2>1 DEF Control, WriterControl, TypeOK
  <2> QED
    BY <2>1, <2>2 DEF Drains, Few
<1>11. ASSUME CacheHit \/ BeginCapture \/ BeginFails PROVE Drains'
  <2>1. /\ UNCHANGED <<mode, wpc, wnext, pending, events>> /\ mpc = "boot"
        /\ pending = 0 /\ events = 0
        /\ mpc' \in {"serve", "ingest"}
    BY <1>11 DEF CacheHit, BeginCapture, BeginFails, AfterBegin, Control, NoSession,
                 MainControl, Own, Idle
  <2>2. wpc # "exited"
    BY <2>1 DEF Control, WriterControl
  <2> QED
    BY <2>1, <2>2 DEF Drains, Few
<1>12. ASSUME IngestDone PROVE Drains'
  <2>1. /\ UNCHANGED <<mode, wpc, wnext, pending, events>> /\ mpc = "ingest"
        /\ sid = 0 => pending = 0 /\ events = 0
        /\ mpc' = IF sid = 0 THEN "serve" ELSE "flush"
    BY <1>12 DEF IngestDone, MainUnchanged, Control, NoSession, Own, Idle
  <2>2. wpc # "exited"
    BY <2>1 DEF Control, WriterControl
  <2> QED
    BY <2>1, <2>2 DEF Drains, Few
<1>13. ASSUME Signal \/ DropCapture \/ StampCapture PROVE Drains'
  <2>1. /\ UNCHANGED <<mode, wpc, wnext, pending, events>>
        /\ mpc \in {"serve", "drop", "stamp"}
        /\ mpc' \in {"flush", "shutdown", "stamp", "serve"}
    BY <1>13 DEF Signal, DropCapture, StampCapture, AfterEnd, MainUnchanged
  <2> QED
    BY <2>1, DrainsFrame
<1>14. ASSUME CloseStore PROVE Drains'
  <2>1. /\ UNCHANGED <<mode, wpc, wnext, pending, events>>
        /\ mpc = "shutdown" /\ mpc' = "closing"
        /\ wpc # "commit" \/ wnext # "exit"
    BY <1>14 DEF CloseStore, MainUnchanged, Control, WriterControl
  <2> QED
    BY <2>1, DrainsFrame
<1>15. ASSUME Exit \/ Crash PROVE Drains'
  BY <1>15 DEF Exit, Crash, ProcessDies, FreshMemory, Drains
<1>16. ASSUME PruneCaptures \/ SweepBuckets \/ SweepRows PROVE Drains'
  BY <1>16, DrainsFrame DEF PruneCaptures, SweepBuckets, SweepRows, RetentionUnchanged
<1>17. ASSUME UNCHANGED vars PROVE Drains'
  BY <1>17, DrainsFrame DEF vars
<1> QED
  BY <1>1, <1>2, <1>3, <1>4, <1>5, <1>6, <1>7, <1>8, <1>9, <1>10, <1>11, <1>12,
     <1>13, <1>14, <1>15, <1>16, <1>17 DEF Next, Writer, Main

-----------------------------------------------------------------------------
(* Layer 4: the aggregates.                                                *)

LEMMA InitAggregates == Init => Aggregates
<1> SUFFICES ASSUME Init PROVE Aggregates
  OBVIOUS
<1>1. \A c \in Ids : state[c] = "none"
  BY DEF Init
<1>2. ~Own
  BY DEF Init, Own
<1> QED
  BY <1>1, <1>2 DEF Aggregates, LiveAggregates, FlushedAggregates, BatchAggregates,
                    StoredAggregates, KeysAgree, FlowsAgree, CompleteIsStored, Exists

\* A session of this process is recording, or its flush is over.
LEMMA LiveOrFlushed ==
    ASSUME TypeOK, Control, RowControl, Own
    PROVE  /\ AggsLive \/ AfterFlush
           /\ state[sid] = "complete" => AfterFlush
  BY DEF TypeOK, Control, MainControl, RowControl, Recording, AggsLive, AfterFlush, Own

\* With nothing dirty, all that was recorded is in the snapshot.
LEMMA CleanIsSnapped ==
    ASSUME TypeOK, Control, RowControl, Ledgers, Aggregates, Own, sid \notin late, dirty = {}
    PROVE  snapped = recorded[sid]
<1>1. snapped \subseteq recorded[sid] /\ recorded[sid] \subseteq Packets
  BY DEF Ledgers, BucketsSinceSnapshot, Own, TypeOK
<1>2. CASE AggsLive
  <2>1. \A p \in recorded[sid] \ snapped : KeysOf[p] = {}
    BY <1>2 DEF Aggregates, LiveAggregates
  <2>2. \A p \in Packets : KeysOf[p] # {}
    BY ConstantsAssumption
  <2> QED
    BY <1>1, <2>1, <2>2
<1>3. CASE AfterFlush
  BY <1>3 DEF Aggregates, FlushedAggregates
<1> QED
  BY <1>2, <1>3, LiveOrFlushed

\* A step that moves main or the writer without touching what is aggregated.
LEMMA AggregatesFrame ==
    ASSUME Aggregates,
           UNCHANGED <<state, fileOf, totals, flowBuckets, aggs, dirty, buckets, batch, mode,
                       cacheHit, sid, recorded, snapped, stored, lossy, late, reused>>,
           wpc' = "commit" <=> wpc = "commit",
           Own => /\ AggsLive' => AggsLive
                  /\ AfterFlush' => AfterFlush
                  /\ mpc = "flushing" => mpc' = "flushing" \/ wpc # "commit"
    PROVE  Aggregates'
<1> USE DEF Own, Exists, Aggregates
<1>1. LiveAggregates'
  BY DEF LiveAggregates
<1>2. FlushedAggregates'
  BY DEF FlushedAggregates
<1>3. BatchAggregates'
  BY DEF BatchAggregates
<1>4. StoredAggregates'
  BY DEF StoredAggregates
<1>5. KeysAgree' /\ FlowsAgree' /\ CompleteIsStored'
  BY DEF KeysAgree, FlowsAgree, CompleteIsStored
<1> QED
  BY <1>1, <1>2, <1>3, <1>4, <1>5

\* A step of a process without a session of its own, before and after.
LEMMA AggregatesWithoutSession ==
    ASSUME Aggregates, ~Own',
           UNCHANGED <<state, fileOf, totals, flowBuckets, recorded, stored, lossy, late, reused>>
    PROVE  Aggregates'
  BY DEF Aggregates, LiveAggregates, FlushedAggregates, BatchAggregates, StoredAggregates,
         KeysAgree, FlowsAgree, CompleteIsStored, Exists

\* The head of flush: what is dirty moves into the batch.
LEMMA StartFlushAggregates ==
    ASSUME TypeOK, Control, RowControl, Ledgers, Aggregates, wpc # "commit",
           NEW n \in Nat, NEW next, StartFlush(n, next),
           n # 0 => Own /\ Exists(sid),
           next = "reply" <=> mpc = "flushing",
           UNCHANGED <<disk, aggs, mode, cacheHit, sid, recorded, stored, lossy, late, reused>>
    PROVE  Aggregates'
<1>1. KeysAgree' /\ FlowsAgree' /\ CompleteIsStored'
  BY DEF Aggregates, KeysAgree, FlowsAgree, CompleteIsStored, Exists
<1>2. CASE n = 0 /\ dirty = {} /\ buckets = NoBuckets
  <2>1. /\ wpc' # "commit"
        /\ mpc' = IF mpc = "flushing" THEN "drop" ELSE mpc
        /\ UNCHANGED <<dirty, buckets, batch, snapped>>
    BY <1>2 DEF StartFlush, Return, After
  <2>2. LiveAggregates'
    BY <2>1 DEF Aggregates, LiveAggregates, AggsLive, Own
  <2>3. FlushedAggregates'
    BY <1>2, <2>1, CleanIsSnapped DEF Aggregates, FlushedAggregates, AfterFlush, Own
  <2>4. BatchAggregates' /\ StoredAggregates'
    BY <2>1 DEF Aggregates, BatchAggregates, StoredAggregates, Own, Exists
  <2> QED
    BY <1>1, <2>2, <2>3, <2>4 DEF Aggregates
<1>3. CASE ~(n = 0 /\ dirty = {} /\ buckets = NoBuckets)
  <2>1. /\ Own
        /\ sid \in Ids
        /\ Exists(sid)
        /\ recorded[sid] \in SUBSET Packets
        /\ snapped \subseteq recorded[sid]
    BY <1>3 DEF TypeOK, Control, NoSession, RowControl, Own, Idle, Ledgers, BucketsSinceSnapshot
  <2>2. /\ batch'.keys = dirty
        /\ batch'.aggs = [k \in Keys |-> IF k \in dirty THEN aggs[k] ELSE 0]
        /\ batch' = [keys |-> dirty, aggs |-> batch'.aggs, buckets |-> buckets]
        /\ dirty' = {} /\ buckets' = NoBuckets
        /\ snapped' = recorded[sid]
        /\ wpc' = "commit" /\ mpc' = mpc
    BY <1>3 DEF StartFlush
  <2>3. dirty \subseteq Keys
    BY DEF TypeOK
  <2>4. LiveAggregates'
    BY <2>2 DEF Aggregates, LiveAggregates, AggsLive, Own
  <2>5. FlushedAggregates'
    <3>1. SUFFICES ASSUME AfterFlush, sid \notin late
                   PROVE  batch' = NoBatch \/ mpc = "flushing"
      BY <2>1, <2>2 DEF FlushedAggregates, AfterFlush, Own
    <3>2. dirty = {} /\ buckets = NoBuckets
      BY <2>1, <3>1 DEF Aggregates, FlushedAggregates
    <3>3. batch'.aggs = NoTotals
      BY <2>2, <3>2 DEF NoTotals
    <3> QED
      BY <2>2, <3>2, <3>3 DEF NoBatch
  <2>6. BatchAggregates'
    <3>1. SUFFICES ASSUME sid \notin late
                   PROVE  /\ \A k \in dirty : aggs[k] = Cardinality(InKey(recorded[sid], k))
                          /\ sid \notin lossy =>
                                /\ stored[sid] \subseteq recorded[sid]
                                /\ \A p \in recorded[sid] \ stored[sid] : KeysOf[p] \subseteq dirty
                                /\ batch' = NoBatch => stored[sid] = recorded[sid]
      BY <2>2, <2>3 DEF BatchAggregates, Own
    <3>2. \A k \in dirty : aggs[k] = Cardinality(InKey(recorded[sid], k))
      BY <2>1, <2>3, <3>1, LiveOrFlushed DEF Aggregates, LiveAggregates, FlushedAggregates
    <3>3. \A p \in recorded[sid] \ snapped : KeysOf[p] \subseteq dirty
      BY <2>1, <3>1, LiveOrFlushed DEF Aggregates, LiveAggregates, FlushedAggregates
    <3>4. sid \notin lossy => stored[sid] = snapped
      BY <2>1, <3>1 DEF Aggregates, StoredAggregates
    <3>5. batch' = NoBatch => snapped = recorded[sid]
      BY <2>1, <2>2, <3>1, CleanIsSnapped DEF NoBatch
    <3> QED
      BY <2>1, <3>2, <3>3, <3>4, <3>5
  <2>7. StoredAggregates'
    <3>1. ASSUME NEW k \in Keys, sid \notin late
          PROVE  totals[sid][k] <= Cardinality(InKey(recorded[sid], k))
      <4>1. totals[sid][k] <= Cardinality(InKey(snapped, k))
        BY <2>1, <3>1 DEF Aggregates, StoredAggregates
      <4>2. Cardinality(InKey(snapped, k)) <= Cardinality(InKey(recorded[sid], k))
        BY <2>1, CountKeyMonotone
      <4>3. /\ totals[sid][k] \in Nat
            /\ Cardinality(InKey(snapped, k)) \in Nat
            /\ Cardinality(InKey(recorded[sid], k)) \in Nat
        BY <2>1, CountType DEF TypeOK
      <4> QED
        BY <4>1, <4>2, <4>3
    <3> QED
      BY <2>2, <3>1 DEF StoredAggregates, Own
  <2> QED
    BY <1>1, <2>4, <2>5, <2>6, <2>7 DEF Aggregates
<1> QED
  BY <1>2, <1>3

\* RecordPacket adds the packet to every account of the session at once.
LEMMA RecordAggregates ==
    ASSUME TypeOK, Control, RowControl, Ledgers, Aggregates,
           NEW p \in Packets, Record(p), sid # 0
    PROVE  Aggregates'
<1>1. /\ Own /\ sid \in Ids
      /\ p \in Packets \ recorded[sid]
      /\ recorded[sid] \in SUBSET Packets
      /\ KeysOf[p] \subseteq Keys
  BY ConstantsAssumption
     DEF Record, Ingesting, TypeOK, RowControl, Control, MainControl, Own
<1>2. /\ recorded' = [recorded EXCEPT ![sid] = recorded[sid] \cup {p}]
      /\ recorded'[sid] = recorded[sid] \cup {p}
      /\ late' = IF mode = "live" /\ mpc # "serve" THEN late \cup {sid} ELSE late
      /\ dirty' = dirty \cup KeysOf[p]
      /\ aggs' = [k \in Keys |-> IF k \in KeysOf[p] THEN aggs[k] + 1 ELSE aggs[k]]
      /\ UNCHANGED <<disk, writer, session, mpc, snapped, stored, lossy, reused>>
  BY <1>1 DEF Record, Apply, TypeOK
<1>3. mode = "live" \/ (mode = "pcap" /\ mpc = "ingest")
  BY DEF Record, Ingesting
<1>4. LiveAggregates'
  <2>1. SUFFICES ASSUME AggsLive
                 PROVE  /\ \A k \in Keys : aggs'[k] = Cardinality(InKey(recorded'[sid], k))
                        /\ \A q \in recorded'[sid] \ snapped : KeysOf[q] \subseteq dirty'
    BY <1>1, <1>2 DEF LiveAggregates, AggsLive, Own
  <2>2. ASSUME NEW k \in Keys PROVE aggs'[k] = Cardinality(InKey(recorded'[sid], k))
    <3>1. aggs[k] = Cardinality(InKey(recorded[sid], k)) /\ aggs[k] \in Nat
      BY <1>1, <2>1 DEF Aggregates, LiveAggregates, TypeOK
    <3>2. Cardinality(InKey(recorded[sid] \cup {p}, k))
             = Cardinality(InKey(recorded[sid], k)) + (IF k \in KeysOf[p] THEN 1 ELSE 0)
      BY <1>1, CountKeyAdd
    <3>3. /\ aggs'[k] = aggs[k] + (IF k \in KeysOf[p] THEN 1 ELSE 0)
          /\ recorded'[sid] = recorded[sid] \cup {p}
      <4>1. aggs'[k] = IF k \in KeysOf[p] THEN aggs[k] + 1 ELSE aggs[k]
        BY <1>2
      <4> QED
        BY <1>2, <3>1, <4>1
    <3> QED
      BY <3>1, <3>2, <3>3
  <2>3. \A q \in recorded[sid] \ snapped : KeysOf[q] \subseteq dirty
    BY <1>1, <2>1 DEF Aggregates, LiveAggregates
  <2> QED
    BY <1>2, <2>2, <2>3
<1>5. FlushedAggregates'
  BY <1>1, <1>2, <1>3 DEF FlushedAggregates, AfterFlush, Own, Control, WriterControl
<1>6. BatchAggregates' /\ StoredAggregates'
  BY <1>1, <1>2 DEF Aggregates, BatchAggregates, StoredAggregates, Own, Exists
<1>7. KeysAgree' /\ FlowsAgree'
  BY <1>2 DEF Aggregates, KeysAgree, FlowsAgree, Exists
<1>8. CompleteIsStored'
  <2>1. state[sid] = "complete" => sid \in late'
    BY <1>1, <1>2, <1>3 DEF RowControl, Recording, Own
  <2>2. \A c \in Ids \ {sid} : recorded'[c] = recorded[c]
    BY <1>2 DEF TypeOK
  <2> QED
    BY <1>2, <2>1, <2>2 DEF Aggregates, CompleteIsStored
<1> QED
  BY <1>4, <1>5, <1>6, <1>7, <1>8 DEF Aggregates

\* A committed transaction stores the snapshot it was taken from.
LEMMA FlushTxAggregates ==
    ASSUME TypeOK, Control, RowControl, Ledgers, Aggregates, FlushTx
    PROVE  Aggregates'
<1>1. /\ Own /\ sid \in Ids /\ wpc = "commit"
      /\ snapped \in SUBSET Packets
      /\ snapped \subseteq recorded[sid]
  BY DEF FlushTx, Control, NoSession, Own, Idle, TypeOK, Ledgers, BucketsSinceSnapshot
<1>2. /\ UNCHANGED <<state, fileOf, memory, session, recorded, snapped, lossy, late, reused>>
      /\ batch' = NoBatch /\ wpc' # "commit"
      /\ mpc' = IF mpc = "flushing" THEN "drop" ELSE mpc
  BY DEF FlushTx, ReportDrops, Return, After, Control, WriterControl
<1>3. /\ stored' = [stored EXCEPT ![sid] = snapped]
      /\ stored'[sid] = snapped
      /\ \A k \in Keys : totals'[sid][k] =
            IF k \in batch.keys THEN batch.aggs[k] ELSE totals[sid][k]
      /\ \A f \in Flows : flowBuckets'[sid][f] = flowBuckets[sid][f] + batch.buckets[f]
      /\ \A c \in Ids \ {sid} : /\ totals'[c] = totals[c]
                                /\ flowBuckets'[c] = flowBuckets[c]
                                /\ stored'[c] = stored[c]
  BY <1>1 DEF FlushTx, TypeOK
<1>4. LiveAggregates'
  BY <1>2 DEF Aggregates, LiveAggregates, AggsLive, Own
<1>5. FlushedAggregates'
  BY <1>1, <1>2 DEF Aggregates, FlushedAggregates, AfterFlush, Own
<1>6. BatchAggregates'
  BY <1>2 DEF BatchAggregates
<1>7. sid \notin late => \A k \in batch.keys : batch.aggs[k] = Cardinality(InKey(snapped, k))
  BY <1>1 DEF Aggregates, BatchAggregates
<1>8. StoredAggregates'
  <2>1. ASSUME NEW k \in Keys, sid \notin late
        PROVE  totals'[sid][k] <= Cardinality(InKey(snapped, k))
    <3>1. totals[sid][k] <= Cardinality(InKey(snapped, k)) /\ Cardinality(InKey(snapped, k)) \in Nat
      BY <1>1, <2>1, CountType DEF Aggregates, StoredAggregates
    <3> QED
      BY <1>3, <1>7, <2>1, <3>1
  <2> QED
    BY <1>2, <1>3, <2>1 DEF StoredAggregates, Own
<1>9. KeysAgree'
  <2>1. ASSUME sid \notin lossy \cup late, Exists(sid), NEW k \in Keys
        PROVE  totals'[sid][k] = Cardinality(InKey(snapped, k))
    <3>1. CASE k \in batch.keys
      BY <1>3, <1>7, <2>1, <3>1
    <3>2. CASE k \notin batch.keys
      <4>1. /\ stored[sid] \subseteq snapped
            /\ \A p \in snapped \ stored[sid] : k \notin KeysOf[p]
        BY <1>1, <2>1, <3>2 DEF Aggregates, BatchAggregates
      <4>2. InKey(stored[sid], k) = InKey(snapped, k)
        BY <4>1 DEF InKey
      <4>3. totals[sid][k] = Cardinality(InKey(stored[sid], k))
        BY <1>1, <2>1 DEF Aggregates, KeysAgree
      <4> QED
        BY <1>3, <3>2, <4>2, <4>3
    <3> QED
      BY <3>1, <3>2
  <2>2. \A c \in Ids \ {sid} : totals'[c] = totals[c] /\ stored'[c] = stored[c]
    BY <1>3
  <2> QED
    BY <1>2, <1>3, <2>1, <2>2 DEF Aggregates, KeysAgree, Exists
<1>10. FlowsAgree'
  <2>1. ASSUME sid \notin lossy \cup late \cup reused, Exists(sid), NEW f \in Flows
        PROVE  flowBuckets'[sid][f] = Cardinality(InFlow(snapped, f))
    <3>1. flowBuckets[sid][f] + batch.buckets[f] + buckets[f] = Cardinality(InFlow(recorded[sid], f))
      BY <1>1, <2>1 DEF Ledgers, BucketLedger, Own
    <3>2. buckets[f] + Cardinality(InFlow(snapped, f)) = Cardinality(InFlow(recorded[sid], f))
      BY <1>1 DEF Ledgers, BucketsSinceSnapshot
    <3>3. /\ flowBuckets[sid][f] \in Nat /\ batch.buckets[f] \in Nat /\ buckets[f] \in Nat
          /\ Cardinality(InFlow(snapped, f)) \in Nat
      BY <1>1, BatchFields, CountType DEF TypeOK
    <3> QED
      BY <1>3, <3>1, <3>2, <3>3
  <2>2. \A c \in Ids \ {sid} : flowBuckets'[c] = flowBuckets[c] /\ stored'[c] = stored[c]
    BY <1>3
  <2> QED
    BY <1>2, <1>3, <2>1, <2>2 DEF Aggregates, FlowsAgree, Exists
<1>11. CompleteIsStored'
  <2>1. (state[sid] = "complete" /\ sid \notin late) => snapped = recorded[sid]
    BY <1>1, LiveOrFlushed DEF Aggregates, FlushedAggregates
  <2>2. \A c \in Ids \ {sid} : stored'[c] = stored[c]
    BY <1>3
  <2> QED
    BY <1>2, <1>3, <2>1, <2>2 DEF Aggregates, CompleteIsStored
<1> QED
  BY <1>4, <1>5, <1>6, <1>8, <1>9, <1>10, <1>11 DEF Aggregates

\* A transaction that rolls back loses something only if it had something.
LEMMA FlushTxFailsAggregates ==
    ASSUME TypeOK, Control, RowControl, Ledgers, Aggregates, FlushTxFails
    PROVE  Aggregates'
<1>1. /\ Own /\ sid \in Ids /\ wpc = "commit"
  BY DEF FlushTxFails, Control, NoSession, Own, Idle, TypeOK
<1>2. /\ UNCHANGED <<disk, memory, session, recorded, snapped, stored, late, reused>>
      /\ batch' = NoBatch /\ wpc' # "commit"
      /\ mpc' = IF mpc = "flushing" THEN "drop" ELSE mpc
      /\ lossy' = IF batch = NoBatch THEN lossy ELSE lossy \cup {sid}
  BY DEF FlushTxFails, ReportDrops, Return, After, Control, WriterControl
<1>3. LiveAggregates'
  BY <1>2 DEF Aggregates, LiveAggregates, AggsLive, Own
<1>4. FlushedAggregates'
  BY <1>1, <1>2 DEF Aggregates, FlushedAggregates, AfterFlush, Own
<1>5. BatchAggregates'
  BY <1>2 DEF BatchAggregates
<1>6. StoredAggregates'
  BY <1>1, <1>2 DEF Aggregates, StoredAggregates, BatchAggregates, Own, Exists
<1>7. KeysAgree' /\ FlowsAgree' /\ CompleteIsStored'
  BY <1>2 DEF Aggregates, KeysAgree, FlowsAgree, CompleteIsStored, Exists
<1> QED
  BY <1>3, <1>4, <1>5, <1>6, <1>7 DEF Aggregates

\* A new capture starts from nothing.
LEMMA BeginAggregates ==
    ASSUME TypeOK, Control, RowControl, Ledgers, Aggregates, BeginCapture
    PROVE  Aggregates'
<1>1. /\ sid = 0 /\ ~cacheHit /\ snapped = {}
      /\ aggs = NoTotals /\ dirty = {} /\ wpc # "commit"
  BY DEF BeginCapture, Control, NoSession, MainControl, Own, Idle
<1>2. PICK c \in Ids :
         /\ ~Exists(c)
         /\ sid' = c
         /\ state' = [state EXCEPT ![c] = "open"]
         /\ fileOf' = [fileOf EXCEPT ![c] = file]
         /\ recorded' = [recorded EXCEPT ![c] = {}]
         /\ stored' = [stored EXCEPT ![c] = {}]
         /\ lossy' = lossy \ {c}
         /\ late' = late \ {c}
         /\ reused' = IF flowBuckets[c] # NoBuckets \/ packetRows[c] # 0
                      THEN reused \cup {c} ELSE reused \ {c}
  <2>1. \A c \in Ids : IsNextId(c) => ~Exists(c)
    BY ConstantsAssumption DEF IsNextId, Ids
  <2> QED
    BY <2>1 DEF BeginCapture
<1>3. /\ UNCHANGED <<totals, flowBuckets, memory, writer, mode, cacheHit, snapped>>
      /\ mode # "pcap" => mpc' = "serve"
      /\ mode = "pcap" => mpc' = "ingest"
  BY DEF BeginCapture, AfterBegin
<1>4. /\ state'[c] = "open" /\ recorded'[c] = {} /\ stored'[c] = {}
      /\ totals[c] = NoTotals
      /\ \A d \in Ids \ {c} : /\ state'[d] = state[d] /\ fileOf'[d] = fileOf[d]
                              /\ recorded'[d] = recorded[d] /\ stored'[d] = stored[d]
      /\ mode \in {"live", "pcap"}
  BY <1>2 DEF RowControl, TypeOK
<1>5. /\ \A k \in Keys : NoTotals[k] = 0 /\ Cardinality(InKey({}, k)) = 0
      /\ \A f \in Flows : NoBuckets[f] = 0 /\ Cardinality(InFlow({}, f)) = 0
  BY CountEmpty DEF NoTotals, NoBuckets
<1>6. LiveAggregates'
  BY <1>1, <1>2, <1>3, <1>4, <1>5 DEF LiveAggregates
<1>7. FlushedAggregates'
  BY <1>1, <1>3, <1>4 DEF FlushedAggregates, AfterFlush
<1>8. BatchAggregates' /\ StoredAggregates'
  BY <1>1, <1>2, <1>3, <1>4, <1>5 DEF BatchAggregates, StoredAggregates
<1>9. KeysAgree'
  <2>1. \A k \in Keys : totals'[c][k] = Cardinality(InKey(stored'[c], k))
    BY <1>3, <1>4, <1>5
  <2>2. ASSUME NEW d \in Ids \ {c}, d \notin lossy \cup late, Exists(d), NEW k \in Keys
        PROVE  totals'[d][k] = Cardinality(InKey(stored'[d], k))
    BY <1>3, <1>4, <2>2 DEF Aggregates, KeysAgree
  <2> QED
    BY <1>2, <1>4, <2>1, <2>2 DEF KeysAgree, Exists
<1>10. FlowsAgree'
  <2>1. ASSUME c \notin reused', NEW f \in Flows
        PROVE  flowBuckets'[c][f] = Cardinality(InFlow(stored'[c], f))
    <3>1. flowBuckets'[c] = NoBuckets
      BY <1>2, <1>3, <2>1
    <3> QED
      BY <1>4, <1>5, <3>1
  <2>2. ASSUME NEW d \in Ids \ {c}, d \notin lossy \cup late \cup reused, Exists(d),
               NEW f \in Flows
        PROVE  flowBuckets'[d][f] = Cardinality(InFlow(stored'[d], f))
    <3>1. flowBuckets[d][f] = Cardinality(InFlow(stored[d], f))
      BY <2>2 DEF Aggregates, FlowsAgree
    <3> QED
      BY <1>3, <1>4, <2>2, <3>1
  <2>3. ASSUME NEW d \in Ids \ {c}, d \notin lossy' \cup late' \cup reused',
               state'[d] # "none"
        PROVE  d \notin lossy \cup late \cup reused /\ Exists(d)
    BY <1>2, <1>4, <2>3 DEF Exists
  <2> SUFFICES ASSUME NEW d \in Ids, d \notin lossy' \cup late' \cup reused',
                      state'[d] # "none", NEW f \in Flows
               PROVE  flowBuckets'[d][f] = Cardinality(InFlow(stored'[d], f))
    BY DEF FlowsAgree, Exists
  <2>4. CASE d = c
    <3>1. c \notin reused'
      BY <2>4
    <3> QED
      BY <2>1, <2>4, <3>1
  <2>5. CASE d \in Ids \ {c}
    <3>1. Exists(d) /\ d \notin lossy \cup late \cup reused
      BY <2>3, <2>5
    <3> QED
      BY <2>2, <2>5, <3>1
  <2> QED
    BY <2>4, <2>5
<1>11. CompleteIsStored'
  BY <1>2, <1>3, <1>4 DEF Aggregates, CompleteIsStored
<1> QED
  BY <1>6, <1>7, <1>8, <1>9, <1>10, <1>11 DEF Aggregates

\* EndCapture stamps complete a capture all of which is stored, unless some was
\* lost or came late.
LEMMA StampAggregates ==
    ASSUME TypeOK, Control, RowControl, Ledgers, Aggregates, StampCapture
    PROVE  Aggregates'
<1>1. /\ Own /\ sid \in Ids /\ mpc = "stamp" /\ AfterFlush
      /\ mode \in {"live", "pcap"}
      /\ state[sid] = "open"
  BY DEF StampCapture, Control, MainControl, RowControl, Recording, Own, AfterFlush, TypeOK
<1>2. /\ UNCHANGED <<fileOf, totals, flowBuckets, memory, writer, session, recorded, snapped,
                     stored, lossy, late, reused>>
      /\ mode = "pcap" => mpc' = "serve"
      /\ mode = "live" => mpc' = "shutdown"
      /\ \/ state' = [state EXCEPT ![sid] = "complete"]
         \/ state' = state
  BY <1>1 DEF StampCapture, MainUnchanged, AfterEnd
<1>3. \A c \in Ids : state'[c] # "none" <=> state[c] # "none"
  BY <1>1, <1>2 DEF TypeOK
<1>4. LiveAggregates'
  BY <1>1, <1>2 DEF LiveAggregates, AggsLive
<1>5. FlushedAggregates'
  BY <1>1, <1>2 DEF Aggregates, FlushedAggregates, Own
<1>6. BatchAggregates' /\ StoredAggregates'
  BY <1>1, <1>2, <1>3 DEF Aggregates, BatchAggregates, StoredAggregates, Own, Exists
<1>7. KeysAgree' /\ FlowsAgree'
  BY <1>2, <1>3 DEF Aggregates, KeysAgree, FlowsAgree, Exists
<1>8. CompleteIsStored'
  <2>1. ASSUME sid \notin lossy \cup late PROVE stored[sid] = recorded[sid]
    <3>1. snapped = recorded[sid] /\ (wpc = "commit" => batch = NoBatch)
      BY <1>1, <2>1 DEF Aggregates, FlushedAggregates
    <3> QED
      BY <1>1, <2>1, <3>1 DEF Aggregates, BatchAggregates, StoredAggregates, Exists
  <2>2. fileOf[sid] # NoFile => recorded[sid] = Content[fileOf[sid]]
    BY <1>1 DEF RowControl, Control, MainControl, Exists
  <2>3. \A c \in Ids \ {sid} : state'[c] = state[c]
    BY <1>2 DEF TypeOK
  <2> QED
    BY <1>2, <2>1, <2>2, <2>3 DEF Aggregates, CompleteIsStored
<1> QED
  BY <1>4, <1>5, <1>6, <1>7, <1>8 DEF Aggregates

\* A pruned capture had nothing left to be written.
LEMMA PruneAggregates ==
    ASSUME TypeOK, Control, RowControl, Ledgers, Aggregates, PruneCaptures
    PROVE  Aggregates'
<1>1. PICK expired \in SUBSET Expirable :
         /\ state' = [c \in Ids |-> IF c \in expired THEN "none" ELSE state[c]]
         /\ fileOf' = [c \in Ids |-> IF c \in expired THEN NoFile ELSE fileOf[c]]
         /\ totals' = [c \in Ids |-> IF c \in expired THEN NoTotals ELSE totals[c]]
         /\ stored' = [c \in Ids |-> IF c \in expired THEN {} ELSE stored[c]]
  BY DEF PruneCaptures
<1>2. UNCHANGED <<flowBuckets, memory, writer, session, mpc, recorded, snapped, lossy, late, reused>>
  BY DEF PruneCaptures, RetentionUnchanged
<1>3. /\ sid \in expired => wpc # "commit"
      /\ expired \subseteq Ids
  BY DEF Expirable, Quiescent
<1>4. LiveAggregates' /\ FlushedAggregates'
  BY <1>2 DEF Aggregates, LiveAggregates, FlushedAggregates, AggsLive, AfterFlush, Own
<1>5. BatchAggregates'
  BY <1>1, <1>2, <1>3 DEF Aggregates, BatchAggregates, Own, TypeOK
<1>6. StoredAggregates'
  <2>1. ASSUME Own, sid \notin late, NEW k \in Keys
        PROVE  totals'[sid][k] <= Cardinality(InKey(snapped, k))
    <3>1. /\ sid \in Ids
          /\ totals[sid][k] <= Cardinality(InKey(snapped, k))
          /\ Cardinality(InKey(snapped, k)) \in Nat
      BY <2>1, CountType DEF Aggregates, StoredAggregates, Own, TypeOK
    <3> QED
      BY <1>1, <3>1 DEF NoTotals
  <2>2. ASSUME Own, sid \notin late \cup lossy, wpc # "commit", state'[sid] # "none"
        PROVE  stored'[sid] = snapped
    <3>1. sid \in Ids \ expired /\ state[sid] # "none"
      BY <1>1, <2>2 DEF Own, TypeOK
    <3> QED
      BY <1>1, <2>2, <3>1 DEF Aggregates, StoredAggregates, Exists
  <2> QED
    BY <1>2, <2>1, <2>2 DEF StoredAggregates, Own, Exists
<1>7. KeysAgree' /\ FlowsAgree' /\ CompleteIsStored'
  BY <1>1, <1>2 DEF Aggregates, KeysAgree, FlowsAgree, CompleteIsStored, Exists
<1> QED
  BY <1>4, <1>5, <1>6, <1>7 DEF Aggregates

LEMMA NextAggregates ==
    TypeOK /\ Control /\ RowControl /\ Ledgers /\ Aggregates /\ [Next]_vars => Aggregates'
<1> SUFFICES ASSUME TypeOK, Control, RowControl, Ledgers, Aggregates, [Next]_vars
             PROVE  Aggregates'
  OBVIOUS
<1>1. ASSUME NEW m \in {"live", "pcap"}, NEW f \in Files \cup {NoFile},
             NEW n \in PacketEveryChoices, Boot(m, f, n)
      PROVE  Aggregates'
  BY <1>1, AggregatesWithoutSession DEF Boot, Control, MainControl, Own
<1>2. ASSUME NEW p \in Packets, Record(p) PROVE Aggregates'
  <2>1. CASE sid = 0
    BY <1>2, <2>1, AggregatesWithoutSession DEF Record, Own
  <2> QED
    BY <1>2, <2>1, RecordAggregates
<1>3. ASSUME SendRow PROVE Aggregates'
  BY <1>3, AggregatesFrame DEF SendRow, AggsLive, AfterFlush
<1>4. ASSUME IngestReturns PROVE Aggregates'
  BY <1>4, AggregatesFrame DEF IngestReturns, AggsLive, AfterFlush
<1>5. ASSUME WriterReceives PROVE Aggregates'
  <2>1. /\ Own /\ Exists(sid) /\ wpc # "commit" /\ pending + 1 \in Nat
        /\ mpc # "flushing"
    BY <1>5 DEF WriterReceives, Control, NoSession, WriterControl, RowControl, Own, Idle, TypeOK
  <2>2. UNCHANGED <<disk, aggs, mode, cacheHit, sid, recorded, stored, lossy, late, reused>>
    BY <1>5 DEF WriterReceives, WriterUnchanged
  <2>3. CASE StartFlush(pending + 1, "select")
    BY <2>1, <2>2, <2>3, StartFlushAggregates
  <2>4. CASE UNCHANGED <<dirty, buckets, batch, wpc, mpc, snapped>>
    BY <2>2, <2>4, AggregatesFrame DEF AggsLive, AfterFlush
  <2> QED
    BY <1>5, <2>3, <2>4 DEF WriterReceives
<1>6. ASSUME WriterTicks PROVE Aggregates'
  <2>1. /\ wpc # "commit" /\ mpc # "flushing" /\ pending \in Nat
        /\ pending # 0 => Own /\ Exists(sid)
    BY <1>6 DEF WriterTicks, Control, NoSession, WriterControl, RowControl, Own, Idle, TypeOK
  <2>2. /\ StartFlush(pending, "select")
        /\ UNCHANGED <<disk, aggs, mode, cacheHit, sid, recorded, stored, lossy, late, reused>>
    BY <1>6 DEF WriterTicks, WriterUnchanged
  <2> QED
    BY <2>1, <2>2, StartFlushAggregates
<1>7. ASSUME WriterServesFlush PROVE Aggregates'
  BY <1>7, AggregatesFrame DEF WriterServesFlush, WriterUnchanged, AggsLive, AfterFlush
<1>8. ASSUME WriterSeesDone PROVE Aggregates'
  BY <1>8, AggregatesFrame DEF WriterSeesDone, WriterUnchanged, AggsLive, AfterFlush
<1>9. ASSUME WriterDrains PROVE Aggregates'
  <2>1. /\ wpc = "drain" /\ pending \in Nat
        /\ pending # 0 => Own /\ Exists(sid)
        /\ wnext = "reply" <=> mpc = "flushing"
    BY <1>9 DEF WriterDrains, Control, NoSession, WriterControl, RowControl, Own, Idle, TypeOK
  <2>2. UNCHANGED <<disk, aggs, mode, cacheHit, sid, recorded, stored, lossy, late, reused>>
    BY <1>9 DEF WriterDrains, WriterUnchanged
  <2>3. CASE StartFlush(pending, wnext)
    BY <2>1, <2>2, <2>3, StartFlushAggregates
  <2>4. CASE UNCHANGED <<dirty, buckets, batch, wpc, mpc, snapped>>
    BY <2>2, <2>4, AggregatesFrame DEF AggsLive, AfterFlush
  <2> QED
    BY <1>9, <2>3, <2>4 DEF WriterDrains
<1>10. ASSUME CacheHit PROVE Aggregates'
  BY <1>10, AggregatesWithoutSession DEF CacheHit, Own
<1>11. ASSUME BeginFails PROVE Aggregates'
  BY <1>11, AggregatesWithoutSession DEF BeginFails, Control, MainControl, Own
<1>12. ASSUME IngestDone PROVE Aggregates'
  BY <1>12, AggregatesFrame DEF IngestDone, MainUnchanged, AggsLive, AfterFlush, Own
<1>13. ASSUME Signal PROVE Aggregates'
  BY <1>13, AggregatesFrame DEF Signal, MainUnchanged, AggsLive, AfterFlush, Own, TypeOK
<1>14. ASSUME CloseStore PROVE Aggregates'
  BY <1>14, AggregatesFrame DEF CloseStore, MainUnchanged, AggsLive, AfterFlush
<1>15. ASSUME DropCapture PROVE Aggregates'
  <2>1. /\ mpc = "drop" /\ mpc' = "stamp" /\ dirty' = {}
        /\ UNCHANGED <<disk, buckets, queue, writer, session, recorded, snapped, stored, lossy,
                       late, reused>>
    BY <1>15 DEF DropCapture, MainUnchanged
  <2>2. LiveAggregates' /\ FlushedAggregates'
    BY <2>1 DEF Aggregates, LiveAggregates, FlushedAggregates, AggsLive, AfterFlush, Own
  <2>3. BatchAggregates' /\ StoredAggregates'
    BY <2>1 DEF Aggregates, BatchAggregates, StoredAggregates, Own, Exists
  <2>4. KeysAgree' /\ FlowsAgree' /\ CompleteIsStored'
    BY <2>1 DEF Aggregates, KeysAgree, FlowsAgree, CompleteIsStored, Exists
  <2> QED
    BY <2>2, <2>3, <2>4 DEF Aggregates
<1>16. ASSUME Exit \/ Crash PROVE Aggregates'
  BY <1>16, AggregatesWithoutSession DEF Exit, Crash, ProcessDies, Own
<1>17. ASSUME SweepBuckets PROVE Aggregates'
  <2>1. /\ flowBuckets' = flowBuckets
           \/ flowBuckets' = [c \in Ids |-> IF Exists(c) THEN flowBuckets[c] ELSE NoBuckets]
        /\ UNCHANGED <<state, fileOf, totals, memory, writer, session, mpc, recorded, snapped,
                       stored, lossy, late, reused>>
    BY <1>17 DEF SweepBuckets, RetentionUnchanged
  <2>2. LiveAggregates' /\ FlushedAggregates'
    BY <2>1 DEF Aggregates, LiveAggregates, FlushedAggregates, AggsLive, AfterFlush, Own
  <2>3. BatchAggregates' /\ StoredAggregates'
    BY <2>1 DEF Aggregates, BatchAggregates, StoredAggregates, Own, Exists
  <2>4. KeysAgree' /\ FlowsAgree' /\ CompleteIsStored'
    BY <2>1 DEF Aggregates, KeysAgree, FlowsAgree, CompleteIsStored, Exists
  <2> QED
    BY <2>2, <2>3, <2>4 DEF Aggregates
<1>18. ASSUME SweepRows PROVE Aggregates'
  BY <1>18, AggregatesFrame DEF SweepRows, RetentionUnchanged, AggsLive, AfterFlush
<1>19. ASSUME UNCHANGED vars PROVE Aggregates'
  BY <1>19, AggregatesFrame DEF vars, AggsLive, AfterFlush
<1> QED
  BY <1>1, <1>2, <1>3, <1>4, <1>5, <1>6, <1>7, <1>8, <1>9, <1>10, <1>11, <1>12,
     <1>13, <1>14, <1>15, <1>16, <1>17, <1>18, <1>19, FlushTxAggregates,
     FlushTxFailsAggregates, BeginAggregates, StampAggregates, PruneAggregates
  DEF Next, Writer, Main

-----------------------------------------------------------------------------
(* The theorems.                                                           *)

IInv == TypeOK /\ Control /\ RowControl /\ Ledgers /\ Drains /\ Aggregates

LEMMA Inductive == IInv /\ [Next]_vars => IInv'
  BY NextType, NextControl, NextRow, NextLedgers, NextDrains, NextAggregates DEF IInv

\* The inductive invariant of the store holds in every reachable state.
THEOREM StoreInvariant == Spec => []IInv
<1>1. Init => IInv
  <2>1. Init => Drains
    BY ConstantsAssumption DEF Init, Drains
  <2> QED
    BY <2>1, InitControl, InitRow, InitLedgers, InitAggregates DEF IInv
<1> QED
  BY <1>1, Inductive, PTL DEF Spec

\* No bucket increment is lost but by a failed flush, and none is added twice:
\* writer.go snapshot, flush and flushTx, against any crash, prune or EndCapture.
THEOREM BucketsAccounted == Spec => []BucketLedger
<1>1. IInv => BucketLedger
  BY DEF IInv, Ledgers
<1> QED
  BY <1>1, StoreInvariant, PTL

\* Every selected packet-index row is stored, waiting or counted as dropped, short
\* of a failed flush and of a count a flush forgot; a replay drops none, EndCapture
\* leaves at most what one drain does not take and Close what two do not:
\* store.go RecordPacket, RecordPacketSync and Close, writer.go writerLoop.
THEOREM RowsAccounted == Spec => []RowLedger
<1>1. IInv => RowLedger
  BY DEF IInv, Ledgers, Drains, Few, RowLedger, FewLeft
<1> QED
  BY <1>1, StoreInvariant, PTL

\* At every instant, so after a crash at any point, the node, edge and bucket
\* tables of a capture count the same packets: writer.go snapshot and flushTx.
THEOREM TablesConsistent == Spec => []TablesAgree
<1>1. IInv => TablesAgree
  BY DEF IInv, Aggregates, KeysAgree, FlowsAgree, TablesAgree
<1> QED
  BY <1>1, StoreInvariant, PTL

\* A complete capture is exactly what was recorded for it, and a complete replay
\* the whole file: store.go EndCapture, the criterion of FindCompletePcap.
THEOREM CompleteExact == Spec => []CompleteIsExact
<1>1. IInv => CompleteIsExact
  <2> SUFFICES ASSUME IInv, NEW c \in Ids \ (lossy \cup late), state[c] = "complete"
               PROVE  /\ \A k \in Keys : totals[c][k] = Cardinality(InKey(recorded[c], k))
                      /\ fileOf[c] # NoFile => recorded[c] = Content[fileOf[c]]
    BY DEF CompleteIsExact
  <2>1. /\ stored[c] = recorded[c]
        /\ fileOf[c] # NoFile => recorded[c] = Content[fileOf[c]]
    BY DEF IInv, Aggregates, CompleteIsStored
  <2>2. \A k \in Keys : totals[c][k] = Cardinality(InKey(stored[c], k))
    BY DEF IInv, Aggregates, KeysAgree, Exists
  <2> QED
    BY <2>1, <2>2
<1> QED
  BY <1>1, StoreInvariant, PTL

\* A stored total never falls while its capture exists, failed flushes included,
\* unless a packet came after EndCapture began: writer.go flushTx writes the
\* aggregator's cumulative values over the stored ones.
THEOREM TotalsNeverFall == Spec => TotalsGrow
<1> DEFINE Grow == \A c \in Ids : (Exists(c) /\ Exists(c)' /\ c \notin late') =>
                      \A k \in Keys : totals'[c][k] >= totals[c][k]
<1>1. IInv /\ [Next]_vars => [Grow]_vars
  <2> SUFFICES ASSUME IInv, Next, NEW c \in Ids, Exists(c), state'[c] # "none", c \notin late',
                      NEW k \in Keys
               PROVE  totals'[c][k] >= totals[c][k]
    BY DEF Exists
  <2>1. totals[c][k] \in Nat
    BY DEF IInv, TypeOK
  <2>2. CASE FlushTx
    <3>1. /\ wpc = "commit" /\ late' = late /\ Own /\ TypeOK
          /\ totals' = [totals EXCEPT ![sid] =
                [j \in Keys |-> IF j \in batch.keys THEN batch.aggs[j] ELSE totals[sid][j]]]
      BY <2>2 DEF FlushTx, IInv, Control, NoSession, Idle
    <3>2. CASE c = sid /\ k \in batch.keys
      <4>1. /\ totals[c][k] <= Cardinality(InKey(snapped, k))
            /\ batch.aggs[k] = Cardinality(InKey(snapped, k))
        BY <3>1, <3>2 DEF IInv, Aggregates, StoredAggregates, BatchAggregates
      <4>2. Cardinality(InKey(snapped, k)) \in Nat /\ totals'[c][k] = batch.aggs[k]
        BY <3>1, <3>2, CountType DEF TypeOK
      <4> QED
        BY <2>1, <4>1, <4>2
    <3>3. CASE ~(c = sid /\ k \in batch.keys)
      BY <2>1, <3>1, <3>3 DEF TypeOK
    <3> QED
      BY <3>2, <3>3
  <2>3. CASE PruneCaptures
    BY <2>1, <2>3 DEF PruneCaptures
  <2>4. CASE UNCHANGED totals
    BY <2>1, <2>4
  <2>5. FlushTx \/ PruneCaptures \/ UNCHANGED totals
    BY DEF Next, Writer, Main, Boot, Record, SendRow, IngestReturns, WriterReceives, WriterTicks,
           WriterServesFlush, WriterSeesDone, WriterDrains, WriterUnchanged, FlushTxFails,
           CacheHit, BeginCapture, BeginFails, IngestDone, DropCapture, StampCapture, CloseStore,
           Exit, Signal, Crash, ProcessDies, MainUnchanged, SweepBuckets, SweepRows
  <2> QED
    BY <2>2, <2>3, <2>4, <2>5
<1> QED
  BY <1>1, StoreInvariant, PTL DEF Spec, TotalsGrow

-----------------------------------------------------------------------------
(* CaptureStore implements PcapCache.  The refinement needs four facts     *)
(* more, which are inductive relative to IInv: what the graph of a replay  *)
(* shows while it parses, that a file has at most one row, that only       *)
(* sessions without a file record late, and that a row of a file never     *)
(* counts more than the file.                                              *)

\* The graph of a replay that parses shows the packets already processed.
ShownCounts ==
    /\ mpc \in {"down", "boot"} => shown = NoTotals
    /\ (mode = "pcap" /\ ~cacheHit /\ mpc \notin {"down", "boot"}) =>
          shown = [k \in Keys |-> Cardinality(InKey(Content[file] \ todo, k))]

\* The unique index cap_pcap_key.
OneRowPerFile ==
    \A c, d \in Ids :
        (Exists(c) /\ Exists(d) /\ fileOf[c] = fileOf[d] /\ fileOf[c] # NoFile) => c = d

LateIsLive == \A c \in late : Exists(c) => fileOf[c] = NoFile

TotalsWithinFile ==
    \A c \in Ids :
        (Exists(c) /\ fileOf[c] # NoFile) =>
            \A k \in Keys : totals[c][k] <= Cardinality(InKey(Content[fileOf[c]], k))

ReplayInv == ShownCounts /\ OneRowPerFile /\ LateIsLive /\ TotalsWithinFile

-----------------------------------------------------------------------------
(* ReplayInv is inductive relative to IInv.                                *)

USE DEF disk, memory, queue, writer, session, history, Fault, NoFault

LEMMA InitReplay == Init => ReplayInv
  BY DEF Init, ReplayInv, ShownCounts, OneRowPerFile, LateIsLive, TotalsWithinFile, Exists

LEMMA FileCounts ==
    ASSUME NEW f \in Files, NEW k \in Keys
    PROVE  /\ Content[f] \in SUBSET Packets
           /\ Cardinality(InKey(Content[f], k)) \in Nat
<1>1. Content[f] \in SUBSET Packets
  BY ConstantsAssumption
<1> QED
  BY <1>1, CountType

\* A replay that begins to parse has shown nothing yet.
LEMMA NothingShown ==
    ASSUME NEW f, shown = NoTotals
    PROVE  shown = [k \in Keys |-> Cardinality(InKey(Content[f] \ Content[f], k))]
<1>1. Content[f] \ Content[f] = {}
  OBVIOUS
<1>2. \A k \in Keys : Cardinality(InKey(Content[f] \ Content[f], k)) = 0
  BY <1>1, CountEmpty
<1> QED
  BY <1>2 DEF NoTotals

\* The steps that move neither what is shown nor the rows of captures.
LEMMA ReplayFrame ==
    ASSUME ReplayInv,
           UNCHANGED <<state, fileOf, totals, mode, file, cacheHit, todo, shown, late>>,
           mpc' \in {"down", "boot"} <=> mpc \in {"down", "boot"}
    PROVE  ReplayInv'
  BY DEF ReplayInv, ShownCounts, OneRowPerFile, LateIsLive, TotalsWithinFile, Exists

LEMMA RecordReplay ==
    ASSUME IInv, ReplayInv, NEW p \in Packets, Record(p)
    PROVE  ReplayInv'
<1>1. /\ UNCHANGED <<state, fileOf, totals, mode, file, cacheHit, sid, mpc>>
      /\ mpc \notin {"down", "boot"}
      /\ todo' = todo \ {p}
      /\ mode = "live" \/ (mode = "pcap" /\ p \in todo)
  BY DEF Record, Ingesting
<1>2. OneRowPerFile' /\ TotalsWithinFile'
  BY <1>1 DEF ReplayInv, OneRowPerFile, TotalsWithinFile, Exists
<1>3. LateIsLive'
  <2>1. CASE late' = late
    BY <1>1, <2>1 DEF ReplayInv, LateIsLive, Exists
  <2>2. CASE mode = "live" /\ sid # 0 /\ late' = late \cup {sid}
    <3>1. Own /\ file = NoFile
      BY <2>2 DEF IInv, Control, MainControl, Own
    <3>2. Exists(sid) => fileOf[sid] = NoFile
      BY <3>1 DEF IInv, RowControl
    <3> QED
      BY <1>1, <2>2, <3>2 DEF ReplayInv, LateIsLive, Exists
  <2> QED
    BY <2>1, <2>2 DEF Record
<1>4. ShownCounts'
  <2>1. CASE mode = "live"
    BY <1>1, <2>1 DEF ShownCounts
  <2>2. CASE mode = "pcap" /\ p \in todo /\ cacheHit
    BY <1>1, <2>2 DEF ShownCounts
  <2>3. CASE mode = "pcap" /\ p \in todo /\ ~cacheHit
    <3> DEFINE Seen == Content[file] \ todo
    <3>1. /\ file \in Files /\ todo \subseteq Content[file]
          /\ Content[file] \in SUBSET Packets
      BY <2>3, FileCounts, ConstantsAssumption DEF IInv, TypeOK, RowControl
    <3>2. Content[file] \ todo' = Seen \cup {p} /\ Seen \in SUBSET Packets /\ p \in Packets \ Seen
      BY <1>1, <2>3, <3>1
    <3>3. /\ shown = [k \in Keys |-> Cardinality(InKey(Seen, k))]
          /\ shown' = [k \in Keys |-> IF k \in KeysOf[p] THEN shown[k] + 1 ELSE shown[k]]
      BY <1>1, <2>3 DEF ReplayInv, ShownCounts, Record
    <3>4. ASSUME NEW k \in Keys
          PROVE  (IF k \in KeysOf[p] THEN shown[k] + 1 ELSE shown[k])
                    = Cardinality(InKey(Content[file] \ todo', k))
      <4>1. shown[k] = Cardinality(InKey(Seen, k)) /\ Cardinality(InKey(Seen, k)) \in Nat
        BY <3>2, <3>3, CountType
      <4>2. Cardinality(InKey(Seen \cup {p}, k))
               = Cardinality(InKey(Seen, k)) + (IF k \in KeysOf[p] THEN 1 ELSE 0)
        BY <3>2, CountKeyAdd
      <4> QED
        BY <3>2, <4>1, <4>2
    <3>5. shown' = [k \in Keys |-> Cardinality(InKey(Content[file] \ todo', k))]
      BY <3>3, <3>4
    <3> QED
      BY <1>1, <2>3, <3>5 DEF ShownCounts
  <2> QED
    BY <1>1, <2>1, <2>2, <2>3
<1> QED
  BY <1>2, <1>3, <1>4 DEF ReplayInv

LEMMA BeginReplay ==
    ASSUME IInv, ReplayInv, BeginCapture
    PROVE  ReplayInv'
<1>1. PICK c \in Ids :
         /\ IsNextId(c)
         /\ state' = [state EXCEPT ![c] = "open"]
         /\ fileOf' = [fileOf EXCEPT ![c] = file]
         /\ late' = late \ {c}
  BY DEF BeginCapture
<1>2. /\ UNCHANGED <<totals, mode, file, cacheHit, shown>>
      /\ mpc = "boot" /\ ~KeyTaken /\ AfterBegin
      /\ state[c] = "none"
      /\ TypeOK
  <2>1. state[c] = "none"
    BY <1>1 DEF IsNextId, Exists, Ids
  <2> QED
    BY <2>1 DEF BeginCapture, IInv
<1>3. ShownCounts'
  BY <1>2, NothingShown DEF ReplayInv, ShownCounts, AfterBegin
<1>4. OneRowPerFile'
  <2>1. ASSUME NEW d \in Ids, d # c, Exists(d), fileOf[d] = file, file # NoFile PROVE FALSE
    <3>1. mode = "pcap"
      BY <2>1 DEF IInv, Control, MainControl, TypeOK
    <3> QED
      BY <1>2, <2>1, <3>1 DEF KeyTaken
  <2>2. \A d \in Ids : /\ d # c => state'[d] = state[d] /\ fileOf'[d] = fileOf[d]
                       /\ d = c => fileOf'[d] = file
    BY <1>1, <1>2 DEF TypeOK
  <2> QED
    BY <2>1, <2>2 DEF ReplayInv, OneRowPerFile, Exists
<1>5. LateIsLive'
  BY <1>1, <1>2 DEF ReplayInv, LateIsLive, Exists, TypeOK
<1>6. TotalsWithinFile'
  <2> SUFFICES ASSUME NEW d \in Ids, state'[d] # "none", fileOf'[d] # NoFile, NEW k \in Keys
               PROVE  totals[d][k] <= Cardinality(InKey(Content[fileOf'[d]], k))
    BY <1>2 DEF TotalsWithinFile, Exists
  <2>1. CASE d = c
    <3>1. totals[d][k] = 0
      BY <1>2, <2>1 DEF IInv, RowControl, Exists, NoTotals
    <3>2. fileOf'[d] \in Files
      BY <1>1, <1>2, <2>1 DEF TypeOK
    <3> QED
      BY <3>1, <3>2, FileCounts
  <2>2. CASE d # c
    BY <1>1, <1>2, <2>2 DEF ReplayInv, TotalsWithinFile, Exists, TypeOK
  <2> QED
    BY <2>1, <2>2
<1> QED
  BY <1>3, <1>4, <1>5, <1>6 DEF ReplayInv

\* A flush of a replay writes no more than the packets of the file.
LEMMA FlushReplay ==
    ASSUME IInv, ReplayInv, FlushTx
    PROVE  ReplayInv'
<1>1. /\ UNCHANGED <<state, fileOf, mode, file, cacheHit, sid, todo, shown, late>>
      /\ wpc = "commit" /\ mpc' \in {mpc, "drop"}
      /\ totals' = [totals EXCEPT ![sid] =
            [j \in Keys |-> IF j \in batch.keys THEN batch.aggs[j] ELSE totals[sid][j]]]
  BY DEF FlushTx, Return
<1>2. Own /\ mpc \notin {"down", "boot"} /\ TypeOK
  BY <1>1 DEF IInv, Control, NoSession, MainControl, Own, Idle
<1>3. ShownCounts' /\ OneRowPerFile' /\ LateIsLive'
  BY <1>1, <1>2 DEF ReplayInv, ShownCounts, OneRowPerFile, LateIsLive, Exists
<1>4. TotalsWithinFile'
  <2> SUFFICES ASSUME NEW c \in Ids, Exists(c), fileOf[c] # NoFile, NEW k \in Keys
               PROVE  totals'[c][k] <= Cardinality(InKey(Content[fileOf[c]], k))
    BY <1>1 DEF TotalsWithinFile, Exists
  <2>1. CASE c = sid /\ k \in batch.keys
    <3>1. /\ fileOf[c] = file /\ mode = "pcap" /\ sid \notin late
          /\ file \in Files
      BY <1>2, <2>1 DEF IInv, RowControl, Control, MainControl, TypeOK, ReplayInv, LateIsLive
    <3>2. totals'[c][k] = Cardinality(InKey(snapped, k))
      BY <1>1, <1>2, <2>1, <3>1 DEF IInv, Aggregates, BatchAggregates, TypeOK
    <3>3. snapped \in SUBSET Content[file] /\ Content[file] \in SUBSET Packets
      BY <1>2, <2>1, <3>1, ConstantsAssumption
      DEF IInv, Ledgers, BucketsSinceSnapshot, RowControl
    <3> QED
      BY <3>1, <3>2, <3>3, CountKeyMonotone
  <2>2. CASE ~(c = sid /\ k \in batch.keys)
    <3>1. totals'[c][k] = totals[c][k]
      BY <1>1, <1>2, <2>2 DEF TypeOK
    <3> QED
      BY <3>1 DEF ReplayInv, TotalsWithinFile
  <2> QED
    BY <2>1, <2>2
<1> QED
  BY <1>3, <1>4 DEF ReplayInv

LEMMA PruneReplay ==
    ASSUME IInv, ReplayInv, PruneCaptures
    PROVE  ReplayInv'
<1>1. PICK expired \in SUBSET Ids :
         /\ state' = [c \in Ids |-> IF c \in expired THEN "none" ELSE state[c]]
         /\ fileOf' = [c \in Ids |-> IF c \in expired THEN NoFile ELSE fileOf[c]]
         /\ totals' = [c \in Ids |-> IF c \in expired THEN NoTotals ELSE totals[c]]
  BY DEF PruneCaptures, Expirable
<1>2. UNCHANGED <<mode, file, cacheHit, mpc, todo, shown, late>>
  BY DEF PruneCaptures, RetentionUnchanged
<1>3. ShownCounts'
  BY <1>2 DEF ReplayInv, ShownCounts
<1>4. OneRowPerFile' /\ TotalsWithinFile'
  BY <1>1 DEF ReplayInv, OneRowPerFile, TotalsWithinFile, Exists
<1>5. LateIsLive'
  BY <1>1, <1>2 DEF ReplayInv, LateIsLive, Exists, IInv, TypeOK
<1> QED
  BY <1>3, <1>4, <1>5 DEF ReplayInv

LEMMA StampReplay ==
    ASSUME IInv, ReplayInv, StampCapture
    PROVE  ReplayInv'
<1>1. UNCHANGED <<fileOf, totals, mode, file, cacheHit, sid, todo, shown, late>>
  BY DEF StampCapture, MainUnchanged
<1>2. \A c \in Ids : state'[c] # "none" <=> state[c] # "none"
  <2>1. state[sid] # "none" /\ TypeOK
    BY DEF StampCapture, IInv, Control, MainControl, RowControl, Own, Recording, TypeOK
  <2> QED
    BY <2>1 DEF StampCapture, TypeOK
<1>3. mpc \notin {"down", "boot"} /\ mpc' \notin {"down", "boot"}
  BY DEF StampCapture, AfterEnd
<1>4. ShownCounts'
  BY <1>1, <1>3 DEF ReplayInv, ShownCounts
<1>5. OneRowPerFile' /\ LateIsLive' /\ TotalsWithinFile'
  BY <1>1, <1>2 DEF ReplayInv, OneRowPerFile, LateIsLive, TotalsWithinFile, Exists, IInv, TypeOK
<1> QED
  BY <1>4, <1>5 DEF ReplayInv

\* The head of flush, whatever calls it.
LEMMA StartFlushPhase ==
    ASSUME NEW n, NEW next, StartFlush(n, next), next = "reply" => mpc = "flushing"
    PROVE  mpc' = mpc \/ (mpc = "flushing" /\ mpc' = "drop")
  BY DEF StartFlush, Return

\* What the writer does short of a transaction: main moves only from "flush" to
\* "flushing" to "drop".
LEMMA WriterPhase ==
    ASSUME IInv,
           WriterReceives \/ WriterTicks \/ WriterServesFlush \/ WriterSeesDone \/ WriterDrains
    PROVE  /\ UNCHANGED <<state, fileOf, totals, mode, file, cacheHit, sid, todo, shown,
                          late, lossy>>
           /\ \/ mpc' = mpc
              \/ mpc \in {"flush", "flushing"} /\ mpc' \in {"flushing", "drop"}
<1>1. UNCHANGED <<state, fileOf, totals, mode, file, cacheHit, sid, todo, shown, late, lossy>>
  BY DEF WriterReceives, WriterTicks, WriterServesFlush, WriterSeesDone, WriterDrains,
         WriterUnchanged
<1>2. CASE WriterReceives
  BY <1>1, <1>2, StartFlushPhase DEF WriterReceives
<1>3. CASE WriterTicks
  BY <1>1, <1>3, StartFlushPhase DEF WriterTicks
<1>4. CASE WriterServesFlush \/ WriterSeesDone
  BY <1>1, <1>4 DEF WriterServesFlush, WriterSeesDone
<1>5. CASE WriterDrains
  <2>1. wnext = "reply" => mpc = "flushing"
    BY <1>5 DEF WriterDrains, IInv, Control, WriterControl
  <2> QED
    BY <1>1, <1>5, <2>1, StartFlushPhase DEF WriterDrains
<1> QED
  BY <1>2, <1>3, <1>4, <1>5

LEMMA NextReplay == IInv /\ ReplayInv /\ [Next]_vars => ReplayInv'
<1> SUFFICES ASSUME IInv, ReplayInv, [Next]_vars
             PROVE  ReplayInv'
  OBVIOUS
<1>1. ASSUME NEW m \in {"live", "pcap"}, NEW f \in Files \cup {NoFile},
             NEW n \in PacketEveryChoices, Boot(m, f, n)
      PROVE  ReplayInv'
  BY <1>1 DEF Boot, ReplayInv, ShownCounts, OneRowPerFile, LateIsLive, TotalsWithinFile, Exists
<1>2. ASSUME SendRow \/ IngestReturns \/ SweepBuckets \/ SweepRows PROVE ReplayInv'
  BY <1>2, ReplayFrame
  DEF SendRow, IngestReturns, SweepBuckets, SweepRows, RetentionUnchanged
<1>3. ASSUME WriterReceives \/ WriterTicks \/ WriterServesFlush \/ WriterSeesDone \/ WriterDrains
      PROVE  ReplayInv'
  BY <1>3, WriterPhase, ReplayFrame
<1>4. ASSUME FlushTxFails PROVE ReplayInv'
  <2>1. mpc \notin {"down", "boot"}
    BY <1>4 DEF FlushTxFails, IInv, Control, NoSession, MainControl, Own, Idle
  <2> QED
    BY <1>4, <2>1, ReplayFrame DEF FlushTxFails, Return
<1>5. ASSUME CacheHit PROVE ReplayInv'
  BY <1>5 DEF CacheHit, ReplayInv, ShownCounts, OneRowPerFile, LateIsLive, TotalsWithinFile, Exists
<1>6. ASSUME BeginFails PROVE ReplayInv'
  <2>1. shown = NoTotals
    BY <1>6 DEF BeginFails, ReplayInv, ShownCounts
  <2> QED
    BY <1>6, <2>1, NothingShown
    DEF BeginFails, AfterBegin, ReplayInv, ShownCounts, OneRowPerFile, LateIsLive,
        TotalsWithinFile, Exists
<1>7. ASSUME IngestDone \/ Signal \/ DropCapture \/ CloseStore PROVE ReplayInv'
  BY <1>7, ReplayFrame DEF IngestDone, Signal, DropCapture, CloseStore, MainUnchanged
<1>8. ASSUME Exit \/ Crash PROVE ReplayInv'
  BY <1>8 DEF Exit, Crash, ProcessDies, ReplayInv, ShownCounts, OneRowPerFile, LateIsLive,
             TotalsWithinFile, Exists
<1>9. ASSUME UNCHANGED vars PROVE ReplayInv'
  BY <1>9, ReplayFrame DEF vars
<1> QED
  BY <1>1, <1>2, <1>3, <1>4, <1>5, <1>6, <1>7, <1>8, <1>9, RecordReplay, FlushReplay,
     BeginReplay, StampReplay, PruneReplay
  DEF Next, Writer, Main

\* What the graph shows and the rows of a file, in every reachable state.
THEOREM ReplayInvariant == Spec => [](IInv /\ ReplayInv)
<1>1. Init => IInv
  <2>1. Init => Drains
    BY ConstantsAssumption DEF Init, Drains
  <2> QED
    BY <2>1, InitControl, InitRow, InitLedgers, InitAggregates DEF IInv
<1>2. IInv /\ ReplayInv /\ [Next]_vars => (IInv /\ ReplayInv)'
  BY Inductive, NextReplay
<1> QED
  BY <1>1, <1>2, InitReplay, PTL DEF Spec

-----------------------------------------------------------------------------
(* Every step maps to a step of PcapCache or to a stutter.                 *)

CacheStep == [Cache!Next]_(Cache!vars)

LEMMA Stutter ==
    ASSUME UNCHANGED <<CacheOf, PhaseOf, file, CountsOf>>
    PROVE  CacheStep
  BY DEF CacheStep, Cache!vars

\* The rows that make a file cached are unchanged.
LEMMA SameCache ==
    ASSUME \A c \in Ids :
              /\ state[c] = "complete" => state'[c] = "complete" \/ fileOf[c] \notin Files
              /\ state'[c] = "complete" => state[c] = "complete" \/ fileOf'[c] \notin Files
              /\ state[c] = "complete" => fileOf'[c] = fileOf[c]
              /\ (state[c] = "complete" /\ fileOf[c] \in Files) => (c \in lossy' <=> c \in lossy)
    PROVE  CacheOf' = CacheOf
<1>1. ASSUME NEW f \in Files
      PROVE  /\ FindCompletePcap(f)' = FindCompletePcap(f)
             /\ FindCompletePcap(f) \cap lossy' = FindCompletePcap(f) \cap lossy
  <2>1. FindCompletePcap(f)' = {c \in Ids : state'[c] = "complete" /\ fileOf'[c] = f}
    BY DEF FindCompletePcap, Ids
  <2>2. ASSUME NEW c \in Ids
        PROVE  (state'[c] = "complete" /\ fileOf'[c] = f)
                  <=> (state[c] = "complete" /\ fileOf[c] = f)
    BY <1>1
  <2>3. ASSUME NEW c \in FindCompletePcap(f) PROVE c \in lossy' <=> c \in lossy
    BY <1>1, <2>3 DEF FindCompletePcap
  <2> QED
    BY <2>1, <2>2, <2>3 DEF FindCompletePcap
<1> QED
  BY <1>1 DEF CacheOf

\* Steps inside one phase.
LEMMA SamePhase ==
    ASSUME UNCHANGED <<state, fileOf, lossy, mode, file>>,
           mpc' = mpc \/ ({mpc, mpc'} \subseteq {"boot", "ingest", "flush", "flushing", "drop",
                                                 "stamp"})
                      \/ ({mpc, mpc'} \subseteq {"serve", "shutdown", "closing"})
                      \/ (mode # "pcap"),
           shown' = shown \/ mpc' \notin {"serve", "shutdown", "closing"}
    PROVE  CacheStep
<1>1. CacheOf' = CacheOf
  BY SameCache
<1>2. PhaseOf' = PhaseOf
  BY DEF PhaseOf, Serving
<1>3. CountsOf' = CountsOf
  BY DEF CountsOf, Serving
<1> QED
  BY <1>1, <1>2, <1>3, Stutter

\* A process starts: Boot.
LEMMA BootMaps ==
    ASSUME NEW m \in {"live", "pcap"}, NEW f, NEW n, Boot(m, f, n), m = "pcap" => f \in Files
    PROVE  CacheStep
<1>1. CacheOf' = CacheOf
  BY SameCache DEF Boot
<1>2. PhaseOf = "closed" /\ CountsOf = NoTotals /\ CountsOf' = NoTotals
  BY DEF Boot, PhaseOf, CountsOf, Serving
<1>3. file' = f /\ PhaseOf' = IF m = "pcap" THEN "loading" ELSE "closed"
  BY DEF Boot, PhaseOf, Serving
<1> QED
  BY <1>1, <1>2, <1>3 DEF CacheStep, Cache!Next, Cache!Start

\* A cached capture is shown: CacheHit.
LEMMA CacheHitMaps ==
    ASSUME IInv, ReplayInv, CacheHit
    PROVE  CacheStep
<1>1. PICK c \in FindCompletePcap(file) : shown' = totals[c]
  BY DEF CacheHit, LoadAggregates
<1>2. /\ mode = "pcap" /\ mpc = "boot" /\ mpc' = "serve"
      /\ UNCHANGED <<state, fileOf, lossy, mode, file>>
  BY DEF CacheHit
<1>3. /\ c \in Ids /\ state[c] = "complete" /\ fileOf[c] = file
      /\ file \in Files /\ file # NoFile /\ totals[c] \in [Keys -> Nat]
  BY <1>1, <1>2, ConstantsAssumption DEF FindCompletePcap, IInv, TypeOK
<1>4. /\ PhaseOf = "loading" /\ PhaseOf' = "open" /\ CountsOf' = totals[c]
      /\ CacheOf' = CacheOf
  BY <1>1, <1>2, SameCache DEF PhaseOf, CountsOf, Serving
<1>5. CacheOf[file] # "absent"
  BY <1>1, <1>3 DEF CacheOf
<1>6. CASE CacheOf[file] = "whole"
  <2>1. c \notin lossy /\ c \notin late
    BY <1>1, <1>3, <1>6 DEF CacheOf, ReplayInv, LateIsLive, Exists
  <2>2. \A k \in Keys : totals[c][k] = Cardinality(InKey(Content[file], k))
    BY <1>3, <2>1 DEF IInv, Aggregates, KeysAgree, CompleteIsStored, Exists
  <2>3. WholeOf[file] = [k \in Keys |-> Cardinality(InKey(Content[file], k))]
    BY <1>3 DEF WholeOf
  <2>4. totals[c] = WholeOf[file]
    BY <1>3, <2>2, <2>3
  <2> QED
    BY <1>2, <1>4, <1>5, <1>6, <2>4 DEF CacheStep, Cache!Next, Cache!Load
<1>7. CASE CacheOf[file] # "whole"
  <2>1. \A k \in Keys : totals[c][k] <= WholeOf[file][k]
    BY <1>3 DEF WholeOf, ReplayInv, TotalsWithinFile, Exists
  <2> QED
    BY <1>2, <1>4, <1>5, <1>7, <2>1 DEF CacheStep, Cache!Next, Cache!Load
<1> QED
  BY <1>6, <1>7

\* The graph of a replay that parsed the whole file is shown.
LEMMA ParseMaps ==
    ASSUME IInv, ReplayInv, mode = "pcap", mpc \in {"ingest", "stamp"}, mpc' = "serve",
           ~cacheHit, todo = {}, UNCHANGED <<mode, file, shown>>,
           \/ CacheOf' = CacheOf
           \/ /\ CacheOf[file] = "absent"
              /\ \E q \in {"whole", "part"} : CacheOf' = [CacheOf EXCEPT ![file] = q]
    PROVE  CacheStep
<1>1. PhaseOf = "loading" /\ PhaseOf' = "open" /\ CountsOf' = shown
  BY DEF PhaseOf, CountsOf, Serving
<1>2. file \in Files /\ Content[file] \ todo = Content[file]
  BY DEF IInv, TypeOK
<1>3. shown = [k \in Keys |-> Cardinality(InKey(Content[file], k))]
  BY <1>2 DEF ReplayInv, ShownCounts
<1>4. shown = WholeOf[file]
  BY <1>2, <1>3 DEF WholeOf
<1> QED
  BY <1>1, <1>4 DEF CacheStep, Cache!Next, Cache!Parse

\* EndCapture's UPDATE completes the row of the file, its only one.
LEMMA StampMaps ==
    ASSUME IInv, ReplayInv, StampCapture
    PROVE  CacheStep
<1>1. /\ UNCHANGED <<fileOf, lossy, mode, file, cacheHit, sid, todo, shown>>
      /\ mpc = "stamp" /\ AfterEnd
      /\ state' = state \/ state' = [state EXCEPT ![sid] = "complete"]
  BY DEF StampCapture, MainUnchanged
<1>2. /\ Own /\ TypeOK /\ sid \in Ids /\ state[sid] = "open" /\ fileOf[sid] = file
  BY <1>1 DEF IInv, Control, MainControl, RowControl, Own, Recording, Exists, TypeOK
<1>3. CASE mode = "live"
  <2>1. fileOf[sid] \notin Files
    BY <1>2, <1>3, ConstantsAssumption DEF IInv, Control, MainControl
  <2>2. CacheOf' = CacheOf
    <3>1. CASE state' = state
      BY <1>1, <3>1, SameCache
    <3>2. CASE state' = [state EXCEPT ![sid] = "complete"]
      BY <1>1, <1>2, <2>1, <3>2, SameCache DEF TypeOK
    <3> QED
      BY <1>1, <3>1, <3>2
  <2> QED
    BY <1>1, <1>3, <2>2, Stutter DEF PhaseOf, CountsOf
<1>4. CASE mode = "pcap"
  <2>1. todo = {} /\ ~cacheHit /\ mpc' = "serve" /\ file \in Files /\ file # NoFile
    BY <1>1, <1>2, <1>4, ConstantsAssumption DEF IInv, RowControl, Own, TypeOK, AfterEnd
  <2>2. CASE state' = state
    BY <1>1, <1>4, <2>1, <2>2, SameCache, ParseMaps
  <2>3. CASE state' = [state EXCEPT ![sid] = "complete"]
    <3> DEFINE q == IF sid \in lossy THEN "part" ELSE "whole"
    <3>1. \A c \in Ids : c # sid => ~(state[c] = "complete" /\ fileOf[c] = file)
      BY <1>2, <2>1 DEF ReplayInv, OneRowPerFile, Exists
    <3>2. FindCompletePcap(file) = {}
      BY <1>2, <3>1 DEF FindCompletePcap
    <3>3. ASSUME NEW f \in Files, f = file
          PROVE  FindCompletePcap(f)' = {sid}
      BY <1>1, <1>2, <2>3, <3>1, <3>3 DEF FindCompletePcap, TypeOK, Ids
    <3>4. ASSUME NEW f \in Files, f # file
          PROVE  FindCompletePcap(f)' = FindCompletePcap(f)
      BY <1>1, <1>2, <2>3, <3>4 DEF FindCompletePcap, TypeOK, Ids
    <3>5. CacheOf[file] = "absent"
      BY <2>1, <3>2 DEF CacheOf
    <3>6. CacheOf' = [CacheOf EXCEPT ![file] = q]
      <4>1. CacheOf' = [f \in Files |->
               IF FindCompletePcap(f)' = {} THEN "absent"
               ELSE IF FindCompletePcap(f)' \cap lossy = {} THEN "whole" ELSE "part"]
        BY <1>1 DEF CacheOf
      <4>2. ASSUME NEW f \in Files
            PROVE  CacheOf'[f] = IF f = file THEN q ELSE CacheOf[f]
        <5>1. CASE f = file
          <6>1. {sid} # {} /\ ({sid} \cap lossy = {} <=> sid \notin lossy)
            OBVIOUS
          <6>2. CacheOf'[f] = IF {sid} \cap lossy = {} THEN "whole" ELSE "part"
            BY <3>3, <4>1, <5>1, <6>1
          <6> QED
            BY <5>1, <6>1, <6>2
        <5>2. CASE f # file
          BY <3>4, <4>1, <5>2 DEF CacheOf
        <5> QED
          BY <5>1, <5>2
      <4>3. CacheOf = [f \in Files |-> CacheOf[f]]
        BY DEF CacheOf
      <4>4. CacheOf' = [f \in Files |-> CacheOf'[f]]
        BY <4>1
      <4> HIDE DEF q
      <4> QED
        BY <2>1, <4>2, <4>3, <4>4
    <3> QED
      BY <1>1, <1>4, <2>1, <3>5, <3>6, ParseMaps
  <2> QED
    BY <1>1, <2>2, <2>3
<1> QED
  BY <1>2, <1>3, <1>4 DEF TypeOK

\* Retention deletes the one row that made a file cached.
LEMMA PruneMaps ==
    ASSUME IInv, ReplayInv, PruneCaptures
    PROVE  CacheStep
<1>1. PICK expired \in SUBSET Ids :
         /\ state' = [c \in Ids |-> IF c \in expired THEN "none" ELSE state[c]]
         /\ fileOf' = [c \in Ids |-> IF c \in expired THEN NoFile ELSE fileOf[c]]
  BY DEF PruneCaptures, Expirable
<1>2. UNCHANGED <<lossy, mode, file, mpc, shown>>
  BY DEF PruneCaptures, RetentionUnchanged
<1>3. UNCHANGED <<PhaseOf, file, CountsOf>>
  BY <1>2 DEF PhaseOf, CountsOf, Serving
<1>4. ASSUME NEW f \in Files
      PROVE  FindCompletePcap(f)' \in {{}, FindCompletePcap(f)}
  <2>1. FindCompletePcap(f)' \subseteq FindCompletePcap(f)
    BY <1>1 DEF FindCompletePcap, Ids
  <2>2. \A c, d \in FindCompletePcap(f) : c = d
    BY ConstantsAssumption DEF FindCompletePcap, ReplayInv, OneRowPerFile, Exists
  <2> QED
    BY <2>1, <2>2
<1> DEFINE F == {f \in Files : FindCompletePcap(f)' = {}}
<1>5. CacheOf' = [f \in Files |-> IF f \in F THEN "absent" ELSE CacheOf[f]]
  <2>1. CacheOf' = [f \in Files |->
           IF FindCompletePcap(f)' = {} THEN "absent"
           ELSE IF FindCompletePcap(f)' \cap lossy = {} THEN "whole" ELSE "part"]
    BY <1>2 DEF CacheOf
  <2>2. ASSUME NEW f \in Files
        PROVE  (IF FindCompletePcap(f)' = {} THEN "absent"
                ELSE IF FindCompletePcap(f)' \cap lossy = {} THEN "whole" ELSE "part")
                  = IF f \in F THEN "absent" ELSE CacheOf[f]
    BY <1>4 DEF CacheOf
  <2> QED
    BY <2>1, <2>2
<1>6. F \in SUBSET Files
  OBVIOUS
<1> QED
  BY <1>3, <1>5, <1>6 DEF CacheStep, Cache!Next, Cache!Evict

\* The transaction that rolls back concerns a capture that is not cached yet.
LEMMA FlushFailsMaps ==
    ASSUME IInv, ReplayInv, FlushTxFails
    PROVE  CacheStep
<1>1. /\ UNCHANGED <<state, fileOf, mode, file, shown>>
      /\ wpc = "commit" /\ mpc' = IF wnext = "reply" THEN "drop" ELSE mpc
      /\ lossy' = IF batch = NoBatch THEN lossy ELSE lossy \cup {sid}
  BY DEF FlushTxFails, Return
<1>2. Own /\ TypeOK /\ sid \in Ids /\ mpc \notin {"down", "boot"}
  BY <1>1 DEF IInv, Control, NoSession, MainControl, Own, Idle, TypeOK
<1>3. wnext = "reply" => mpc = "flushing"
  BY <1>1 DEF IInv, Control, WriterControl
<1>4. ASSUME state[sid] = "complete", fileOf[sid] \in Files
      PROVE  batch = NoBatch
  <2>1. fileOf[sid] = file /\ mode = "pcap" /\ ~Recording
    BY <1>2, <1>4, ConstantsAssumption
    DEF IInv, RowControl, Control, MainControl, Exists, TypeOK
  <2>2. sid \notin late
    BY <1>2, <1>4, ConstantsAssumption DEF ReplayInv, LateIsLive, Exists
  <2>3. AfterFlush /\ mpc # "flushing"
    BY <1>2, <2>1 DEF Recording, AfterFlush, TypeOK
  <2> QED
    BY <1>1, <1>2, <2>2, <2>3 DEF IInv, Aggregates, FlushedAggregates
<1>5. CacheOf' = CacheOf
  BY <1>1, <1>4, SameCache
<1>6. UNCHANGED <<PhaseOf, CountsOf>>
  BY <1>1, <1>3 DEF PhaseOf, CountsOf, Serving
<1> QED
  BY <1>1, <1>5, <1>6, Stutter

\* A session that begins adds a row that is not complete.
LEMMA BeginMaps ==
    ASSUME IInv, ReplayInv, BeginCapture
    PROVE  CacheStep
<1>1. PICK c \in Ids :
         /\ IsNextId(c)
         /\ state' = [state EXCEPT ![c] = "open"]
         /\ fileOf' = [fileOf EXCEPT ![c] = file]
         /\ lossy' = lossy \ {c}
  BY DEF BeginCapture
<1>2. state[c] = "none" /\ TypeOK
  BY <1>1 DEF IsNextId, Exists, Ids, IInv
<1>3. CacheOf' = CacheOf
  BY <1>1, <1>2, SameCache DEF TypeOK
<1>4. /\ UNCHANGED <<mode, file, shown>>
      /\ mpc = "boot" /\ mpc' = IF mode = "pcap" THEN "ingest" ELSE "serve"
  BY DEF BeginCapture, AfterBegin
<1>5. UNCHANGED <<PhaseOf, CountsOf>>
  BY <1>4 DEF PhaseOf, CountsOf, Serving
<1> QED
  BY <1>3, <1>4, <1>5, Stutter

\* The process stops or is killed: Exit, Crash.
LEMMA StopMaps ==
    ASSUME ProcessDies
    PROVE  CacheStep
<1>1. CacheOf' = CacheOf
  BY SameCache DEF ProcessDies
<1>2. PhaseOf' = "closed" /\ CountsOf' = NoTotals
  BY DEF ProcessDies, PhaseOf, CountsOf, Serving
<1> QED
  BY <1>1, <1>2 DEF CacheStep, Cache!Next, Cache!Stop

LEMMA StepMaps == IInv /\ ReplayInv /\ [Next]_vars => CacheStep
<1> SUFFICES ASSUME IInv, ReplayInv, [Next]_vars
             PROVE  CacheStep
  OBVIOUS
<1>1. ASSUME NEW n \in PacketEveryChoices,
             Boot("live", NoFile, n) \/ \E f \in Files : Boot("pcap", f, n)
      PROVE  CacheStep
  BY <1>1, BootMaps
<1>2. ASSUME NEW p \in Packets, Record(p) PROVE CacheStep
  <2>1. /\ UNCHANGED <<state, fileOf, lossy, mode, file, mpc>>
        /\ shown' = shown \/ mpc = "ingest"
    BY <1>2 DEF Record, Ingesting
  <2> QED
    BY <2>1, SamePhase
<1>3. ASSUME SendRow \/ IngestReturns \/ SweepBuckets \/ SweepRows PROVE CacheStep
  BY <1>3, SamePhase DEF SendRow, IngestReturns, SweepBuckets, SweepRows, RetentionUnchanged
<1>4. ASSUME WriterReceives \/ WriterTicks \/ WriterServesFlush \/ WriterSeesDone \/ WriterDrains
      PROVE  CacheStep
  BY <1>4, WriterPhase, SamePhase
<1>5. ASSUME FlushTx PROVE CacheStep
  <2>1. /\ UNCHANGED <<state, fileOf, lossy, mode, file, shown>>
        /\ wpc = "commit" /\ mpc' = IF wnext = "reply" THEN "drop" ELSE mpc
    BY <1>5 DEF FlushTx, Return
  <2>2. wnext = "reply" => mpc = "flushing"
    BY <2>1 DEF IInv, Control, WriterControl
  <2> QED
    BY <2>1, <2>2, SamePhase
<1>6. ASSUME BeginFails PROVE CacheStep
  <2>1. /\ UNCHANGED <<state, fileOf, lossy, mode, file, shown>>
        /\ mpc = "boot" /\ mpc' = IF mode = "pcap" THEN "ingest" ELSE "serve"
    BY <1>6 DEF BeginFails, AfterBegin
  <2> QED
    BY <2>1, SamePhase
<1>7. ASSUME IngestDone PROVE CacheStep
  <2>1. /\ UNCHANGED <<state, fileOf, lossy, mode, file, shown, cacheHit>>
        /\ mode = "pcap" /\ mpc = "ingest" /\ todo = {}
        /\ mpc' = IF sid = 0 THEN "serve" ELSE "flush"
    BY <1>7 DEF IngestDone, MainUnchanged
  <2>2. ~cacheHit
    BY <2>1 DEF IInv, Control, MainControl
  <2>3. CacheOf' = CacheOf
    BY <2>1, SameCache
  <2>4. CASE sid = 0
    BY <2>1, <2>2, <2>3, <2>4, ParseMaps
  <2>5. CASE sid # 0
    BY <2>1, <2>5, SamePhase
  <2> QED
    BY <2>4, <2>5
<1>8. ASSUME Signal PROVE CacheStep
  <2>1. /\ UNCHANGED <<state, fileOf, lossy, mode, file, shown>>
        /\ mpc = "serve" /\ mpc' = IF mode = "live" /\ sid # 0 THEN "flush" ELSE "shutdown"
    BY <1>8 DEF Signal, MainUnchanged
  <2> QED
    BY <2>1, SamePhase
<1>9. ASSUME DropCapture \/ CloseStore PROVE CacheStep
  BY <1>9, SamePhase DEF DropCapture, CloseStore, MainUnchanged
<1>10. ASSUME Exit \/ Crash PROVE CacheStep
  BY <1>10, StopMaps DEF Exit, Crash
<1>11. ASSUME UNCHANGED vars PROVE CacheStep
  BY <1>11, SamePhase DEF vars
<1> QED
  BY <1>1, <1>2, <1>3, <1>4, <1>5, <1>6, <1>7, <1>8, <1>9, <1>10, <1>11, CacheHitMaps,
     StampMaps, PruneMaps, FlushFailsMaps, BeginMaps
  DEF Next, Writer, Main

\* Replaying a file shows the whole file, parsed or loaded from the cache, after
\* any crash, failed statement or prune, and short of a failed flush a cached
\* capture is never a partial one: main.go's replay branch and the store behind it.
THEOREM ReplayRefines == Spec => ImplementsPcapCache
<1>1. Init => Cache!Init
  <2> SUFFICES ASSUME Init PROVE Cache!Init
    OBVIOUS
  <2>1. \A f \in Files : FindCompletePcap(f) = {}
    BY DEF Init, FindCompletePcap
  <2>2. CacheOf = [f \in Files |-> "absent"]
    BY <2>1 DEF CacheOf
  <2>3. PhaseOf = "closed" /\ CountsOf = NoTotals
    BY DEF Init, PhaseOf, CountsOf, Serving
  <2> QED
    BY <2>2, <2>3 DEF Cache!Init
<1>2. IInv /\ ReplayInv /\ [Next]_vars => [Cache!Next]_(Cache!vars)
  BY StepMaps DEF CacheStep
<1> QED
  BY <1>1, <1>2, ReplayInvariant, PTL DEF Spec, ImplementsPcapCache, Cache!Spec
=============================================================================

----------------------------- MODULE PcapCache -----------------------------
(***************************************************************************)
(* What pcap replay with -db promises to its user: replaying a file shows  *)
(* the whole file, whether or not its aggregates come from the cache.      *)
(* CaptureStore implements it.  A cached file may be less than whole only  *)
(* when storing it failed in part.                                         *)
(***************************************************************************)
EXTENDS Naturals

CONSTANTS Files,     \* pcap identities
          Keys,      \* nodes and edges
          Whole,     \* [Files -> [Keys -> Nat]]: the counts of the whole file
          NoCounts   \* [Keys -> Nat]: an empty graph

VARIABLES cache,     \* [Files -> {"absent", "whole", "part"}]
          phase,     \* of the process: "closed", "loading", "open"
          viewed,    \* the file of that process
          counts     \* the counts its graph shows once open

vars == <<cache, phase, viewed, counts>>

Init == /\ cache = [f \in Files |-> "absent"]
        /\ phase = "closed"
        /\ counts = NoCounts

\* A process starts, to replay f or for something else.
Start == /\ phase = "closed"
         /\ \/ phase' = "loading" /\ viewed' \in Files
            \/ phase' = "closed"
         /\ UNCHANGED <<cache, counts>>

\* The cached aggregates are shown: all of the file, or no more than it.
Load == /\ phase = "loading"
        /\ cache[viewed] # "absent"
        /\ phase' = "open"
        /\ IF cache[viewed] = "whole" THEN counts' = Whole[viewed]
           ELSE \A k \in Keys : counts'[k] <= Whole[viewed][k]
        /\ UNCHANGED <<cache, viewed>>

\* The file is parsed and shown; it may have become cached.
Parse == /\ phase = "loading"
         /\ phase' = "open"
         /\ counts' = Whole[viewed]
         /\ \/ UNCHANGED cache
            \/ /\ cache[viewed] = "absent"
               /\ \E q \in {"whole", "part"} : cache' = [cache EXCEPT ![viewed] = q]
         /\ UNCHANGED viewed

\* Cached files expire.
Evict == /\ \E F \in SUBSET Files :
              cache' = [f \in Files |-> IF f \in F THEN "absent" ELSE cache[f]]
         /\ UNCHANGED <<phase, viewed, counts>>

\* The process stops or is killed.
Stop == /\ phase' = "closed"
        /\ counts' = NoCounts
        /\ UNCHANGED cache

Next == Start \/ Load \/ Parse \/ Evict \/ Stop

Spec == Init /\ [][Next]_vars
=============================================================================

------------------------------- MODULE MCFinder -------------------------------
(* Hosts, queries, protocols and streams, each set of them symmetric.        *)
EXTENDS Finder, TLC

MCSymmetry == Permutations(Host) \cup Permutations(Query)
              \cup Permutations(Protocol) \cup Permutations(Stream)
=============================================================================

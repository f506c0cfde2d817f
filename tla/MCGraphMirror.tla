---------------------------- MODULE MCGraphMirror ----------------------------
(* GraphMirror on a small instance: three nodes, one edge between two of    *)
(* them, fulls of more than two nodes in chunks; two looks that differ in   *)
(* their tier only, for a browser that starts in the colours of roles.      *)
EXTENDS GraphMirror, TLC

CONSTANTS a, b, c, ab

MCEnds == (ab :> {a, b})

MCForm == 1 :> 1 @@ 2 :> 1
=============================================================================

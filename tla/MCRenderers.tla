----------------------------- MODULE MCRenderers -----------------------------
(* Two nodes, joined in both directions. GL: an atlas that holds three of    *)
(* the texts, in two heights. Cosmos: two styles.                            *)
EXTENDS Renderers

MCFrom == [e \in Edge |-> IF e = "ab" THEN "a" ELSE "b"]
MCTo == [e \in Edge |-> IF e = "ab" THEN "b" ELSE "a"]
MCLabelOf == [n \in Node |-> [v \in Value |-> IF v = 0 THEN n ELSE "long"]]
MCEdgeLabel == [e \in Edge |-> "tcp"]
MCText == {"a", "b", "long", "tcp"}
MCWidth == [t \in MCText |-> IF t = "long" THEN 3 ELSE IF t = "tcp" THEN 1 ELSE 2]
MCHeight == [t \in MCText |-> IF t = "tcp" THEN 1 ELSE 2]

MCNodeOrder == <<"a", "b">>
MCEdgeOrder == <<"ab", "ba">>
MCStyle == {[colour |-> 0, value |-> 0], [colour |-> 1, value |-> 1]}
=============================================================================

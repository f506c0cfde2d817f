------------------------------- MODULE MCHub -------------------------------
(***************************************************************************)
(* A small world for Hub: three hosts, four contents of the live graph of  *)
(* which two differ in nothing but the counters, two stored windows, and a *)
(* filter that hides one host.                                             *)
(***************************************************************************)
EXTENDS Hub, SequencesExt

CONSTANTS a, b, c, browser1, browser2

OneBrowser  == [k \in 1..MaxConns |-> browser1]

\* The rendered shapes: nodes busiest first with their style, edges with theirs.
Shape(order, style, ends, width, total) ==
    [order |-> order, node |-> [n \in ToSet(order) |-> style],
     edge |-> [e \in ends |-> width], total |-> total]

Live(k)     == [capture |-> 0, t |-> k]
Stored(k, t) == [capture |-> k, t |-> t]

Start   == Live(1)
Grown   == Live(2)
Counted == Live(3)
Shrunk  == Live(4)

Raw(s) ==
    CASE s = Start   -> Shape(<<a, b>>, 0, {{a, b}}, 1, 1)
      [] s = Grown   -> Shape(<<c, a, b>>, 0, {{a, b}, {b, c}}, 1, 2)
      [] s = Counted -> Shape(<<c, a, b>>, 0, {{a, b}, {b, c}}, 1, 3)
      [] s = Shrunk  -> Shape(<<a, c>>, 0, {{a, c}}, 2, 4)
      [] s.capture # 0 /\ s.t = 1 -> Shape(<<b>>, 0, {}, 1, 5)
      [] OTHER       -> Shape(<<a, b, c>>, 0, {{a, c}, {b, c}}, 1, 6)

\* The filter hides host b and its edges; an override restyles host a.
MCPicture(s, overrides_, view_) ==
    LET p == Raw(s)
        order == IF view_ = "all" THEN p.order ELSE SelectSeq(p.order, LAMBDA n : n # b)
    IN  [order |-> order,
         node |-> [n \in ToSet(order) |-> IF n = a THEN overrides_ ELSE p.node[n]],
         edge |-> Restrict(p.edge, {e \in DOMAIN p.edge : e \subseteq ToSet(order)}),
         total |-> p.total]

MCLarge(g) == g \in {Grown, Counted}
FewGraphs  == {Start, Grown, Shrunk}
TwoGraphs  == {Start, Grown}
SwapGraphs == {Shrunk, Grown}
CountedGraphs == {Grown, Counted}
MCViews    == {"all", "some"}
OneView    == {"all"}
MCWindows   == {Stored(1, 1), Stored(1, 2), Stored(2, 1)}
=============================================================================

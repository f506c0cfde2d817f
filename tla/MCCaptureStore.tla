-------------------------- MODULE MCCaptureStore --------------------------
(* Small instances of CaptureStore for TLC.                                *)
EXTENDS CaptureStore, TLC

CONSTANTS p1, p2, p3, ka, kb, f1, f2, pcapA

MCKeys == {ka, kb}
MCFlows == {f1, f2}
MCFiles == {pcapA}
MCContent == pcapA :> {p1, p2}

\* Two packets of different flows that share one table row (a host).
TwoPackets == {p1, p2}
TwoKeysOf == p1 :> {ka} @@ p2 :> {ka, kb}
TwoFlowOf == p1 :> f1 @@ p2 :> f2

\* And a third like the first, so that a total can fall back from two.
ThreePackets == {p1, p2, p3}
ThreeKeysOf == TwoKeysOf @@ p3 :> {ka}
ThreeFlowOf == TwoFlowOf @@ p3 :> f1
ThreeContent == pcapA :> {p1, p2, p3}
===========================================================================

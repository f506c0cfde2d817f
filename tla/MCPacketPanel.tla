---------------------------- MODULE MCPacketPanel ----------------------------
(* PacketPanel on a small instance: a ring of two, a cache of two, a file   *)
(* of two packets; packets 2 and 4 pass the filter.                         *)
EXTENDS PacketPanel

MCMarked == {2, 4}
=============================================================================

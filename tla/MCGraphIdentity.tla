--------------------------- MODULE MCGraphIdentity ---------------------------
(***************************************************************************)
(* Instances of GraphIdentity for TLC: two addresses on one MAC (one host  *)
(* re-addressed, or two behind a gateway), a peer, a name that DNS gives   *)
(* late and only sometimes, a routed address that ends in 255 and is taken *)
(* for a group's, and a switch that sends LLDP frames.                     *)
(***************************************************************************)
EXTENDS GraphIdentity

\* The strings' own order: digits, then the labels' capitals, then small letters.
MCRank ==
  [i \in Ids \cup {NoName} |->
     CASE i = NoName -> 0 [] i = "01:80" -> 1 [] i = "10.1" -> 2 [] i = "10.2" -> 3
       [] i = "10.255" -> 4 [] i = "10.9" -> 5 [] i = "Broadcast" -> 6 [] i = "LLDP group" -> 7
       [] i = "aa:01" -> 8 [] i = "aa:02" -> 9 [] i = "cc:01" -> 10 [] i = "zeus" -> 11]
MCGroupLabel == [a \in Addrs \cap {"10.255"} |-> "Broadcast"]

Packet(src, srcName, srcMAC, dst, dstName, dstMAC) ==
  [src |-> src, srcName |-> srcName, srcMAC |-> srcMAC,
   dst |-> dst, dstName |-> dstName, dstMAC |-> dstMAC]

\* Two addresses on one MAC, the first also on a second interface and then with
\* a name; the second sending to the first, perhaps under that name too; packets to the
\* address taken for a group's, on the MAC of its router; the switch under its name.
MCPackets ==
  { Packet("10.1", "zeus", "aa:02", "10.9", NoName, NoMac),
    Packet("10.1", "10.1", "aa:01", "10.9", NoName, NoMac),
    Packet("10.2", "10.2", "aa:01", "10.9", NoName, NoMac),
    Packet("10.2", "zeus", NoMac, "10.1", NoName, "aa:01"),
    Packet("10.2", NoName, "aa:01", "10.255", NoName, "aa:02"),
    Packet("cc:01", "zeus", NoMac, "01:80", "LLDP group", NoMac) }

\* The instance is one that the theorems about hosts speak of.
ASSUME MCLinkLayerApart == LinkLayerApart
=============================================================================

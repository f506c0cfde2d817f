\* Four packets over three clock periods, one node and two edges per sweep.
CONSTANTS
  Addrs = {"10.1", "10.2", "10.9", "10.255", "01:80", "cc:01"}
  Names = {"zeus", "LLDP group"}
  Macs = {"aa:01", "aa:02", "cc:01"}
  NoName = "none"
  NoMac = "none"
  GroupLabel <- MCGroupLabel
  Rank <- MCRank
  Packets <- MCPackets
  Threshold = 1
  MacWindow = 2
  NodeCap = 1
  EdgeCap = 2
  MaxPackets = 4
  MaxTime = 3
SPECIFICATION Spec
INVARIANTS AdjacencyExact AnchorsHold TrafficAccounted DecayTakesOnlySilent
PROPERTIES IdentitiesResolve

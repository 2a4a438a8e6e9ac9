SPECIFICATION Spec
CONSTANTS
  Links <- MCLinks
  Tunnels <- MCTunnels
  Files <- MCFiles
  SkbMax = 2
  SeqSize = 6
  LineLen = 3
  IfconfMax = 5
  Traffic <- MCTraffic
  Covers <- MCCovers
  MaxOps = 2
  MaxFlips = 2
CHECK_DEADLOCK FALSE
INVARIANTS
  
  VisibleIntact
  TrafficConserved

  

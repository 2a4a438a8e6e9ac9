SPECIFICATION Spec
CONSTANTS
  Builds = {"module", "intree"}
  Threads = {t1, t2}
  Links = {"tun", "wlan"}
  Tunnels = {"tun"}
  Route = "tun"
  SndBuf = 1
  Capacity = 2
  Milli = 2
  RegenNs = 4
  U32 = 8
  IntHalf = 4
  Steps <- MCSteps
  MaxNow = 17
  MaxCalls = 5
  MaxFlips = 2
SYMMETRY Symmetry
CONSTRAINT OneConcern
CHECK_DEADLOCK FALSE
INVARIANTS
  DeniedBindLeavesNoTrace
  BoundVpnNotReported
  ConnectFollowsOnePolicy
  
PROPERTY
  BucketIsExact

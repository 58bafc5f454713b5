SPECIFICATION Spec
CONSTANTS
  None = None
  GatewayFloor = gateways
  Gateways = {g1}
  Tunnels = {r1, r2}
  MaxTunnels = 2
  MaxGateways = 1
  FloorHold = 1
  CallTimeout = 1
  GatewayTimeout = 2
  SendHeader = TRUE
  RecordInterval = 2
  Hold = 3
  Late = 3
  MaxStall = 2
  Quiet = 8
  PerCall = 4
  Calls = 2
  MaxFrames = 3
  MaxDisturbances = 1
INVARIANT EvenlyPaced
PROPERTY LinesAreWhole CallsAreEnded
CHECK_DEADLOCK FALSE

\* A repeater that fades, a gateway that talks and a gateway that listens.
SPECIFICATION Spec
CONSTANTS
  None = None
  GatewayFloor = gateways
  Gateways = {g1, g2}
  Tunnels = {r1}
  MaxTunnels = 1
  MaxGateways = 2
  FloorHold = 1
  CallTimeout = 1
  GatewayTimeout = 2
  SendHeader = TRUE
  RecordInterval = 2
  Hold = 3
  Late = 3
  MaxStall = 2
  Quiet = 8
  PerCall = 4
  Calls = 2
  MaxFrames = 3
  MaxDisturbances = 0
INVARIANT EndsOnlyItsCall
CHECK_DEADLOCK FALSE

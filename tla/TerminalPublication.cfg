SPECIFICATION Spec
CONSTANTS
  c1 = c1
  c2 = c2
  tab1 = tab1
  tab2 = tab2
  Conns = {c1, c2}
  Clients = {tab1, tab2}
  ClientOf <- TwoTabs
  NoClient = NoClient
  NoConn = NoConn
  Lease = 1
  MaxAttempts = 2
  MaxLaunches = 1
  MaxGenerations = 1
  MaxEvents = 1
  Traffic = {"takeover", "heartbeat"}
INVARIANTS CoordinatesOfLaunch LeaseOfCoordinates
CHECK_DEADLOCK FALSE

SPECIFICATION FairSpec
CONSTANTS
  c1 = c1
  c2 = c2
  tab1 = tab1
  tab2 = tab2
  Conns = {c1, c2}
  Clients = {tab1, tab2}
  ClientOf <- TwoTabs
  NoClient = NoClient
  NoConn = NoConn
  Lease = 2
  MaxAttempts = 1
  MaxLaunches = 0
  MaxGenerations = 0
  MaxEvents = 1
  Traffic = {"input", "takeover", "sync"}
PROPERTIES InputWithinLease ControlReturns

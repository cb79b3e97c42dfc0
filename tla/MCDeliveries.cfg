SPECIFICATION DeliveriesSpec
CONSTANTS
  Comms = {c1}
  a1 = a1
  w1 = w1
  Addresses = {a1}
  Recipients = 1
  Lists <- MCLists
  Publishers = {w1, w2}
  Hooks = {}
  MaxSends = 1
  MaxDeliveries = 2
  Nobody = Nobody
  u1 = u1
  t1 = t1
  Uploads = {u1}
  MaxPages = 3
  Sheets = {t1, t2}
  NoSheet = NoSheet
  MaxPrints = 2
  Hosts = {h1}
  Desks = {d1}
  MaxSubmits = 2
  MaxTries = 2
CONSTRAINTS
  OneSends
  ByLength
INVARIANTS
  OneScanPerSheet
  SetAsideForAnother
PROPERTIES
  QueuedIsAnswered
  PageIsSettled
CHECK_DEADLOCK FALSE

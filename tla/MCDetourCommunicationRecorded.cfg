SPECIFICATION CommunicationSpec
CONSTANTS
  Comms = {c1}
  a1 = a1
  Addresses = {a1}
  Recipients = 1
  Lists <- MCLists
  Publishers = {u1}
  Hooks = {}
  MaxSends = 1
  MaxDeliveries = 1
  Nobody = Nobody
INVARIANT RecordedIsCounted
CHECK_DEADLOCK FALSE

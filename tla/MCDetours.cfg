SPECIFICATION DetoursSpec
CONSTANTS
  Detours = {d1, d2}
  Places = {p1, p2}
  Externals = {x1}
  Staff = {w1, w2}
  None = None
  Intakes = {i1}
  f1 = f1
  f2 = f2
  t1 = t1
  t2 = t2
  Facts = {f1, f2}
  Dates = {t1, t2}
  Reports <- MCReports
  Requests = {q1, q2}
  Nothing = Nothing
  Comms = {c1}
  a1 = a1
  a2 = a2
  Addresses = {a1, a2}
  Recipients = 2
  Lists <- MCLists
  Publishers = {u1}
  Hooks = {h1}
  MaxSends = 2
  MaxDeliveries = 2
  Nobody = Nobody
SYMMETRY Symmetry
CONSTRAINTS
  OneAtLength
  OneDateGiven
INVARIANTS
  ConfirmedOverlapIsOverridden
  CorrectionStands
  UnreviewedIsOutstanding
  DecisionStandsUnlessRaced
  DetourSaysWhatIntakeSays
  CountedWasTold
  DeliveredWasReported
CHECK_DEADLOCK FALSE

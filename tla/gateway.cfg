SPECIFICATION Spec
CONSTANTS
  Users = {u1, u2, u3}
  Movers = {u1}
  Ids = {i1, i2}
  Prints = {p1}
  Maximum <- MCMaximum
  Window <- MCWindow
  Second = 2
  MaxTracked = 2
  Retained = 2
  MaxEvents = 4
  MaxTime = 3
SYMMETRY GatewaySymmetry
INVARIANTS
  SpanBounded
  RecentRemembered
  WaitIsEnough
  RetriesLearn

SPECIFICATION Spec
CONSTANTS
  Callers = {c1, c2}
  Principals = {p1, p2}
  Keys = {k1, k2}
  Digests = {d1, d2}
  Tokens = {t1, t2, t3}
  NoToken = NoToken
  Unused = Unused
  Accepted = Accepted
  Void = Void
  Lifetime = 1
  MaxEntries = 2
  MaxEntriesPerPrincipal = 2
  MaxTime = 2
SYMMETRY Symmetry
INVARIANTS TypeOK OnlyLatestOutstanding WithinCapacity
PROPERTIES NoPlanLost ImplementsTokens
CHECK_DEADLOCK FALSE

SPECIFICATION ServerSpec
CONSTANTS
  a = a
  b = b
  Requests = {r1, r2}
  MaxAuthorizations = 3
  MaxPages = 3
  MaxTime = 3
  MaxTokenTime = 4
  MaxRestarts = 1
  CodeLifetime = 2
  StoreMax = 2
  Clients <- MCClients
  Assertions <- MCAssertions
  MaxCodes = 2
  MaxTokens = 3
  AccessLifetime = 1
  RefreshLifetime = 2
  SessionLifetime = 3
  Keys = {k1, k2, k3}
  Limit = 2
  Window = 2
  MaxEntries = 2
  MaxAttempts = 3
  Posts = {p1, p2}
  KeyIds = {old, new}
  MaxTokenAttempts = 2
  EnvelopeLifetime = 1
  MaxEnvelopes = 2
  MaxBearerTime = 1
SYMMETRY Symmetry
INVARIANTS MintedOnce OneSession UsedOnce TwiceTheLimit
PROPERTY StaysValid
CHECK_DEADLOCK FALSE

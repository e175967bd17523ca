SPECIFICATION LifeSpec
CONSTANTS
  MaxRequests = 2
  MaxBeats = 2
  Hosts = {h1, h2}
  Allowed = {h2}
  MaxRedirects = 3
  MaxBytes = 1
  MaxChanges = 2
  LastRelease = 2
  Builds = {b1, b2, spoiled}
  Sound = {b1, b2}
  MaxHops = 3
  MaxReleaseChanges = 2
INVARIANTS OrderlyEnd WithinPolicy
PROPERTY ComesToAnEnd
CHECK_DEADLOCK FALSE

SPECIFICATION Spec
CONSTANTS
  c1 = c1
  None = None
  Client = {c1}
  SoftBanned = {}
  Lists = 1
  BlAction = {"kill", "soft", "shun"}
  CblVerdict = {"kill", "soft", "shun", "block"}
  PingCookie = TRUE
  IdentTimeout = 0
  SaslTimeout = 0
  CblTimeout = 0
  HandshakeTimeout = 1
  PingFreq = 1
  MaxTime = 3
  MaxAuth = 2
  MaxRare = 1
INVARIANTS
  RefusedStaysOut
CHECK_DEADLOCK FALSE

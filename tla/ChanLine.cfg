SPECIFICATION Spec
CONSTANTS
  sa = sa
  sb = sb
  sc = sc
  a1 = a1
  c1 = c1
  None = None
  Server <- LineServers
  Edge <- LineEdge
  Hop <- LineHop
  User <- EndUser
  Home <- EndHome
  TS = {1, 2}
  Limit = {1, 2}
  ModesOnJoin = "p"
  Calm = {"users", "links"}
  MaxOp = 4
  MaxKick = 1
  MaxMode = 2
  MaxLink = 3
INVARIANTS
  ChannelAgreement
CHECK_DEADLOCK FALSE

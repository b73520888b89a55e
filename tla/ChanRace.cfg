SPECIFICATION Spec
CONSTANTS
  sa = sa
  sb = sb
  sc = sc
  a1 = a1
  c1 = c1
  None = None
  Server <- LineServers
  Edge <- LineEdge
  Hop <- LineHop
  User <- EndUser
  Home <- EndHome
  TS = {1, 2}
  Limit = {1}
  ModesOnJoin = None
  Calm = {}
  MaxOp = 3
  MaxKick = 0
  MaxMode = 1
  MaxLink = 2
INVARIANTS
  TypeOK
  MembersKnown
  MembersAgree
PROPERTIES
  TsOnlyFalls
CHECK_DEADLOCK FALSE

SPECIFICATION Spec
CONSTANTS
  sa = sa
  sb = sb
  sc = sc
  gline = gline
  shun = shun
  shun2 = shun2
  cidr = cidr
  eline = eline
  None = None
  Server <- LineServer
  Edge <- LineEdge
  Tkldb = {sa}
  Host = {}
  Kill = {gline}
  Shun = {}
  MatchUser = {}
  MatchSimple = {}
  Exception = {}
  KeyOrder <- LineOrder
  Oper <- LineOper
  Mark <- LineMark
  Duration = {0, 1}
  ExceptionDuration = {0}
  Skew <- LineSkew
  SaveEvery = 1
  SaveDelta = 0
  Fragile = {sa}
  MaxTime = 2
  MaxSet = 2
  MaxRemove = 0
  MaxConnect = 3
  MaxDown = 1
  MaxUser = 0
  MaxRehash = 0
INVARIANTS
  TypeOK
  BansAgree
  SavedInTime
CHECK_DEADLOCK FALSE

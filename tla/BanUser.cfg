SPECIFICATION Spec
CONSTANTS
  sa = sa
  sb = sb
  sc = sc
  gline = gline
  shun = shun
  shun2 = shun2
  cidr = cidr
  eline = eline
  None = None
  Server <- PairServer
  Edge <- PairEdge
  Tkldb = {}
  Host = {sb}
  Kill = {gline}
  Shun = {shun, shun2, cidr}
  MatchUser = {shun, shun2, cidr}
  MatchSimple = {shun, shun2}
  Exception = {eline}
  KeyOrder <- PairOrder
  Oper <- PairOper
  Mark <- PairMark
  Duration = {1}
  ExceptionDuration = {0, 1}
  Skew <- PairSkew
  SaveEvery = 1
  SaveDelta = 0
  Fragile = {}
  MaxTime = 1
  MaxSet = 3
  MaxRemove = 1
  MaxConnect = 1
  MaxDown = 0
  MaxUser = 1
  MaxRehash = 1
INVARIANTS
  Enforced
  ShunJustified
CHECK_DEADLOCK FALSE

SPECIFICATION FairSpec
CONSTANTS
  a = a
  b = b
  c = c
  a1 = a1
  a2 = a2
  b1 = b1
  c1 = c1
  n1 = n1
  n2 = n2
  None = None
  Server <- PairServers
  Link <- PairLink
  UID <- PairUID
  Home <- PairHome
  Mask <- PairMask
  Nick <- TwoNicks
  TS <- TwoTimes
  MaxConnect = 2
  MaxOp = 4
  MaxOper = 0
INVARIANTS
  TypeOK
  NickUnique
  UIDUnique
  LinkAgreement
CHECK_DEADLOCK FALSE
PROPERTIES
  Settles

SPECIFICATION Spec
CONSTANTS
  a = a
  b = b
  c = c
  a1 = a1
  a2 = a2
  b1 = b1
  c1 = c1
  n1 = n1
  n2 = n2
  None = None
  Server <- LineServers
  Link <- LineLink
  UID <- LineUID
  Home <- LineHome
  Mask <- LineMask
  Nick <- TwoNicks
  TS <- TwoTimes
  MaxConnect = 2
  MaxOp = 3
  MaxOper = 1
INVARIANTS
  NoOrphans
  NoGhosts
CHECK_DEADLOCK FALSE
SYMMETRY NickSymmetry

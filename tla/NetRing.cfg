SPECIFICATION Spec
CONSTANTS
  a = a
  b = b
  c = c
  a1 = a1
  a2 = a2
  b1 = b1
  c1 = c1
  n1 = n1
  n2 = n2
  None = None
  Server <- LineServers
  Link <- RingLink
  UID <- NoUID
  Home <- NoHome
  Mask <- NoMask
  Nick <- TwoNicks
  TS <- TwoTimes
  MaxConnect = 4
  MaxOp = 0
  MaxOper = 0
INVARIANTS
  DirectionsUp
  InStep
  NoLoop
CHECK_DEADLOCK FALSE

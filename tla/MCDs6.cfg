CONSTANTS
  ipA = ipA
  ipB = ipB
  x1 = x1
  y1 = y1
  NBR_TABLE_MAX_NEIGHBORS = 2
  UIP_DS6_ROUTE_NB = 2
  Ip = {ipA, ipB}
  Ll = {x1, y1}
  Speaks <- MCSpeaks
  Dest = {d, e, f}
  LinkaddrNull = LinkaddrNull
  NONE = NONE
SYMMETRY Symmetry
SPECIFICATION Spec
INVARIANTS
  OneEntryPerAddress
  
  RoutesLinked
  NextHopLocked
PROPERTIES
  EvictsOnlyIdle

CONSTANTS
  nodeA = nodeA
  nodeB = nodeB
  NONE = NONE
  Node <- MCNode
  Size <- SizeFull
  Unknown <- UnknownPlain
  FragFirst = 2
  FragNext = 2
  Contexts = 2
  Buffers = 2
  UipBufSize = 4
  TagMod = 2
  TxStatus <- AllStatus
  MaxLoss = 1
  MaxDup = 1
  MaxReboot = 1
SPECIFICATION Spec
INVARIANTS
  NoOrphanBuffer
  LenAccounted
  OneDatagramPerContext
  DeliveredIntact

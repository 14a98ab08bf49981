CONSTANTS
  nodeA = nodeA
  nodeB = nodeB
  NONE = NONE
  Node <- MCNode
  Size <- SizeLive
  Unknown = {}
  FragFirst = 2
  FragNext = 2
  Contexts = 2
  Buffers = 4
  UipBufSize = 7
  TagMod = 2
  TxStatus = {"OK"}
  MaxLoss = 0
  MaxDup = 0
  MaxReboot = 0
SPECIFICATION QuietSpec
PROPERTIES
  AllDelivered

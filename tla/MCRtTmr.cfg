CONSTANTS
  Tmr = {t1, t2, t3}
  Period = {1, 2}
  W = 3
  MaxTick = 3
  NULL = NULL
SPECIFICATION Spec
INVARIANTS
  TypeOK
  DoublyLinked
  Ordered
PROPERTIES
  ImplementsService

CONSTANTS
  ob = ob
  sc = sc
  d1 = d1
  NULL = NULL
  NONE = NONE
  EventType <- MCEventType
  Oblig <- MCOblig
  StatusChange = sc
  Data <- MCData
  Callback = {cbA, cbB}
  IsrEvent <- MCIsrEvent
  EVPROC_QUEUE_SIZE = 3
  MAX_CALLBACK_COUNT = 2
  MaxDepth = 2
SPECIFICATION Spec
INVARIANTS
  TypeOK
  
  NoHoles
  NoDoubleRegistration
  ResetErasesPending
  EveryRegisteredCalled

CONSTANTS
  ri = ri
  rs = rs
  rp = rp
  rf = rf
  sc = sc
  ps = ps
  NULL = NULL
  NONE = NONE
  EventType <- MCEventType
  Oblig = {}
  StatusChange = sc
  Data <- MCData
  Callback = {loc, app}
  LocCb = loc
  App = app
  IsrEvent <- MCIsrEvent
  EVPROC_QUEUE_SIZE = 3
  MAX_CALLBACK_COUNT = 2
  MaxDepth = 1
  ReqInit = ri
  ReqStart = rs
  ReqStop = rp
  AppEvent = rf
  StatusPtr = ps
SPECIFICATION LifeSpec
INVARIANTS
  RequestsHeard
  ApplicationInformed
  ActiveImpliesRadio
  
CHECK_DEADLOCK FALSE

CONSTANTS
  CTimer = {c1}
  ETimer = {e1}
  Interval = {1}
  W = 3
  MaxLate = 1
  EVPROC_QUEUE_SIZE = 2
  IsrEvent = {rf}
  NONE = NONE
SPECIFICATION Spec
INVARIANTS
  NotForgotten
  AtMostOneCallPerArming
PROPERTIES
  EarlyOnlyIfStale
  HandlerNeverEarly
  StoppedCtimerSilent

CONSTANTS
  CTimer = {c1}
  ETimer = {}
  Interval = {1}
  W = 3
  MaxLate = 1
  EVPROC_QUEUE_SIZE = 2
  IsrEvent = {rf}
  NONE = NONE
SPECIFICATION FairSpec
PROPERTY ArmedIsServed

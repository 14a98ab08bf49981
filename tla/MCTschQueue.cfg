CONSTANTS
  A = A
  Addr = {A}
  Broadcast = Broadcast
  Eb = Eb
  NONE = NONE
  TSCH_QUEUE_NUM_PER_NEIGHBOR = 2
  TSCH_QUEUE_MAX_NEIGHBOR_QUEUES = 3
  QUEUEBUF_NUM = 1
  TSCH_DEQUEUED_ARRAY_SIZE = 2
  TSCH_MAC_MAX_FRAME_RETRIES = 1
  TSCH_MAC_MIN_BE = 1
  TSCH_MAC_MAX_BE = 1
  TSCH_SCHEDULE_MAX_LINKS = 2
  tsch_current_eb_period = 1
  tsch_is_coordinator = FALSE
  Kinds <- DedicatedKinds
  LinkChanges = 2
SPECIFICATION Spec
INVARIANTS
  LinksCounted
  LinkScheduled

SPECIFICATION Spec
CONSTANTS
  QUEUE_MAX_SIZE = 5
  MaxPackets = 14
INVARIANT TypeOK
PROPERTY IsLossyFifo
PROPERTY LostOnlyByOverflow

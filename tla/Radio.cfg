SPECIFICATION FairSpec
CONSTANTS
  RFM12_TRX_FRAME_SIZE = 4
  Lengths = {1}
  NoiseLengths = {0, 4}
  FifoSize = 2
  Timeout = 1
  Holdoff = 1
  MaxFrames = 2
 
PROPERTY IsReceiver
PROPERTY SentWhole
INVARIANT TypeOK
INVARIANT RxRing
INVARIANT ModesAgree

SPECIFICATION Spec
CONSTANTS
  Sender = {s1, s2, s3}
  NoSender = NoSender
  DLL_MAX_PACKET_SIZE = 3
  DLL_MTU = 1
  DLL_RX_TABLE_SIZE = 2
  SeqMod = 2
  RxBuffers = 1
  Damage = {0}
  Dest = {"us"}
  MaxPackets = 1
SYMMETRY Symmetry
INVARIANT TypeOK
INVARIANT OneEntryPerSource
INVARIANT OrderIsAge
INVARIANT PacketTaken

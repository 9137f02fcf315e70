SPECIFICATION Spec
CONSTANTS
  Sender = {s1}
  NoSender = NoSender
  DLL_MAX_PACKET_SIZE = 5
  DLL_MTU = 2
  DLL_RX_TABLE_SIZE = 1
  SeqMod = 2
  RxBuffers = 2
  Damage = {0, 1, 2}
  Dest = {"us", "other"}
  MaxPackets = 3
 
PROPERTY IsPacketLink
PROPERTY RepeatsAreShort

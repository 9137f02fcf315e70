SPECIFICATION Spec
CONSTANTS
  Node = {n1, n2}
  NoNode = NoNode
  Port = {p1}
  NoPort = NoPort
  TRANS_TIMEOUT = 1
  TRANS_RESEND = 1
  MaxMsgs = 1
  MaxAir = 1
  Prompt = FALSE
  Faults = {"lose"}
PROPERTY HostAnswersRequester
SYMMETRY Symmetry

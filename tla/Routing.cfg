SPECIFICATION Spec
CONSTANTS
  Node = {1, 2, 3}
  Links = {{1, 2}, {2, 3}}
  DEFAULT_NETWORK_SIZE = 4
  UNKNOWN_NEXT_HOP = 7
  QUEUE_MAX_SIZE = 3
  RREQ_TTL = 1
  RREP_TTL = 1
  DEFAULT_TTL = 1
  TtlMod = 2
  Destinations = {0, 3}
  NET_ID = 5
  PayloadBytes = {1}
  Expiring = {2}
  MaxSeqnum = 2
  MaxSegments = 1
INVARIANT TypeOK
INVARIANT UnknownIsFresh
INVARIANT RoutesAreTrue
PROPERTY WipedSendsRequests
